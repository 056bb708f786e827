---------------------------- MODULE LayersProofs ----------------------------
(***************************************************************************)
(* Proofs about the three layers of MCLayers.tla, for any keys, values,    *)
(* transfers, bounds and points of crash or failure.  The LSM engine       *)
(* (Storage.tla): while no torn record lies in the WAL, what Get returns   *)
(* is what a crash would leave, and the engine is the durable map of       *)
(* KVStore.tla.  The store a raft node keeps in it (RaftStore.tla): what a *)
(* Save cut short by a crash leaves of the log.  The lock of DLock.tla and *)
(* the transfers above it (Handoff.tla), for every length of the lease.    *)
(***************************************************************************)
EXTENDS Storage, RaftStore, Handoff, TLAPS, SequenceTheorems, FiniteSetTheorems, WellFoundedInduction

-----------------------------------------------------------------------------
(* The least and the greatest of a set of numbers. *)

\* < as a relation.
LEMMA LessThan ==
  \E R : (\A a, b \in Nat : a < b => <<a, b>> \in R) /\ IsWellFoundedOn(R, Nat)
<1> DEFINE R == OpToRel(<, Nat)
<1>1. IsWellFoundedOn(R, Nat)
  BY NatLessThanWellFounded
<1>2. \A a, b \in Nat : a < b => <<a, b>> \in R
  BY DEF OpToRel
<1> HIDE DEF R
<1>3. QED
  BY <1>1, <1>2

LEMMA Least ==
  ASSUME NEW T, T \subseteq Nat, T # {}
  PROVE  \E x \in T : \A y \in T : x <= y
<1>1. PICK R : (\A a, b \in Nat : a < b => <<a, b>> \in R) /\ IsWellFoundedOn(R, Nat)
  BY LessThan
<1>2. IsWellFoundedOn(R, Nat)
  BY <1>1
<1>3. PICK x \in T : \A y \in T : ~(<<y, x>> \in R)
  BY <1>2, WFMin
<1>4. ASSUME NEW y \in T PROVE x <= y
  <2>1. x \in Nat /\ y \in Nat
    OBVIOUS
  <2>2. ~(<<y, x>> \in R)
    BY <1>3
  <2>3. ~(y < x)
    BY <1>1, <2>1, <2>2
  <2>4. QED
    BY <2>1, <2>3
<1>5. QED
  BY <1>4

LEMMA Greatest ==
  ASSUME NEW n \in Nat, NEW T, T \subseteq 1..n, T # {}
  PROVE  \E x \in T : \A y \in T : x >= y
<1> DEFINE D == {d \in Nat : n - d \in T}
<1>1. D \subseteq Nat
  OBVIOUS
<1>2. D # {}
  <2>1. PICK y \in T : TRUE
    OBVIOUS
  <2>2. n - y \in Nat /\ n - (n - y) = y
    OBVIOUS
  <2>3. QED
    BY <2>1, <2>2
<1>3. PICK d \in D : \A e \in D : d <= e
  <2> HIDE DEF D
  <2>1. QED
    BY <1>1, <1>2, Least
<1>4. ASSUME NEW y \in T PROVE n - d >= y
  <2>1. n - y \in Nat /\ n - (n - y) = y
    OBVIOUS
  <2>2. n - y \in D
    BY <2>1
  <2>3. d <= n - y
    BY <1>3, <2>2
  <2>4. QED
    BY <2>1, <2>3
<1>5. QED
  BY <1>4

LEMMA MinIs ==
  ASSUME NEW T, T \subseteq Nat, T # {}
  PROVE  Min(T) \in T /\ \A y \in T : Min(T) <= y
  BY Least DEF Min

LEMMA MaxIs ==
  ASSUME NEW n \in Nat, NEW T, T \subseteq 1..n, T # {}
  PROVE  Max(T) \in T /\ \A y \in T : Max(T) >= y
  BY Greatest DEF Max

\* An element below which there is none, and one above which there is none.
LEMMA MinOf ==
  ASSUME NEW T, T \subseteq Nat, NEW x \in T, \A y \in T : x <= y
  PROVE  Min(T) = x
<1>1. Min(T) \in T /\ \A y \in T : Min(T) <= y
  BY MinIs
<1>2. Min(T) \in Nat /\ x \in Nat /\ Min(T) <= x /\ x <= Min(T)
  BY <1>1
<1>3. QED
  BY <1>2

LEMMA MaxOf ==
  ASSUME NEW n \in Nat, NEW T, T \subseteq 1..n, NEW x \in T, \A y \in T : x >= y
  PROVE  Max(T) = x
<1>1. Max(T) \in T /\ \A y \in T : Max(T) >= y
  BY MaxIs
<1>2. \A y \in T : y \in Nat
  OBVIOUS
<1>3. Max(T) \in Nat /\ x \in Nat /\ Max(T) >= x /\ x >= Max(T)
  BY <1>1, <1>2
<1>4. QED
  BY <1>3

-----------------------------------------------------------------------------
(* Reading the tables. *)

\* What a reader sees of a record.
Shown(r) == IF r \in {None, Tomb} THEN Missing ELSE r

LEMMA ViewShows ==
  ASSUME NEW m, NEW tabs, NEW k \in Key
  PROVE  View(m, tabs)[k] = Shown(IF m[k] # None THEN m[k] ELSE Newest(tabs, k))
  BY DEF View, Shown

\* No table has a record of the key.
LEMMA NewestNone ==
  ASSUME NEW tabs \in Seq(ID), NEW k \in Key,
         \A i \in 1..Len(tabs) : Record(tabs[i], k) = None
  PROVE  Newest(tabs, k) = None
<1>1. {i \in 1..Len(tabs) : Record(tabs[i], k) # None} = {}
  OBVIOUS
<1>2. QED
  BY <1>1 DEF Newest

\* Table i is the first that has one.
LEMMA NewestAt ==
  ASSUME NEW tabs \in Seq(ID), NEW k \in Key, NEW i \in 1..Len(tabs),
         Record(tabs[i], k) # None,
         \A j \in 1..(i - 1) : Record(tabs[j], k) = None
  PROVE  Newest(tabs, k) = Record(tabs[i], k)
<1> DEFINE T == {j \in 1..Len(tabs) : Record(tabs[j], k) # None}
<1>1. i \in T /\ T \subseteq Nat /\ Newest(tabs, k) = IF T = {} THEN None ELSE Record(tabs[Min(T)], k)
  BY DEF Newest
<1>2. ASSUME NEW j \in T PROVE i <= j
  BY <1>2
<1> HIDE DEF T
<1>3. Min(T) = i
  BY <1>1, <1>2, MinOf
<1>4. QED
  BY <1>1, <1>3

\* One of the two is the case.
LEMMA NewestCases ==
  ASSUME NEW tabs \in Seq(ID), NEW k \in Key
  PROVE  \/ \A i \in 1..Len(tabs) : Record(tabs[i], k) = None
         \/ \E i \in 1..Len(tabs) : /\ Record(tabs[i], k) # None
                                    /\ \A j \in 1..(i - 1) : Record(tabs[j], k) = None
<1> DEFINE T == {j \in 1..Len(tabs) : Record(tabs[j], k) # None}
<1>1. T \subseteq Nat
  OBVIOUS
<1>2. CASE T = {}
  BY <1>2
<1>3. CASE T # {}
  <2>1. PICK i \in T : \A j \in T : i <= j
    <3> HIDE DEF T
    <3>1. QED
      BY <1>1, <1>3, Least
  <2>2. i \in 1..Len(tabs) /\ Record(tabs[i], k) # None
    OBVIOUS
  <2>3. ASSUME NEW j \in 1..(i - 1) PROVE Record(tabs[j], k) = None
    <3>1. j \in 1..Len(tabs) /\ ~(i <= j)
      BY <2>2
    <3>2. j \notin T
      BY <2>1, <3>1
    <3>3. QED
      BY <3>1, <3>2
  <2>4. QED
    BY <2>2, <2>3
<1>4. QED
  BY <1>2, <1>3

\* A table in front of the others.
LEMMA NewestFront ==
  ASSUME NEW tabs \in Seq(ID), NEW id \in ID, NEW k \in Key
  PROVE  Newest(<<id>> \o tabs, k)
           = IF Record(id, k) # None THEN Record(id, k) ELSE Newest(tabs, k)
<1> DEFINE all == <<id>> \o tabs
<1>1. /\ all \in Seq(ID) /\ Len(all) = Len(tabs) + 1
      /\ all[1] = id /\ \A i \in 1..Len(tabs) : all[i + 1] = tabs[i]
      /\ \A i \in 1..Len(all) : i = 1 \/ (i - 1 \in 1..Len(tabs) /\ all[i] = tabs[i - 1])
      /\ Len(tabs) \in Nat
  OBVIOUS
<1> HIDE DEF all
<1>2. CASE Record(id, k) # None
  <2>1. PICK n \in 1..Len(all) : n = 1
    BY <1>1
  <2>2. Record(all[n], k) # None /\ \A j \in 1..(n - 1) : Record(all[j], k) = None
    BY <1>1, <1>2, <2>1
  <2>3. Newest(all, k) = Record(all[n], k)
    BY <1>1, <2>2, NewestAt
  <2>4. QED
    BY <1>1, <1>2, <2>1, <2>3 DEF all
<1>3. CASE Record(id, k) = None
  <2>1. CASE \A i \in 1..Len(tabs) : Record(tabs[i], k) = None
    <3>1. \A i \in 1..Len(all) : Record(all[i], k) = None
      BY <1>1, <1>3, <2>1
    <3>2. Newest(all, k) = None /\ Newest(tabs, k) = None
      BY <1>1, <2>1, <3>1, NewestNone
    <3>3. QED
      BY <1>3, <3>2 DEF all
  <2>2. CASE \E i \in 1..Len(tabs) : /\ Record(tabs[i], k) # None
                                     /\ \A j \in 1..(i - 1) : Record(tabs[j], k) = None
    <3>1. PICK i \in 1..Len(tabs) : /\ Record(tabs[i], k) # None
                                    /\ \A j \in 1..(i - 1) : Record(tabs[j], k) = None
      BY <2>2
    <3>2. Newest(tabs, k) = Record(tabs[i], k)
      BY <3>1, NewestAt
    <3>3. PICK n \in 1..Len(all) : n = i + 1
      BY <1>1
    <3>4. all[n] = tabs[i] /\ Record(all[n], k) # None
      BY <1>1, <3>1, <3>3
    <3>5. ASSUME NEW j \in 1..(n - 1) PROVE Record(all[j], k) = None
      <4>1. j = 1 \/ (j - 1 \in 1..(i - 1) /\ all[j] = tabs[j - 1])
        BY <1>1, <3>3
      <4>2. QED
        BY <1>1, <1>3, <3>1, <4>1
    <3>6. Newest(all, k) = Record(all[n], k)
      BY <1>1, <3>4, <3>5, NewestAt
    <3>7. QED
      BY <1>3, <3>2, <3>4, <3>6 DEF all
  <2>3. QED
    BY <2>1, <2>2, NewestCases
<1>4. QED
  BY <1>2, <1>3

\* The same of every table and every sequence, before a step as after it.
InFront ==
  \A tabs \in Seq(ID), id \in ID, k \in Key :
    Newest(<<id>> \o tabs, k)
      = IF Record(id, k) # None THEN Record(id, k) ELSE Newest(tabs, k)

LEMMA TableInFront == InFront
<1> SUFFICES ASSUME NEW tabs \in Seq(ID), NEW id \in ID, NEW k \in Key
             PROVE  Newest(<<id>> \o tabs, k)
                      = IF Record(id, k) # None THEN Record(id, k) ELSE Newest(tabs, k)
  BY DEF InFront
<1>1. QED
  BY NewestFront

LEMMA FrontNext == InFront'
  BY TableInFront, PTL

\* A single table.
LEMMA NewestOne ==
  ASSUME NEW id \in ID, NEW k \in Key
  PROVE  Newest(<<id>>, k) = Record(id, k)
<1>1. PICK tabs : tabs = <<id>>
  OBVIOUS
<1>2. tabs \in Seq(ID) /\ Len(tabs) = 1 /\ tabs[1] = id
  BY <1>1
<1>3. CASE Record(id, k) = None
  <2>1. Newest(tabs, k) = None
    BY <1>2, <1>3, NewestNone
  <2>2. QED
    BY <1>1, <1>3, <2>1
<1>4. CASE Record(id, k) # None
  <2>1. Newest(tabs, k) = Record(tabs[1], k)
    BY <1>2, <1>4, NewestAt
  <2>2. QED
    BY <1>1, <1>2, <2>1
<1>5. QED
  BY <1>3, <1>4

\* The newest record is one of a table.
LEMMA NewestType ==
  ASSUME NEW tabs \in Seq(ID), NEW k \in Key, files \in [ID -> Table \cup {Partial, NoFile}]
  PROVE  Newest(tabs, k) \in Rec \cup {None}
<1>1. ASSUME NEW id \in ID PROVE Record(id, k) \in Rec \cup {None}
  BY DEF Record, Table
<1>2. CASE \A i \in 1..Len(tabs) : Record(tabs[i], k) = None
  BY <1>2, NewestNone
<1>3. CASE \E i \in 1..Len(tabs) : /\ Record(tabs[i], k) # None
                                   /\ \A j \in 1..(i - 1) : Record(tabs[j], k) = None
  <2>1. PICK i \in 1..Len(tabs) : /\ Record(tabs[i], k) # None
                                  /\ \A j \in 1..(i - 1) : Record(tabs[j], k) = None
    BY <1>3
  <2>2. Newest(tabs, k) = Record(tabs[i], k) /\ tabs[i] \in ID
    BY <2>1, NewestAt
  <2>3. QED
    BY <1>1, <2>2
<1>4. QED
  BY <1>2, <1>3, NewestCases

\* Tables whose files stay have the same records.
LEMMA NewestStays ==
  ASSUME NEW tabs \in Seq(ID), NEW k \in Key,
         \A i \in 1..Len(tabs) : files'[tabs[i]] = files[tabs[i]]
  PROVE  Newest(tabs, k)' = Newest(tabs, k)
<1>1. \A i \in 1..Len(tabs) : Record(tabs[i], k)' = Record(tabs[i], k)
  BY DEF Record
<1>2. {i \in 1..Len(tabs) : Record(tabs[i], k)' # None}
        = {i \in 1..Len(tabs) : Record(tabs[i], k) # None}
  BY <1>1
<1>3. CASE \A i \in 1..Len(tabs) : Record(tabs[i], k) = None
  <2>1. {i \in 1..Len(tabs) : Record(tabs[i], k)' # None} = {}
    BY <1>1, <1>3
  <2>2. Newest(tabs, k)' = None
    BY <2>1 DEF Newest
  <2>3. QED
    BY <1>3, <2>2, NewestNone
<1>4. CASE ~\A i \in 1..Len(tabs) : Record(tabs[i], k) = None
  <2> DEFINE T == {i \in 1..Len(tabs) : Record(tabs[i], k) # None}
  <2>1. T # {} /\ T \subseteq Nat
    BY <1>4
  <2>2. Newest(tabs, k) = Record(tabs[Min(T)], k)
    BY <2>1 DEF Newest
  <2>3. PICK S : S = T
    OBVIOUS
  <2>4. {i \in 1..Len(tabs) : Record(tabs[i], k)' # None} = S
    BY <1>2, <2>3
  <2>5. Newest(tabs, k)' = Record(tabs[Min(S)], k)'
    BY <2>1, <2>3, <2>4 DEF Newest
  <2>6. Min(S) \in S
    <3> HIDE DEF T
    <3>1. QED
      BY <2>1, <2>3, MinIs
  <2>7. Min(S) \in 1..Len(tabs)
    BY <2>3, <2>6
  <2>8. QED
    BY <1>1, <2>2, <2>3, <2>5, <2>7
<1>5. QED
  BY <1>3, <1>4


-----------------------------------------------------------------------------
(* Replaying the WAL. *)

StoredEntry == [key : Key, rec : Rec]

\* With nothing torn, all of it can be read.
LEMMA ReadableWhole ==
  ASSUME NEW w, TornRec \notin ToSet(w), w \in Seq(StoredEntry \cup {TornRec})
  PROVE  Readable(w) = w
<1>1. {i \in 1..Len(w) : w[i] = TornRec} = {}
  BY DEF ToSet
<1>2. QED
  BY <1>1 DEF Readable

\* What can be read is a log.
LEMMA ReadableType ==
  ASSUME NEW w \in Seq(StoredEntry \cup {TornRec})
  PROVE  Readable(w) \in Seq(StoredEntry \cup {TornRec})
<1> DEFINE T == {i \in 1..Len(w) : w[i] = TornRec}
<1>1. T \subseteq Nat /\ Readable(w) = IF T = {} THEN w ELSE SubSeq(w, 1, Min(T) - 1)
  BY DEF Readable
<1>2. CASE T = {}
  BY <1>1, <1>2
<1>3. CASE T # {}
  <2>1. Min(T) \in T
    <3> HIDE DEF T
    <3>1. QED
      BY <1>1, <1>3, MinIs
  <2>2. PICK n \in 1..Len(w) : n = Min(T)
    BY <2>1
  <2>3. n - 1 \in 0..Len(w) /\ Len(w) \in Nat
    BY <2>2
  <2>4. SubSeq(w, 1, n - 1) \in Seq(StoredEntry \cup {TornRec})
    BY <2>3
  <2>5. QED
    BY <1>1, <1>3, <2>2, <2>4
<1>4. QED
  BY <1>2, <1>3

\* A record of a key is not a torn one.
LEMMA Whole ==
  ASSUME NEW e \in StoredEntry \cup {TornRec}, e.key \in Key
  PROVE  e \in StoredEntry /\ e.rec \in Rec
<1>1. e # TornRec
  BY StorageAssumption DEF TornRec
<1>2. QED
  BY <1>1 DEF StoredEntry

\* The replay of a readable log, key by key.
LEMMA ReplayNone ==
  ASSUME NEW w \in Seq(StoredEntry \cup {TornRec}), NEW k \in Key,
         NEW r, r = Readable(w), \A i \in 1..Len(r) : r[i].key # k
  PROVE  replayWAL(w)[k] = None
<1>1. {i \in 1..Len(r) : r[i].key = k} = {}
  OBVIOUS
<1>2. QED
  BY <1>1 DEF replayWAL

LEMMA ReplayLast ==
  ASSUME NEW w \in Seq(StoredEntry \cup {TornRec}), NEW k \in Key,
         NEW r, r = Readable(w), NEW i \in 1..Len(r), r[i].key = k,
         \A j \in (i + 1)..Len(r) : r[j].key # k
  PROVE  replayWAL(w)[k] = r[i].rec
<1> DEFINE T == {j \in 1..Len(r) : r[j].key = k}
<1>1. i \in T /\ T \subseteq 1..Len(r) /\ Len(r) \in Nat
  BY ReadableType
<1>2. replayWAL(w)[k] = IF T = {} THEN None ELSE r[Max(T)].rec
  BY DEF replayWAL
<1>3. \A j \in T : i >= j
  BY <1>1
<1> HIDE DEF T
<1>4. Max(T) = i
  BY <1>1, <1>3, MaxOf
<1>5. QED
  BY <1>1, <1>2, <1>4

LEMMA ReplayCases ==
  ASSUME NEW r \in Seq(StoredEntry \cup {TornRec}), NEW k \in Key
  PROVE  \/ \A i \in 1..Len(r) : r[i].key # k
         \/ \E i \in 1..Len(r) : /\ r[i].key = k
                                 /\ \A j \in (i + 1)..Len(r) : r[j].key # k
<1> DEFINE T == {i \in 1..Len(r) : r[i].key = k}
<1>1. T \subseteq 1..Len(r) /\ Len(r) \in Nat
  OBVIOUS
<1>2. CASE T = {}
  BY <1>2
<1>3. CASE T # {}
  <2>1. PICK i \in T : \A j \in T : i >= j
    <3> HIDE DEF T
    <3>1. QED
      BY <1>1, <1>3, Greatest
  <2>2. i \in 1..Len(r) /\ r[i].key = k
    OBVIOUS
  <2>3. ASSUME NEW j \in (i + 1)..Len(r) PROVE r[j].key # k
    <3>1. j \in 1..Len(r) /\ ~(i >= j)
      BY <2>2
    <3>2. j \notin T
      BY <2>1, <3>1
    <3>3. QED
      BY <3>1, <3>2
  <2>4. QED
    BY <2>2, <2>3
<1>4. QED
  BY <1>2, <1>3

LEMMA ReplayType ==
  ASSUME NEW w \in Seq(StoredEntry \cup {TornRec})
  PROVE  replayWAL(w) \in Table
<1>1. PICK r : r = Readable(w)
  OBVIOUS
<1>2. r \in Seq(StoredEntry \cup {TornRec})
  BY <1>1, ReadableType
<1>3. ASSUME NEW k \in Key PROVE replayWAL(w)[k] \in Rec \cup {None}
  <2>1. CASE \A i \in 1..Len(r) : r[i].key # k
    BY <1>1, <2>1, ReplayNone
  <2>2. CASE \E i \in 1..Len(r) : /\ r[i].key = k
                                  /\ \A j \in (i + 1)..Len(r) : r[j].key # k
    <3>1. PICK i \in 1..Len(r) : /\ r[i].key = k
                                 /\ \A j \in (i + 1)..Len(r) : r[j].key # k
      BY <2>2
    <3>2. replayWAL(w)[k] = r[i].rec
      BY <1>1, <3>1, ReplayLast
    <3>3. r[i] \in StoredEntry \cup {TornRec}
      BY <1>2
    <3>4. QED
      BY <3>1, <3>2, <3>3, Whole
  <2>3. QED
    BY <1>2, <2>1, <2>2, ReplayCases
<1>4. replayWAL(w) = [k \in Key |-> replayWAL(w)[k]]
  BY DEF replayWAL
<1>5. QED
  BY <1>3, <1>4 DEF Table

LEMMA ReplayEmpty == replayWAL(<<>>) = Empty
<1>1. PICK w : w = <<>>
  OBVIOUS
<1>2. w \in Seq(StoredEntry \cup {TornRec}) /\ Len(w) = 0
  BY <1>1
<1>3. TornRec \notin ToSet(w)
  BY <1>1 DEF ToSet
<1>4. Readable(w) = w
  BY <1>2, <1>3, ReadableWhole
<1>5. \A k \in Key : \A i \in 1..Len(w) : w[i].key # k
  BY <1>2
<1>6. \A k \in Key : replayWAL(w)[k] = None
  BY <1>2, <1>4, <1>5, ReplayNone
<1>7. replayWAL(w) = [k \in Key |-> replayWAL(w)[k]]
  BY DEF replayWAL
<1>8. QED
  BY <1>1, <1>6, <1>7 DEF Empty

\* A record appended to a whole log is the one that counts for its key.
LEMMA ReplayAppend ==
  ASSUME NEW w \in Seq(StoredEntry \cup {TornRec}), TornRec \notin ToSet(w), NEW e \in StoredEntry
  PROVE  /\ TornRec \notin ToSet(Append(w, e))
         /\ replayWAL(Append(w, e)) = [replayWAL(w) EXCEPT ![e.key] = e.rec]
<1>1. PICK v : v = Append(w, e)
  OBVIOUS
<1>2. /\ v \in Seq(StoredEntry \cup {TornRec}) /\ Len(w) \in Nat /\ Len(v) = Len(w) + 1
      /\ v[Len(w) + 1] = e /\ \A i \in 1..Len(w) : v[i] = w[i]
  BY <1>1
<1>3. e # TornRec /\ e.key \in Key /\ e.rec \in Rec
  BY StorageAssumption DEF StoredEntry, TornRec
<1>4. TornRec \notin ToSet(v)
  <2>1. \A i \in 1..Len(w) : w[i] # TornRec
    BY DEF ToSet
  <2>2. \A i \in 1..Len(v) : v[i] # TornRec
    BY <1>2, <1>3, <2>1
  <2>3. QED
    BY <1>2, <2>2 DEF ToSet
<1>5. Readable(w) = w /\ Readable(v) = v
  BY <1>2, <1>4, ReadableWhole
<1>6. ASSUME NEW k \in Key
      PROVE  replayWAL(v)[k] = IF k = e.key THEN e.rec ELSE replayWAL(w)[k]
  <2>1. CASE k = e.key
    <3>1. PICK n \in 1..Len(v) : n = Len(w) + 1
      BY <1>2
    <3>2. v[n] = e /\ v[n].key = k /\ \A j \in (n + 1)..Len(v) : v[j].key # k
      BY <1>2, <2>1, <3>1
    <3>3. QED
      BY <1>2, <1>5, <2>1, <3>2, ReplayLast
  <2>2. CASE k # e.key /\ \A i \in 1..Len(w) : w[i].key # k
    <3>1. \A i \in 1..Len(v) : v[i].key # k
      BY <1>2, <2>2
    <3>2. QED
      BY <1>2, <1>5, <2>2, <3>1, ReplayNone
  <2>3. CASE k # e.key /\ \E i \in 1..Len(w) : /\ w[i].key = k
                                               /\ \A j \in (i + 1)..Len(w) : w[j].key # k
    <3>1. PICK i \in 1..Len(w) : /\ w[i].key = k
                                 /\ \A j \in (i + 1)..Len(w) : w[j].key # k
      BY <2>3
    <3>2. replayWAL(w)[k] = w[i].rec
      BY <1>5, <3>1, ReplayLast
    <3>3. i \in 1..Len(v) /\ v[i] = w[i]
      BY <1>2
    <3>4. ASSUME NEW j \in (i + 1)..Len(v) PROVE v[j].key # k
      <4>1. j = Len(w) + 1 \/ (j \in (i + 1)..Len(w) /\ j \in 1..Len(w))
        BY <1>2
      <4>2. QED
        BY <1>2, <2>3, <3>1, <4>1
    <3>5. replayWAL(v)[k] = v[i].rec
      BY <1>2, <1>5, <3>1, <3>3, <3>4, ReplayLast
    <3>6. QED
      BY <2>3, <3>2, <3>3, <3>5
  <2>4. QED
    BY <2>1, <2>2, <2>3, ReplayCases
<1>7. /\ replayWAL(v) = [k \in Key |-> replayWAL(v)[k]]
      /\ replayWAL(w) = [k \in Key |-> replayWAL(w)[k]]
  BY DEF replayWAL
<1>8. PICK f, g : f = replayWAL(v) /\ g = replayWAL(w)
  OBVIOUS
<1>9. f = [g EXCEPT ![e.key] = e.rec]
  BY <1>6, <1>7, <1>8, <1>3
<1>10. QED
  BY <1>1, <1>4, <1>8, <1>9


-----------------------------------------------------------------------------
(* The invariant. *)

\* A write is in progress from its call on, and none while nobody holds the lock.
Calls ==
  /\ pc = "call" => op.status = "called"
  /\ pc \in {"ready", "down"} => op = NoCall

\* A number that is still to be given is that of no table in use.
Unused ==
  pc # "down" => \A id \in ToSet(tables) \cup ToSet(manifest) : id < nextID

\* What a compaction deletes is in use neither in memory nor, once the manifest is
\* written, on disk.
Doomed ==
  /\ doomed \cap ToSet(tables) = {}
  /\ pc \notin {"swap", "remove"} => doomed = {}
  /\ pc \in {"reset", "remove"} => manifest = tables

\* A key that is not in the memtable reads the same from the tables in memory and
\* from those of the manifest: a table not listed yet holds nothing else.
Same ==
  pc # "down" =>
    \A k \in Key : mem[k] = None => Shown(Newest(tables, k)) = Shown(Newest(manifest, k))

\* The memtable is what the WAL replays to, until a torn record hides some of it.
Logged == pc # "down" /\ ~TornTail => mem = replayWAL(wal)

\* A flush does not give up the WAL before the tables have its records.
Flushed ==
  pc \in {"manifest", "reset"} =>
    \A k \in Key : mem[k] # None => Newest(tables, k) = mem[k]

StoreInv == TypeOK /\ Calls /\ Unused /\ Doomed /\ Same /\ Logged /\ Flushed

-----------------------------------------------------------------------------
(* Types. *)

LEMMA InitType == Init => TypeOK
<1> SUFFICES ASSUME Init PROVE TypeOK
  OBVIOUS
<1>1. /\ wal = <<>> /\ manifest = <<>> /\ tables = <<>> /\ mem = Empty
      /\ pc = "ready" /\ job = "none" /\ doomed = {} /\ nextID = 1 /\ walState = "open"
      /\ op = NoCall /\ torn = 0 /\ faults = 0 /\ files = [i \in ID |-> NoFile]
  BY DEF Init
<1>2. Empty \in Table
  BY DEF Empty, Table
<1>3. nextID \in 1..(MaxID + 1)
  BY <1>1, StorageAssumption
<1>4. QED
  BY <1>1, <1>2, <1>3 DEF TypeOK

\* The number of the next table, where there is one left.
LEMMA NextTable ==
  ASSUME TypeOK, nextID <= MaxID
  PROVE  /\ nextID \in ID /\ nextID + 1 \in 1..(MaxID + 1)
         /\ <<nextID>> \in Seq(ID) /\ <<nextID>> \o tables \in Seq(ID)
<1>1. PICK n : n = nextID
  OBVIOUS
<1>2. n \in ID /\ n + 1 \in 1..(MaxID + 1)
  BY <1>1, StorageAssumption DEF TypeOK, ID
<1>3. PICK t : t = tables
  OBVIOUS
<1>4. t \in Seq(ID)
  BY <1>3 DEF TypeOK
<1>5. <<n>> \in Seq(ID) /\ <<n>> \o t \in Seq(ID)
  BY <1>2, <1>4
<1>6. QED
  BY <1>1, <1>2, <1>3, <1>5

\* A record that is written.
LEMMA Written ==
  ASSUME TypeOK, Calls, pc = "call",
         NEW r, r = IF op.val = Missing THEN Tomb ELSE op.val
  PROVE  /\ op.key \in Key /\ op.val \in Val \cup {Missing} /\ r \in Rec /\ r # None
         /\ [key |-> op.key, rec |-> r] \in StoredEntry
         /\ Shown(r) = op.val
<1>1. op # NoCall
  BY DEF Calls, NoCall
<1>2. op.key \in Key /\ op.val \in Val \cup {Missing}
  BY <1>1 DEF TypeOK
<1>3. r \in Rec /\ r # None
  BY <1>2, StorageAssumption DEF Rec
<1>4. Shown(r) = op.val
  BY <1>2, StorageAssumption DEF Shown
<1>5. QED
  BY <1>2, <1>3, <1>4 DEF StoredEntry

\* What a compaction writes is a table.
LEMMA MergedType ==
  ASSUME NEW tabs \in Seq(ID), files \in [ID -> Table \cup {Partial, NoFile}]
  PROVE  Merged(tabs) \in Table
<1>1. \A k \in Key : Newest(tabs, k) \in Rec \cup {None}
  BY NewestType
<1>2. QED
  BY <1>1 DEF Merged, Table

\* The numbers Open starts from are above those of the files it found.
LEMMA FirstFreeIs ==
  ASSUME NEW used, used \subseteq ID
  PROVE  /\ FirstFree(used) \in 1..(MaxID + 1)
         /\ \A id \in used : id < FirstFree(used)
<1>1. MaxID \in Nat
  BY StorageAssumption
<1>2. CASE used = {}
  BY <1>1, <1>2 DEF FirstFree
<1>3. CASE used # {}
  <2>1. Max(used) \in used /\ \A y \in used : Max(used) >= y
    BY <1>1, <1>3, MaxIs DEF ID
  <2>2. PICK n \in ID : n = Max(used)
    BY <2>1
  <2>3. FirstFree(used) = n + 1
    BY <1>3, <2>2 DEF FirstFree
  <2>4. \A y \in used : y \in Nat /\ n >= y
    BY <2>1, <2>2 DEF ID
  <2>5. n \in 1..MaxID
    BY <2>2 DEF ID
  <2>6. QED
    BY <1>1, <2>3, <2>4, <2>5
<1>4. QED
  BY <1>2, <1>3

LEMMA LostType ==
  ASSUME TypeOK, Lost
  PROVE  /\ pc' = "down" /\ job' = "none" /\ op' = NoCall /\ mem' \in Table
         /\ tables' = <<>> /\ tables' \in Seq(ID) /\ doomed' = {} /\ nextID' = 1
         /\ nextID' \in 1..(MaxID + 1) /\ walState' = "open"
<1>1. Empty \in Table
  BY DEF Empty, Table
<1>2. 1 \in 1..(MaxID + 1)
  BY StorageAssumption
<1>3. QED
  BY <1>1, <1>2 DEF Lost, Return

LEMMA FinishIs ==
  ASSUME Finish
  PROVE  pc' \in {"down", "ready"} /\ job' = "none" /\ op' = NoCall
  BY DEF Finish, Return


LEMMA TypeStep ==
  ASSUME TypeOK, Calls, [Next]_vars
  PROVE  TypeOK'
<1> USE DEF disk
<1>1. ASSUME NEW k \in Key, NEW v \in Val \cup {Missing}, Call(k, v)
      PROVE  TypeOK'
  BY <1>1 DEF Call, TypeOK
<1>2. CASE walAppend
  <2>1. PICK r : r = IF op.val = Missing THEN Tomb ELSE op.val
    OBVIOUS
  <2>2. pc = "call" /\ op.status = "called"
    BY <1>2 DEF walAppend, Calls
  <2>3. op \in [status : {"called", "logged"}, key : Key, val : Val \cup {Missing}]
    BY <2>2 DEF TypeOK, NoCall
  <2>4. op' \in [status : {"called", "logged"}, key : Key, val : Val \cup {Missing}]
    BY <1>2, <2>3 DEF walAppend
  <2>5. op.key \in Key /\ r \in Rec
    BY <2>1, <2>2, Written
  <2>6. PICK w : w = wal
    OBVIOUS
  <2>7. PICK e : e = [key |-> op.key, rec |-> r]
    OBVIOUS
  <2>8. e \in [key : Key, rec : Rec]
    BY <2>5, <2>7
  <2>9. w \in Seq([key : Key, rec : Rec] \cup {TornRec})
    BY <2>6 DEF TypeOK
  <2>10. Append(w, e) \in Seq([key : Key, rec : Rec] \cup {TornRec})
    BY <2>8, <2>9
  <2>11. wal' = Append(w, e) /\ mem' = [mem EXCEPT ![op.key] = r]
    BY <1>2, <2>1, <2>6, <2>7 DEF walAppend
  <2>12. mem' \in Table
    BY <2>5, <2>11 DEF TypeOK, Table
  <2>13. pc' = "logged"
    BY <1>2 DEF walAppend
  <2>14. QED
    BY <1>2, <2>4, <2>10, <2>11, <2>12, <2>13 DEF walAppend, TypeOK
<1>3. CASE walAppendFails
  <2>1. PICK w : w = wal
    OBVIOUS
  <2>2. w \in Seq([key : Key, rec : Rec] \cup {TornRec})
    BY <2>1 DEF TypeOK
  <2>3. PICK e : e = TornRec
    OBVIOUS
  <2>4. Append(w, e) \in Seq([key : Key, rec : Rec] \cup {e})
    BY <2>2, <2>3
  <2>5. wal' = wal \/ wal' = Append(w, e)
    BY <1>3, <2>1, <2>3 DEF walAppendFails
  <2>6. wal' \in Seq([key : Key, rec : Rec] \cup {TornRec})
    BY <2>1, <2>2, <2>3, <2>4, <2>5
  <2>7. walState' \in {"open", "stuck", "closed"} /\ torn' \in Nat /\ faults' \in Nat
    BY <1>3 DEF walAppendFails, TypeOK
  <2>8. pc' = "ready" /\ job' = "none" /\ op' = NoCall
    BY <1>3 DEF walAppendFails, Return
  <2>9. QED
    BY <1>3, <2>6, <2>7, <2>8 DEF walAppendFails, TypeOK
<1>4. CASE WriteReturns
  BY <1>4 DEF WriteReturns, Return, TypeOK
<1>5. CASE WriteFlushes
  BY <1>5 DEF WriteFlushes, TypeOK
<1>6. CASE Flush
  BY <1>6 DEF Flush, TypeOK
<1>7. CASE Compact
  BY <1>7 DEF Compact, TypeOK
<1>8. CASE Close
  BY <1>8 DEF Close, TypeOK
<1>9. CASE flushWriteTable
  <2>1. /\ nextID \in ID /\ nextID + 1 \in 1..(MaxID + 1)
        /\ <<nextID>> \o tables \in Seq(ID)
    BY <1>9, NextTable DEF flushWriteTable
  <2>2. files' \in [ID -> Table \cup {Partial, NoFile}]
    BY <1>9, <2>1 DEF flushWriteTable, TypeOK
  <2>3. tables' \in Seq(ID) /\ nextID' \in 1..(MaxID + 1) /\ pc' = "manifest"
    BY <1>9, <2>1 DEF flushWriteTable
  <2>4. QED
    BY <1>9, <2>2, <2>3 DEF flushWriteTable, TypeOK
<1>10. CASE writeManifestLocked
  BY <1>10 DEF writeManifestLocked, TypeOK
<1>11. CASE flushReset
  <2>1. mem' \in Table
    BY <1>11 DEF flushReset, Empty, Table
  <2>2. /\ pc' \in {"merge", "down", "ready"} /\ (job' = job \/ job' = "none")
        /\ (op' = op \/ op' = NoCall)
    BY <1>11, FinishIs DEF flushReset
  <2>3. wal' = <<>> /\ walState' = "open"
    BY <1>11 DEF flushReset
  <2>4. QED
    BY <1>11, <2>1, <2>2, <2>3 DEF flushReset, TypeOK
<1>12. CASE flushResetFails
  BY <1>12, FinishIs DEF flushResetFails, TypeOK
<1>13. CASE compactWriteTable
  <2>1. /\ nextID \in ID /\ nextID + 1 \in 1..(MaxID + 1)
        /\ <<nextID>> \in Seq(ID)
    BY <1>13, NextTable DEF compactWriteTable
  <2>2. Merged(tables) \in Table
    BY MergedType DEF TypeOK
  <2>3. files' \in [ID -> Table \cup {Partial, NoFile}]
    BY <1>13, <2>1, <2>2 DEF compactWriteTable, TypeOK
  <2>4. doomed' \subseteq ID
    BY <1>13 DEF compactWriteTable, TypeOK, ToSet
  <2>5. tables' \in Seq(ID) /\ nextID' \in 1..(MaxID + 1) /\ pc' = "swap"
    BY <1>13, <2>1 DEF compactWriteTable
  <2>6. QED
    BY <1>13, <2>3, <2>4, <2>5 DEF compactWriteTable, TypeOK
<1>14. CASE compactManifest
  BY <1>14 DEF compactManifest, TypeOK
<1>15. CASE compactRemove
  <2>1. files' \in [ID -> Table \cup {Partial, NoFile}] /\ doomed' \subseteq ID
    BY <1>15 DEF compactRemove, TypeOK
  <2>2. /\ pc' \in {"remove", "down", "ready"} /\ (job' = job \/ job' = "none")
        /\ (op' = op \/ op' = NoCall)
    BY <1>15, FinishIs DEF compactRemove
  <2>3. QED
    BY <1>15, <2>1, <2>2 DEF compactRemove, TypeOK
<1>16. CASE IOError
  <2>1. files' \in [ID -> Table \cup {Partial, NoFile}]
    <3>1. CASE files' = files
      BY <3>1 DEF TypeOK
    <3>2. CASE files' = [files EXCEPT ![nextID] = Partial]
      BY <3>2 DEF TypeOK
    <3>3. QED
      BY <1>16, <3>1, <3>2 DEF IOError
  <2>2. walState' \in {"open", "stuck", "closed"}
    BY <1>16 DEF IOError, TypeOK
  <2>3. doomed' = {} /\ faults' \in Nat
    BY <1>16 DEF IOError, TypeOK
  <2>4. pc' \in {"down", "ready"} /\ job' = "none" /\ op' = NoCall
    BY <1>16, FinishIs DEF IOError
  <2>5. QED
    BY <1>16, <2>1, <2>2, <2>3, <2>4 DEF IOError, TypeOK
<1>17. CASE Crash
  <2>1. files' \in [ID -> Table \cup {Partial, NoFile}]
    <3>1. CASE files' = files
      BY <3>1 DEF TypeOK
    <3>2. CASE files' = [files EXCEPT ![nextID] = Partial]
      BY <3>2 DEF TypeOK
    <3>3. QED
      BY <1>17, <3>1, <3>2 DEF Crash
  <2>2. Lost
    BY <1>17 DEF Crash
  <2>3. QED
    BY <1>17, <2>1, <2>2, LostType DEF Crash, TypeOK
<1>18. CASE TornAppend
  <2>1. PICK w, e : w = wal /\ e = TornRec
    OBVIOUS
  <2>2. w \in Seq([key : Key, rec : Rec] \cup {TornRec})
    BY <2>1 DEF TypeOK
  <2>3. Append(w, e) \in Seq([key : Key, rec : Rec] \cup {e})
    BY <2>1, <2>2
  <2>4. wal' = Append(w, e)
    BY <1>18, <2>1 DEF TornAppend
  <2>5. wal' \in Seq([key : Key, rec : Rec] \cup {TornRec})
    BY <2>1, <2>3, <2>4
  <2>6. Lost /\ torn' \in Nat
    BY <1>18 DEF TornAppend, TypeOK
  <2>7. QED
    BY <1>18, <2>5, <2>6, LostType DEF TornAppend, TypeOK
<1>19. CASE Open
  <2>1. files' \in [ID -> Table \cup {Partial, NoFile}]
    BY <1>19 DEF Open, TypeOK
  <2>2. Live \cup Orphans \subseteq ID
    BY DEF Live, Orphans, ToSet, TypeOK
  <2>3. nextID' \in 1..(MaxID + 1)
    BY <1>19, <2>2, FirstFreeIs DEF Open
  <2>4. mem' \in Table
    BY <1>19, ReplayType DEF Open, TypeOK, StoredEntry
  <2>5. tables' \in Seq(ID) /\ doomed' = {} /\ walState' = "open" /\ pc' = "ready"
    BY <1>19 DEF Open, TypeOK
  <2>6. QED
    BY <1>19, <2>1, <2>3, <2>4, <2>5 DEF Open, TypeOK
<1>20. CASE CrashInOpen
  <2>1. PICK id \in Orphans : files' = [files EXCEPT ![id] = NoFile]
    BY <1>20 DEF CrashInOpen
  <2>2. files' \in [ID -> Table \cup {Partial, NoFile}]
    BY <2>1 DEF TypeOK
  <2>3. QED
    BY <1>20, <2>2 DEF CrashInOpen, TypeOK
<1>21. CASE UNCHANGED vars
  BY <1>21 DEF vars, TypeOK
<1>22. QED
  BY <1>1, <1>2, <1>3, <1>4, <1>5, <1>6, <1>7, <1>8, <1>9, <1>10, <1>11, <1>12,
     <1>13, <1>14, <1>15, <1>16, <1>17, <1>18, <1>19, <1>20, <1>21 DEF Next


LEMMA CallsStep ==
  ASSUME TypeOK, Calls, [Next]_vars
  PROVE  Calls'
<1>1. ASSUME NEW k \in Key, NEW v \in Val \cup {Missing}, Call(k, v)
      PROVE  Calls'
  <2>1. op' = [status |-> "called", key |-> k, val |-> v] /\ pc' = "call"
    BY <1>1 DEF Call
  <2>2. op'.status = "called"
    BY <2>1
  <2>3. QED
    BY <2>1, <2>2 DEF Calls
<1>2. CASE walAppend \/ WriteFlushes \/ Flush \/ Compact
  BY <1>2 DEF walAppend, WriteFlushes, Flush, Compact, Calls
<1>3. CASE walAppendFails \/ WriteReturns \/ Crash \/ TornAppend
  BY <1>3 DEF walAppendFails, WriteReturns, Crash, TornAppend, Lost, Return, Calls
<1>4. CASE Close \/ Open \/ CrashInOpen
  BY <1>4 DEF Close, Open, CrashInOpen, Calls
<1>5. CASE flushWriteTable \/ writeManifestLocked \/ compactWriteTable \/ compactManifest
  BY <1>5 DEF flushWriteTable, writeManifestLocked, compactWriteTable, compactManifest, Calls
<1>6. CASE flushReset \/ flushResetFails \/ IOError
  BY <1>6, FinishIs DEF flushReset, flushResetFails, IOError, Calls
<1>7. CASE compactRemove
  BY <1>7, FinishIs DEF compactRemove, Calls
<1>8. CASE UNCHANGED vars
  BY <1>8 DEF vars, Calls
<1>9. QED
  BY <1>1, <1>2, <1>3, <1>4, <1>5, <1>6, <1>7, <1>8 DEF Next

\* The engine's variables keep their types: the log holds records of keys, also after
\* a replay that stops at a torn one, and a table number stays within its range
\* whatever files a crash leaves behind (wal.go, db.go).
THEOREM StoreTypeCorrect == Spec => []TypeOK
<1>1. Init => TypeOK /\ Calls
  <2>1. Init => Calls
    BY DEF Init, Calls
  <2>2. QED
    BY <2>1, InitType
<1>2. TypeOK /\ Calls /\ [Next]_vars => (TypeOK /\ Calls)'
  BY TypeStep, CallsStep
<1>3. QED
  BY <1>1, <1>2, PTL DEF Spec

-----------------------------------------------------------------------------
(* Tables in use. *)

\* What is in a sequence of tables is a table.
LEMMA InRange ==
  ASSUME NEW t \in Seq(ID), NEW m \in Seq(ID), NEW id \in ToSet(t) \cup ToSet(m)
  PROVE  id \in ID
<1>1. ToSet(t) \subseteq ID
  BY DEF ToSet
<1>2. ToSet(m) \subseteq ID
  BY DEF ToSet
<1>3. QED
  BY <1>1, <1>2

LEMMA FreshStep ==
  ASSUME TypeOK, TypeOK', Unused, [Next]_vars
  PROVE  Unused'
<1> USE DEF disk
<1>1. CASE pc' = "down"
  BY <1>1 DEF Unused
<1>2. ASSUME pc # "down", pc' # "down",
             \A id \in ToSet(tables)' \cup ToSet(manifest)' :
                id \in ToSet(tables) \cup ToSet(manifest) \/ id < nextID',
             nextID' = nextID \/ nextID' = nextID + 1
      PROVE  Unused'
  <2>1. nextID \in Nat /\ nextID <= nextID' /\ nextID' \in Nat
    BY <1>2 DEF TypeOK
  <2>2. ASSUME NEW id \in ToSet(tables)' \cup ToSet(manifest)' PROVE id < nextID'
    <3>1. id \in Nat
      <4>1. PICK t, m : t = tables' /\ m = manifest'
        OBVIOUS
      <4>2. t \in Seq(ID) /\ m \in Seq(ID) /\ id \in ToSet(t) \cup ToSet(m)
        BY <4>1 DEF TypeOK
      <4>3. id \in ID
        BY <4>2, InRange
      <4>4. QED
        BY <4>3 DEF ID
    <3>2. id < nextID \/ id < nextID'
      BY <1>2 DEF Unused
    <3>3. QED
      BY <2>1, <3>1, <3>2
  <2>3. QED
    BY <2>2 DEF Unused
<1>3. CASE flushWriteTable
  <2>1. PICK t, n : t = tables /\ n = nextID
    OBVIOUS
  <2>2. t \in Seq(ID) /\ n \in Nat
    BY <2>1 DEF TypeOK
  <2>3. PICK s : s = <<n>> \o t
    OBVIOUS
  <2>4. \A i \in 1..Len(s) : s[i] = n \/ \E j \in 1..Len(t) : s[i] = t[j]
    <3>1. Len(s) = Len(t) + 1 /\ Len(t) \in Nat /\ s[1] = n
      BY <2>2, <2>3
    <3>2. \A i \in 1..Len(s) : i = 1 \/ (i - 1 \in 1..Len(t) /\ s[i] = t[i - 1])
      BY <2>2, <2>3
    <3>3. QED
      BY <3>1, <3>2
  <2>5. ToSet(s) \subseteq ToSet(t) \cup {n}
    <3>1. DOMAIN s = 1..Len(s) /\ DOMAIN t = 1..Len(t)
      BY <2>2, <2>3
    <3>2. QED
      BY <2>4, <3>1 DEF ToSet
  <2>6. tables' = s /\ manifest' = manifest /\ nextID' = nextID + 1 /\ n < nextID'
    BY <1>3, <2>1, <2>2, <2>3 DEF flushWriteTable
  <2>7. ToSet(tables)' \subseteq ToSet(tables) \cup {n} /\ ToSet(manifest)' = ToSet(manifest)
    BY <2>1, <2>5, <2>6
  <2>8. pc # "down" /\ pc' # "down"
    BY <1>3 DEF flushWriteTable
  <2>9. QED
    BY <1>2, <2>6, <2>7, <2>8
<1>4. CASE compactWriteTable
  <2>1. PICK n : n = nextID
    OBVIOUS
  <2>2. n \in Nat /\ ToSet(<<n>>) = {n}
    BY <2>1 DEF TypeOK, ToSet
  <2>3. tables' = <<n>> /\ manifest' = manifest /\ nextID' = nextID + 1 /\ n < nextID'
    BY <1>4, <2>1, <2>2 DEF compactWriteTable
  <2>4. ToSet(tables)' = {n} /\ ToSet(manifest)' = ToSet(manifest)
    BY <2>2, <2>3
  <2>5. pc # "down" /\ pc' # "down"
    BY <1>4 DEF compactWriteTable
  <2>6. QED
    BY <1>2, <2>3, <2>4, <2>5
<1>5. CASE Open
  <2>1. Live \cup Orphans \subseteq ID
    BY DEF Live, Orphans, ToSet, TypeOK
  <2>2. \A id \in Live \cup Orphans : id < nextID'
    BY <1>5, <2>1, FirstFreeIs DEF Open
  <2>3. tables' = manifest /\ manifest' = manifest
    BY <1>5 DEF Open
  <2>4. ToSet(tables)' = Live /\ ToSet(manifest)' = Live
    BY <2>3 DEF Live
  <2>5. QED
    BY <2>2, <2>4 DEF Unused
<1>6. CASE writeManifestLocked \/ compactManifest
  BY <1>2, <1>6 DEF writeManifestLocked, compactManifest
<1>7. ASSUME UNCHANGED <<tables, manifest, nextID>>, pc = "down" => pc' = "down"
      PROVE  Unused'
  BY <1>1, <1>2, <1>7
<1>8. ASSUME NEW k \in Key, NEW v \in Val \cup {Missing}, Call(k, v)
      PROVE  Unused'
  BY <1>7, <1>8 DEF Call
<1>9. CASE walAppend \/ walAppendFails \/ WriteReturns \/ WriteFlushes
  BY <1>7, <1>9 DEF walAppend, walAppendFails, WriteReturns, WriteFlushes
<1>10. CASE Flush \/ Compact \/ Close
  BY <1>7, <1>10 DEF Flush, Compact, Close
<1>11. CASE flushReset \/ flushResetFails \/ compactRemove \/ IOError
  BY <1>7, <1>11 DEF flushReset, flushResetFails, compactRemove, IOError
<1>12. CASE Crash \/ TornAppend
  BY <1>1, <1>12 DEF Crash, TornAppend, Lost, Return
<1>13. CASE CrashInOpen
  BY <1>1, <1>13 DEF CrashInOpen
<1>14. CASE UNCHANGED vars
  BY <1>7, <1>14 DEF vars
<1>15. QED
  BY <1>3, <1>4, <1>5, <1>6, <1>8, <1>9, <1>10, <1>11, <1>12, <1>13, <1>14 DEF Next

LEMMA DoomedStep ==
  ASSUME TypeOK, Unused, Doomed, [Next]_vars
  PROVE  Doomed'
<1> USE DEF disk
<1>1. ASSUME doomed' = {}, pc' \notin {"reset", "remove"}
      PROVE  Doomed'
  BY <1>1 DEF Doomed
<1>2. ASSUME NEW k \in Key, NEW v \in Val \cup {Missing}, Call(k, v)
      PROVE  Doomed'
  BY <1>1, <1>2 DEF Call, Doomed
<1>3. CASE walAppend \/ walAppendFails \/ WriteReturns \/ WriteFlushes
  BY <1>1, <1>3 DEF walAppend, walAppendFails, WriteReturns, WriteFlushes, Return, Doomed
<1>4. CASE Flush \/ Compact \/ Close
  BY <1>1, <1>4 DEF Flush, Compact, Close, Doomed
<1>5. CASE flushWriteTable
  BY <1>1, <1>5 DEF flushWriteTable, Doomed
<1>6. CASE writeManifestLocked
  BY <1>6 DEF writeManifestLocked, Doomed
<1>7. CASE flushReset \/ flushResetFails
  BY <1>1, <1>7, FinishIs DEF flushReset, flushResetFails, Doomed
<1>8. CASE compactWriteTable
  <2>1. PICK n : n = nextID
    OBVIOUS
  <2>2. n \in Nat /\ ToSet(<<n>>) = {n}
    BY <2>1 DEF TypeOK, ToSet
  <2>3. \A id \in ToSet(tables) : id < n
    BY <1>8, <2>1 DEF compactWriteTable, Unused
  <2>4. n \notin ToSet(tables)
    BY <2>2, <2>3
  <2>5. tables' = <<n>> /\ doomed' = ToSet(tables) /\ pc' = "swap"
    BY <1>8, <2>1 DEF compactWriteTable
  <2>6. ToSet(tables)' = {n}
    BY <2>2, <2>5
  <2>7. QED
    BY <2>4, <2>5, <2>6 DEF Doomed
<1>9. CASE compactManifest
  BY <1>9 DEF compactManifest, Doomed
<1>10. CASE compactRemove
  <2>1. tables' = tables /\ manifest' = manifest
    BY <1>10 DEF compactRemove
  <2>2. CASE doomed = {}
    BY <1>1, <1>10, <2>2, FinishIs DEF compactRemove
  <2>3. CASE doomed # {}
    BY <1>10, <2>1, <2>3 DEF compactRemove, Doomed
  <2>4. QED
    BY <2>2, <2>3
<1>11. CASE IOError
  BY <1>1, <1>11, FinishIs DEF IOError
<1>12. CASE Crash \/ TornAppend
  BY <1>1, <1>12 DEF Crash, TornAppend, Lost, Return
<1>13. CASE Open \/ CrashInOpen
  BY <1>1, <1>13 DEF Open, CrashInOpen, Doomed
<1>14. CASE UNCHANGED vars
  BY <1>14 DEF vars, Doomed
<1>15. QED
  BY <1>2, <1>3, <1>4, <1>5, <1>6, <1>7, <1>8, <1>9, <1>10, <1>11, <1>12, <1>13, <1>14
     DEF Next


\* No step touches a file that is in use.
LEMMA FilesStep ==
  ASSUME TypeOK, Unused, Doomed, [Next]_vars
  PROVE  /\ \A id \in ToSet(manifest) : files'[id] = files[id]
         /\ pc # "down" => \A id \in ToSet(tables) : files'[id] = files[id]
<1> USE DEF disk
<1> DEFINE G == /\ \A id \in ToSet(manifest) : files'[id] = files[id]
                /\ pc # "down" => \A id \in ToSet(tables) : files'[id] = files[id]
<1>1. ToSet(manifest) \subseteq ID /\ ToSet(tables) \subseteq ID
  BY InRange DEF TypeOK
<1>2. ASSUME UNCHANGED files PROVE G
  BY <1>2
<1>3. ASSUME pc # "down", NEW x, files' = [files EXCEPT ![nextID] = x] PROVE G
  <2>1. nextID \in Nat
    BY DEF TypeOK
  <2>2. \A id \in ToSet(tables) \cup ToSet(manifest) : id < nextID
    BY <1>3 DEF Unused
  <2>3. nextID \notin ToSet(tables) \cup ToSet(manifest)
    BY <2>1, <2>2
  <2>4. QED
    BY <1>1, <1>3, <2>3 DEF TypeOK
<1>4. ASSUME NEW k \in Key, NEW v \in Val \cup {Missing}, Call(k, v)
      PROVE  G
  BY <1>2, <1>4 DEF Call
<1>5. CASE walAppend \/ walAppendFails \/ WriteReturns \/ WriteFlushes
  BY <1>2, <1>5 DEF walAppend, walAppendFails, WriteReturns, WriteFlushes
<1>6. CASE Flush \/ Compact \/ Close
  BY <1>2, <1>6 DEF Flush, Compact, Close
<1>7. CASE flushWriteTable
  <2>1. PICK x : x = mem
    OBVIOUS
  <2>2. pc # "down" /\ files' = [files EXCEPT ![nextID] = x]
    BY <1>7, <2>1 DEF flushWriteTable
  <2>3. QED
    BY <1>3, <2>2
<1>8. CASE compactWriteTable
  <2>1. PICK x : x = Merged(tables)
    OBVIOUS
  <2>2. pc # "down" /\ files' = [files EXCEPT ![nextID] = x]
    BY <1>8, <2>1 DEF compactWriteTable
  <2>3. QED
    BY <1>3, <2>2
<1>9. CASE writeManifestLocked \/ flushReset \/ flushResetFails \/ compactManifest
  BY <1>2, <1>9 DEF writeManifestLocked, flushReset, flushResetFails, compactManifest
<1>10. CASE compactRemove
  <2>1. CASE doomed = {}
    BY <1>2, <1>10, <2>1 DEF compactRemove
  <2>2. CASE doomed # {}
    <3>1. PICK id \in doomed : files' = [files EXCEPT ![id] = NoFile]
      BY <1>10, <2>2 DEF compactRemove
    <3>2. manifest = tables /\ id \notin ToSet(tables)
      BY <1>10 DEF compactRemove, Doomed
    <3>3. QED
      BY <1>1, <3>1, <3>2 DEF TypeOK
  <2>3. QED
    BY <2>1, <2>2
<1>11. CASE IOError
  <2>1. pc # "down"
    BY <1>11 DEF IOError
  <2>2. UNCHANGED files \/ files' = [files EXCEPT ![nextID] = Partial]
    BY <1>11 DEF IOError
  <2>3. QED
    BY <1>2, <1>3, <2>1, <2>2
<1>12. CASE Crash
  <2>1. pc # "down"
    BY <1>12 DEF Crash
  <2>2. UNCHANGED files \/ files' = [files EXCEPT ![nextID] = Partial]
    BY <1>12 DEF Crash
  <2>3. QED
    BY <1>2, <1>3, <2>1, <2>2
<1>13. CASE TornAppend
  BY <1>2, <1>13 DEF TornAppend
<1>14. CASE Open
  <2>1. \A id \in Live : id \notin Orphans
    BY DEF Orphans
  <2>2. pc = "down" /\ files' = [id \in ID |-> IF id \in Orphans THEN NoFile ELSE files[id]]
    BY <1>14 DEF Open
  <2>3. QED
    BY <1>1, <2>1, <2>2 DEF Live
<1>15. CASE CrashInOpen
  <2>1. PICK id \in Orphans : files' = [files EXCEPT ![id] = NoFile]
    BY <1>15 DEF CrashInOpen
  <2>2. pc = "down" /\ id \notin Live
    BY <1>15 DEF CrashInOpen, Orphans
  <2>3. QED
    BY <1>1, <2>1, <2>2 DEF Live, TypeOK
<1>16. CASE UNCHANGED vars
  BY <1>2, <1>16 DEF vars
<1>17. QED
  BY <1>4, <1>5, <1>6, <1>7, <1>8, <1>9, <1>10, <1>11, <1>12, <1>13, <1>14, <1>15, <1>16
     DEF Next

\* What is read from tables in use stays.
LEMMA NewestKept ==
  ASSUME NEW t \in Seq(ID), NEW k \in Key, \A id \in ToSet(t) : files'[id] = files[id]
  PROVE  Newest(t, k)' = Newest(t, k)
<1>1. \A i \in 1..Len(t) : t[i] \in ToSet(t)
  BY DEF ToSet
<1>2. \A i \in 1..Len(t) : files'[t[i]] = files[t[i]]
  BY <1>1
<1>3. QED
  BY <1>2, NewestStays

LEMMA ManifestKept ==
  ASSUME TypeOK, Unused, Doomed, [Next]_vars, NEW k \in Key, manifest' = manifest
  PROVE  Newest(manifest, k)' = Newest(manifest, k)
<1>1. PICK m : m = manifest
  OBVIOUS
<1>2. m \in Seq(ID) /\ \A id \in ToSet(m) : files'[id] = files[id]
  BY <1>1, FilesStep DEF TypeOK
<1>3. Newest(m, k)' = Newest(m, k)
  BY <1>2, NewestKept
<1>4. m = manifest'
  BY <1>1
<1>5. Newest(manifest, k)' = Newest(m, k)'
  BY <1>4
<1>6. QED
  BY <1>1, <1>3, <1>5

LEMMA TablesKept ==
  ASSUME TypeOK, Unused, Doomed, [Next]_vars, NEW k \in Key, tables' = tables, pc # "down"
  PROVE  Newest(tables, k)' = Newest(tables, k)
<1>1. PICK t : t = tables
  OBVIOUS
<1>2. t \in Seq(ID) /\ \A id \in ToSet(t) : files'[id] = files[id]
  BY <1>1, FilesStep DEF TypeOK
<1>3. Newest(t, k)' = Newest(t, k)
  BY <1>2, NewestKept
<1>4. t = tables'
  BY <1>1
<1>5. Newest(tables, k)' = Newest(t, k)'
  BY <1>4
<1>6. QED
  BY <1>1, <1>3, <1>5

\* The table a flush has written is the newest of each key in the memtable, and has
\* nothing of another key.
LEMMA FlushReads ==
  ASSUME TypeOK, Unused, Doomed, flushWriteTable, [Next]_vars, NEW k \in Key
  PROVE  Newest(tables, k)' = IF mem[k] # None THEN mem[k] ELSE Newest(tables, k)
<1>1. PICK t, n, d : t = tables /\ n = nextID /\ d = mem
  OBVIOUS
<1>2. n \in ID /\ t \in Seq(ID) /\ d \in Table /\ pc # "down"
  BY <1>1, NextTable DEF flushWriteTable, TypeOK
<1>3. files' = [files EXCEPT ![n] = d] /\ tables' = <<n>> \o t
  BY <1>1 DEF flushWriteTable
<1>4. files'[n] = d
  BY <1>2, <1>3 DEF TypeOK
<1>5. d \notin {Partial, NoFile}
  BY <1>2, StorageAssumption DEF Table, Rec
<1>6. Record(n, k)' = d[k]
  BY <1>4, <1>5 DEF Record
<1>7. Newest(<<n>> \o t, k)' = IF Record(n, k)' # None THEN Record(n, k)' ELSE Newest(t, k)'
  BY <1>2, FrontNext DEF InFront
<1>8. \A id \in ToSet(t) : files'[id] = files[id]
  BY <1>1, <1>2, FilesStep
<1>9. Newest(t, k)' = Newest(t, k)
  BY <1>2, <1>8, NewestKept
<1>10. Newest(tables, k)' = Newest(<<n>> \o t, k)'
  BY <1>3
<1>11. QED
  BY <1>1, <1>6, <1>7, <1>9, <1>10


\* The same of a table that stands alone.
Alone == \A id \in ID, k \in Key : Newest(<<id>>, k) = Record(id, k)

LEMMA TableAlone == Alone
<1> SUFFICES ASSUME NEW id \in ID, NEW k \in Key
             PROVE  Newest(<<id>>, k) = Record(id, k)
  BY DEF Alone
<1>1. QED
  BY NewestOne

LEMMA AloneNext == Alone'
  BY TableAlone, PTL

\* The table a compaction has written shows what the tables it replaces showed.
LEMMA CompactReads ==
  ASSUME TypeOK, compactWriteTable, NEW k \in Key
  PROVE  Shown(Newest(tables, k)') = Shown(Newest(tables, k))
<1>1. PICK n, d, r : n = nextID /\ d = Merged(tables) /\ r = Newest(tables, k)
  OBVIOUS
<1>2. n \in ID /\ d \in Table
  BY <1>1, NextTable, MergedType DEF compactWriteTable, TypeOK
<1>3. files' = [files EXCEPT ![n] = d] /\ tables' = <<n>>
  BY <1>1 DEF compactWriteTable
<1>4. files'[n] = d
  BY <1>2, <1>3 DEF TypeOK
<1>5. d \notin {Partial, NoFile}
  BY <1>2, StorageAssumption DEF Table, Rec
<1>6. Record(n, k)' = d[k]
  BY <1>4, <1>5 DEF Record
<1>7. Newest(<<n>>, k)' = Record(n, k)'
  BY <1>2, AloneNext DEF Alone
<1>8. d[k] = IF r = Tomb THEN None ELSE r
  BY <1>1 DEF Merged
<1>9. Newest(tables, k)' = d[k]
  BY <1>3, <1>6, <1>7
<1>10. Shown(d[k]) = Shown(r)
  BY <1>8 DEF Shown
<1>11. QED
  BY <1>1, <1>9, <1>10

-----------------------------------------------------------------------------
(* Memory and disk tell the same. *)

LEMMA SameStep ==
  ASSUME StoreInv, [Next]_vars
  PROVE  Same'
<1> USE DEF disk
<1>1. TypeOK /\ Unused /\ Doomed /\ Same
  BY DEF StoreInv
<1> SUFFICES ASSUME pc' # "down", NEW k \in Key, (mem[k] = None)'
             PROVE  (Shown(Newest(tables, k)) = Shown(Newest(manifest, k)))'
  BY DEF Same
<1>2. ASSUME tables' = manifest' PROVE (Shown(Newest(tables, k)) = Shown(Newest(manifest, k)))'
  BY <1>2
<1>3. ASSUME pc # "down", mem' = mem, manifest' = manifest,
             Shown(Newest(tables, k)') = Shown(Newest(tables, k))
      PROVE  (Shown(Newest(tables, k)) = Shown(Newest(manifest, k)))'
  <2>1. Newest(manifest, k)' = Newest(manifest, k)
    BY <1>1, <1>3, ManifestKept
  <2>2. Shown(Newest(tables, k)) = Shown(Newest(manifest, k))
    BY <1>1, <1>3 DEF Same
  <2>3. QED
    BY <1>3, <2>1, <2>2
<1>4. ASSUME pc # "down", UNCHANGED <<mem, tables, manifest>>
      PROVE  (Shown(Newest(tables, k)) = Shown(Newest(manifest, k)))'
  <2>1. Newest(tables, k)' = Newest(tables, k)
    BY <1>1, <1>4, TablesKept
  <2>2. QED
    BY <1>3, <1>4, <2>1
<1>5. ASSUME NEW key \in Key, NEW v \in Val \cup {Missing}, Call(key, v)
      PROVE  (Shown(Newest(tables, k)) = Shown(Newest(manifest, k)))'
  BY <1>4, <1>5 DEF Call
<1>6. CASE walAppend
  <2>1. pc = "call" /\ TypeOK /\ Calls
    BY <1>6 DEF walAppend, StoreInv
  <2>2. PICK r : r = IF op.val = Missing THEN Tomb ELSE op.val
    OBVIOUS
  <2>3. op.key \in Key /\ r # None
    BY <2>1, <2>2, Written
  <2>4. mem' = [mem EXCEPT ![op.key] = r] /\ mem \in [Key -> Rec \cup {None}]
    BY <1>1, <1>6, <2>2 DEF walAppend, TypeOK, Table
  <2>5. k # op.key /\ mem[k] = None
    BY <2>3, <2>4
  <2>6. tables' = tables /\ manifest' = manifest /\ pc # "down"
    BY <1>6 DEF walAppend
  <2>7. Newest(tables, k)' = Newest(tables, k) /\ Newest(manifest, k)' = Newest(manifest, k)
    BY <1>1, <2>6, TablesKept, ManifestKept
  <2>8. Shown(Newest(tables, k)) = Shown(Newest(manifest, k))
    BY <1>1, <2>5, <2>6 DEF Same
  <2>9. QED
    BY <2>7, <2>8
<1>7. CASE walAppendFails \/ WriteReturns \/ WriteFlushes
  BY <1>4, <1>7 DEF walAppendFails, WriteReturns, WriteFlushes
<1>8. CASE Flush \/ Compact \/ Close
  BY <1>4, <1>8 DEF Flush, Compact, Close
<1>9. CASE flushWriteTable
  <2>1. /\ pc # "down" /\ mem' = mem /\ manifest' = manifest
    BY <1>9 DEF flushWriteTable
  <2>2. Newest(tables, k)' = Newest(tables, k)
    BY <1>1, <1>9, <2>1, FlushReads
  <2>3. QED
    BY <1>3, <2>1, <2>2
<1>10. CASE writeManifestLocked \/ compactManifest
  BY <1>2, <1>10 DEF writeManifestLocked, compactManifest
<1>11. CASE flushReset
  BY <1>1, <1>2, <1>11 DEF flushReset, Doomed
<1>12. CASE flushResetFails \/ compactRemove
  BY <1>4, <1>12 DEF flushResetFails, compactRemove
<1>13. CASE compactWriteTable
  <2>1. /\ pc # "down" /\ mem' = mem /\ manifest' = manifest
    BY <1>13 DEF compactWriteTable
  <2>2. Shown(Newest(tables, k)') = Shown(Newest(tables, k))
    BY <1>1, <1>13, CompactReads
  <2>3. QED
    BY <1>3, <2>1, <2>2
<1>14. CASE IOError
  BY <1>4, <1>14 DEF IOError
<1>15. CASE Crash \/ TornAppend
  BY <1>15 DEF Crash, TornAppend, Lost, Return
<1>16. CASE Open
  BY <1>2, <1>16 DEF Open
<1>17. CASE CrashInOpen
  BY <1>17 DEF CrashInOpen
<1>18. CASE UNCHANGED vars
  BY <1>4, <1>18 DEF vars
<1>19. QED
  BY <1>5, <1>6, <1>7, <1>8, <1>9, <1>10, <1>11, <1>12, <1>13, <1>14, <1>15, <1>16,
     <1>17, <1>18 DEF Next

TornLast(w, e) == e \in ToSet(Append(w, e))

\* What is appended is in the log.
LEMMA AppendTorn ==
  ASSUME NEW S, NEW e, NEW w \in Seq(S \cup {e})
  PROVE  TornLast(w, e)
<1>1. PICK v : v = Append(w, e)
  OBVIOUS
<1>2. Len(v) \in 1..Len(v) /\ v[Len(v)] = e /\ DOMAIN v = 1..Len(v)
  BY <1>1
<1>3. QED
  BY <1>1, <1>2 DEF ToSet, TornLast

\* A whole log stays whole until something torn is appended.
LEMMA LoggedStep ==
  ASSUME StoreInv, [Next]_vars
  PROVE  Logged'
<1> USE DEF disk
<1>1. TypeOK /\ Calls /\ Logged
  BY DEF StoreInv
<1> SUFFICES ASSUME pc' # "down", ~TornTail'
             PROVE  (mem = replayWAL(wal))'
  BY DEF Logged
<1>2. ASSUME pc # "down", UNCHANGED <<mem, wal>>
      PROVE  (mem = replayWAL(wal))'
  <2>1. ~TornTail
    BY <1>2 DEF TornTail
  <2>2. mem = replayWAL(wal)
    BY <1>1, <1>2, <2>1 DEF Logged
  <2>3. QED
    BY <1>2, <2>2
<1>3. ASSUME NEW k \in Key, NEW v \in Val \cup {Missing}, Call(k, v)
      PROVE  (mem = replayWAL(wal))'
  BY <1>2, <1>3 DEF Call
<1>4. CASE walAppend
  <2>1. pc = "call" /\ pc # "down"
    BY <1>4 DEF walAppend
  <2>2. PICK r, w : /\ r = IF op.val = Missing THEN Tomb ELSE op.val
                    /\ w = wal
    OBVIOUS
  <2>3. PICK e : e = [key |-> op.key, rec |-> r]
    OBVIOUS
  <2>4. e \in StoredEntry /\ e.key = op.key /\ e.rec = r
    BY <1>1, <2>1, <2>2, <2>3, Written
  <2>5. wal' = Append(w, e) /\ mem' = [mem EXCEPT ![e.key] = e.rec]
    BY <1>4, <2>2, <2>3, <2>4 DEF walAppend
  <2>6. w \in Seq(StoredEntry \cup {TornRec})
    BY <1>1, <2>2 DEF TypeOK, StoredEntry
  <2>7. TornRec \notin ToSet(w)
    <3>1. TornRec \notin ToSet(Append(w, e))
      BY <2>5 DEF TornTail
    <3>2. \A i \in 1..Len(w) : i \in 1..Len(Append(w, e)) /\ Append(w, e)[i] = w[i]
      BY <2>6
    <3>3. DOMAIN w = 1..Len(w) /\ DOMAIN Append(w, e) = 1..Len(Append(w, e))
      BY <2>6, <2>4
    <3>4. QED
      BY <3>1, <3>2, <3>3 DEF ToSet
  <2>8. mem = replayWAL(w)
    BY <1>1, <2>1, <2>2, <2>7 DEF Logged, TornTail
  <2>9. replayWAL(Append(w, e)) = [replayWAL(w) EXCEPT ![e.key] = e.rec]
    BY <2>4, <2>6, <2>7, ReplayAppend
  <2>10. mem' = replayWAL(Append(w, e))
    BY <2>5, <2>8, <2>9
  <2>11. QED
    BY <2>5, <2>10
<1>5. CASE walAppendFails
  <2>1. pc # "down" /\ mem' = mem
    BY <1>5 DEF walAppendFails
  <2>2. CASE wal' = wal
    BY <1>2, <2>1, <2>2
  <2>3. CASE wal' = Append(wal, TornRec)
    <3>1. PICK w, e : w = wal /\ e = TornRec
      OBVIOUS
    <3>2. w \in Seq([key : Key, rec : Rec] \cup {e})
      BY <1>1, <3>1 DEF TypeOK
    <3>3. TornLast(w, e)
      BY <3>2, AppendTorn
    <3>4. QED
      BY <2>3, <3>1, <3>3 DEF TornTail, TornLast
  <2>4. QED
    BY <1>5, <2>2, <2>3 DEF walAppendFails
<1>6. CASE WriteReturns \/ WriteFlushes
  BY <1>2, <1>6 DEF WriteReturns, WriteFlushes
<1>7. CASE Flush \/ Compact \/ Close
  BY <1>2, <1>7 DEF Flush, Compact, Close
<1>8. CASE flushWriteTable \/ writeManifestLocked \/ compactWriteTable \/ compactManifest
  BY <1>2, <1>8 DEF flushWriteTable, writeManifestLocked, compactWriteTable, compactManifest
<1>9. CASE flushReset
  <2>1. wal' = <<>> /\ mem' = Empty
    BY <1>9 DEF flushReset
  <2>2. QED
    BY <2>1, ReplayEmpty
<1>10. CASE flushResetFails \/ compactRemove \/ IOError
  BY <1>2, <1>10 DEF flushResetFails, compactRemove, IOError
<1>11. CASE Crash \/ TornAppend
  BY <1>11 DEF Crash, TornAppend, Lost, Return
<1>12. CASE Open
  <2>1. mem' = replayWAL(wal) /\ wal' = wal
    BY <1>12 DEF Open
  <2>2. QED
    BY <2>1
<1>13. CASE CrashInOpen
  BY <1>13 DEF CrashInOpen
<1>14. CASE UNCHANGED vars
  BY <1>2, <1>14 DEF vars
<1>15. QED
  BY <1>3, <1>4, <1>5, <1>6, <1>7, <1>8, <1>9, <1>10, <1>11, <1>12, <1>13, <1>14 DEF Next


LEMMA FlushedStep ==
  ASSUME StoreInv, [Next]_vars
  PROVE  Flushed'
<1> USE DEF disk
<1>1. TypeOK /\ Unused /\ Doomed /\ Flushed
  BY DEF StoreInv
<1>2. ASSUME pc' \notin {"manifest", "reset"} PROVE Flushed'
  BY <1>2 DEF Flushed
<1>3. ASSUME pc \in {"manifest", "reset"}, UNCHANGED <<mem, tables>> PROVE Flushed'
  <2>1. ASSUME NEW k \in Key, (mem[k] # None)' PROVE (Newest(tables, k) = mem[k])'
    <3>1. Newest(tables, k)' = Newest(tables, k)
      BY <1>1, <1>3, TablesKept
    <3>2. Newest(tables, k) = mem[k]
      BY <1>1, <1>3, <2>1 DEF Flushed
    <3>3. QED
      BY <1>3, <3>1, <3>2
  <2>2. QED
    BY <2>1 DEF Flushed
<1>4. ASSUME NEW key \in Key, NEW v \in Val \cup {Missing}, Call(key, v)
      PROVE  Flushed'
  BY <1>2, <1>4 DEF Call
<1>5. CASE walAppend \/ walAppendFails \/ WriteReturns \/ WriteFlushes
  BY <1>2, <1>5 DEF walAppend, walAppendFails, WriteReturns, WriteFlushes, Return
<1>6. CASE Flush \/ Compact \/ Close
  BY <1>2, <1>6 DEF Flush, Compact, Close
<1>7. CASE flushWriteTable
  <2>1. mem' = mem
    BY <1>7 DEF flushWriteTable
  <2>2. ASSUME NEW k \in Key, (mem[k] # None)' PROVE (Newest(tables, k) = mem[k])'
    <3>1. mem[k] # None
      BY <2>1, <2>2
    <3>2. Newest(tables, k)' = mem[k]
      BY <1>1, <1>7, <3>1, FlushReads
    <3>3. QED
      BY <2>1, <3>2
  <2>3. QED
    BY <2>2 DEF Flushed
<1>8. CASE writeManifestLocked
  BY <1>3, <1>8 DEF writeManifestLocked
<1>9. CASE flushReset \/ flushResetFails \/ IOError
  BY <1>2, <1>9, FinishIs DEF flushReset, flushResetFails, IOError
<1>10. CASE compactWriteTable \/ compactManifest
  BY <1>2, <1>10 DEF compactWriteTable, compactManifest
<1>11. CASE compactRemove
  BY <1>2, <1>11, FinishIs DEF compactRemove
<1>12. CASE Crash \/ TornAppend
  BY <1>2, <1>12 DEF Crash, TornAppend, Lost, Return
<1>13. CASE Open \/ CrashInOpen
  BY <1>2, <1>13 DEF Open, CrashInOpen
<1>14. CASE UNCHANGED vars
  <2>1. pc' = pc /\ UNCHANGED <<mem, tables>>
    BY <1>14 DEF vars
  <2>2. QED
    BY <1>2, <1>3, <2>1
<1>15. QED
  BY <1>4, <1>5, <1>6, <1>7, <1>8, <1>9, <1>10, <1>11, <1>12, <1>13, <1>14 DEF Next

LEMMA StoreInvInit == Init => StoreInv
<1> SUFFICES ASSUME Init PROVE StoreInv
  OBVIOUS
<1>1. /\ pc = "ready" /\ op = NoCall /\ wal = <<>> /\ mem = Empty /\ doomed = {}
      /\ tables = <<>> /\ manifest = <<>>
  BY DEF Init
<1>2. ToSet(<<>>) = {}
  BY DEF ToSet
<1>3. TypeOK
  BY InitType
<1>4. Calls /\ Flushed
  BY <1>1 DEF Calls, Flushed
<1>5. Unused /\ Doomed
  BY <1>1, <1>2 DEF Unused, Doomed
<1>6. Same
  BY <1>1 DEF Same
<1>7. Logged
  BY <1>1, ReplayEmpty DEF Logged
<1>8. QED
  BY <1>3, <1>4, <1>5, <1>6, <1>7 DEF StoreInv

LEMMA StoreInvStep == StoreInv /\ [Next]_vars => StoreInv'
<1> SUFFICES ASSUME StoreInv, [Next]_vars PROVE StoreInv'
  OBVIOUS
<1>1. TypeOK /\ Calls /\ Unused /\ Doomed
  BY DEF StoreInv
<1>2. TypeOK' /\ Calls'
  BY <1>1, TypeStep, CallsStep
<1>3. Unused' /\ Doomed'
  BY <1>1, <1>2, FreshStep, DoomedStep
<1>4. Same' /\ Logged' /\ Flushed'
  BY SameStep, LoggedStep, FlushedStep
<1>5. QED
  BY <1>2, <1>3, <1>4 DEF StoreInv

LEMMA StoreInvariant == Spec => []StoreInv
  BY StoreInvInit, StoreInvStep, PTL DEF Spec

-----------------------------------------------------------------------------
(* What the engine promises. *)

\* Whenever nobody holds the lock, Get and Scan return what a crash at that moment
\* would leave: no acknowledged write is lost and nothing deleted returns, whatever
\* flushes, compactions, I/O errors and crashes came before, as long as no torn
\* record lies in the WAL (db.go write, flushLocked, compactLocked, Open).
THEOREM ReadsSurviveCrash == Spec => []ReadsAreDurableUntorn
<1>1. StoreInv => ReadsAreDurableUntorn
  <2> SUFFICES ASSUME StoreInv, ~TornTail, pc = "ready" PROVE LiveView = DurableView
    BY DEF ReadsAreDurableUntorn, ReadsAreDurable
  <2>1. mem = replayWAL(wal)
    BY DEF StoreInv, Logged
  <2>2. ASSUME NEW k \in Key PROVE View(mem, tables)[k] = View(mem, manifest)[k]
    <3>1. mem[k] = None => Shown(Newest(tables, k)) = Shown(Newest(manifest, k))
      BY DEF StoreInv, Same
    <3>2. /\ View(mem, tables)[k] = Shown(IF mem[k] # None THEN mem[k] ELSE Newest(tables, k))
          /\ View(mem, manifest)[k] = Shown(IF mem[k] # None THEN mem[k] ELSE Newest(manifest, k))
      BY ViewShows
    <3>3. QED
      BY <3>1, <3>2
  <2>3. /\ View(mem, tables) = [k \in Key |-> View(mem, tables)[k]]
        /\ View(mem, manifest) = [k \in Key |-> View(mem, manifest)[k]]
    BY DEF View
  <2>4. View(mem, tables) = View(mem, manifest)
    BY <2>2, <2>3
  <2>5. QED
    BY <2>1, <2>4 DEF LiveView, DurableView
<1>2. QED
  BY <1>1, StoreInvariant, PTL


-----------------------------------------------------------------------------
(* The engine is a durable map. *)

\* What a crash would leave of a key.
Survives(k) ==
  Shown(IF replayWAL(wal)[k] # None THEN replayWAL(wal)[k] ELSE Newest(manifest, k))

Surviving == DurableView = [k \in Key |-> Survives(k)]

LEMMA DurableIs == Surviving
<1>1. \A k \in Key : DurableView[k] = Survives(k)
  BY ViewShows DEF DurableView, Survives
<1>2. DurableView = [k \in Key |-> DurableView[k]]
  BY DEF DurableView, View
<1>3. QED
  BY <1>1, <1>2 DEF Surviving

LEMMA DurableNext == Surviving'
  BY DurableIs, PTL

\* Key by key.
LEMMA ViewKept ==
  ASSUME \A k \in Key : Survives(k)' = Survives(k)
  PROVE  DurableView' = DurableView
  BY DurableIs, DurableNext DEF Surviving

\* The log and the manifest are all there is of the durable contents.
LEMMA QuietView ==
  ASSUME StoreInv, [Next]_vars, UNCHANGED <<wal, manifest>>
  PROVE  DurableView' = DurableView
<1>1. ASSUME NEW k \in Key PROVE Survives(k)' = Survives(k)
  <2>1. Newest(manifest, k)' = Newest(manifest, k)
    BY ManifestKept DEF StoreInv
  <2>2. replayWAL(wal)' = replayWAL(wal)
    OBVIOUS
  <2>3. QED
    BY <2>1, <2>2 DEF Survives
<1>2. QED
  BY <1>1, ViewKept

\* A new manifest lists tables that show the same.
LEMMA ManifestView ==
  ASSUME StoreInv, [Next]_vars, ~TornTail, pc # "down",
         manifest' = tables, UNCHANGED <<wal, tables>>
  PROVE  DurableView' = DurableView
<1>1. TypeOK /\ Unused /\ Doomed /\ Same
  BY DEF StoreInv
<1>2. mem = replayWAL(wal) /\ replayWAL(wal)' = replayWAL(wal)
  BY DEF StoreInv, Logged
<1>3. ASSUME NEW k \in Key PROVE Survives(k)' = Survives(k)
  <2>1. Newest(tables, k)' = Newest(tables, k)
    BY <1>1, TablesKept
  <2>2. manifest' = tables'
    OBVIOUS
  <2>3. Newest(manifest, k)' = Newest(tables, k)
    BY <2>1, <2>2
  <2>4. mem[k] = None => Shown(Newest(tables, k)) = Shown(Newest(manifest, k))
    BY <1>1 DEF Same
  <2>5. QED
    BY <1>2, <2>3, <2>4 DEF Survives
<1>4. QED
  BY <1>3, ViewKept

\* The reset gives up a log whose records the tables have.
LEMMA ResetView ==
  ASSUME StoreInv, [Next]_vars, ~TornTail, flushReset
  PROVE  DurableView' = DurableView
<1>1. TypeOK /\ Unused /\ Doomed /\ Flushed
  BY DEF StoreInv
<1>2. pc = "reset" /\ wal' = <<>> /\ manifest' = manifest
  BY DEF flushReset, disk
<1>3. mem = replayWAL(wal)
  BY <1>2 DEF StoreInv, Logged
<1>4. replayWAL(wal)' = Empty
  BY <1>2, ReplayEmpty
<1>5. ASSUME NEW k \in Key PROVE Survives(k)' = Survives(k)
  <2>1. Newest(manifest, k)' = Newest(manifest, k) /\ manifest = tables
    BY <1>1, <1>2, ManifestKept DEF Doomed
  <2>2. mem[k] # None => Newest(manifest, k) = mem[k]
    BY <1>1, <1>2, <2>1 DEF Flushed
  <2>3. Empty[k] = None
    BY DEF Empty
  <2>4. Survives(k)' = Shown(Newest(manifest, k))
    BY <1>4, <2>1, <2>3 DEF Survives
  <2>5. QED
    BY <1>3, <2>2, <2>4 DEF Survives
<1>6. QED
  BY <1>5, ViewKept

\* The append is the instant a write takes effect.
LEMMA AppendView ==
  ASSUME StoreInv, [Next]_vars, ~TornTail, ~TornTail', walAppend
  PROVE  DurableView' = [DurableView EXCEPT ![op.key] = op.val]
<1>1. TypeOK /\ Calls /\ Unused /\ Doomed
  BY DEF StoreInv
<1>2. pc = "call" /\ pc' = "logged" /\ manifest' = manifest
  BY DEF walAppend
<1>3. PICK r : r = IF op.val = Missing THEN Tomb ELSE op.val
  OBVIOUS
<1>4. op.key \in Key /\ r # None /\ Shown(r) = op.val
  BY <1>1, <1>2, <1>3, Written
<1>5. mem = replayWAL(wal)
  BY <1>2 DEF StoreInv, Logged
<1>6. mem' = replayWAL(wal)'
  <2>1. Logged'
    BY LoggedStep
  <2>2. QED
    BY <1>2, <2>1 DEF Logged
<1>7. mem' = [mem EXCEPT ![op.key] = r] /\ mem \in [Key -> Rec \cup {None}]
  BY <1>1, <1>3 DEF walAppend, TypeOK, Table
<1>8. ASSUME NEW k \in Key
      PROVE  Survives(k)' = IF k = op.key THEN op.val ELSE Survives(k)
  <2>1. Newest(manifest, k)' = Newest(manifest, k)
    BY <1>1, <1>2, ManifestKept
  <2>2. Survives(k)' = Shown(IF mem'[k] # None THEN mem'[k] ELSE Newest(manifest, k))
    BY <1>6, <2>1 DEF Survives
  <2>3. CASE k = op.key
    <3>1. mem'[k] = r
      BY <1>7, <2>3
    <3>2. QED
      BY <1>4, <2>2, <2>3, <3>1
  <2>4. CASE k # op.key
    <3>1. mem'[k] = replayWAL(wal)[k]
      BY <1>5, <1>7, <2>4
    <3>2. QED
      BY <2>2, <2>4, <3>1 DEF Survives
  <2>5. QED
    BY <2>3, <2>4
<1>9. PICK f, g : f = DurableView' /\ g = DurableView
  OBVIOUS
<1>10. g = [k \in Key |-> Survives(k)] /\ f = [k \in Key |-> Survives(k)']
  BY <1>9, DurableIs, DurableNext DEF Surviving
<1>11. f = [g EXCEPT ![op.key] = op.val]
  BY <1>8, <1>10
<1>12. QED
  BY <1>9, <1>11

LEMMA RefineInit == Init => KV!Init
<1> SUFFICES ASSUME Init PROVE KV!Init
  OBVIOUS
<1>1. wal = <<>> /\ manifest = <<>> /\ op = NoCall
  BY DEF Init
<1>2. replayWAL(wal) = Empty
  BY <1>1, ReplayEmpty
<1>3. ASSUME NEW k \in Key PROVE Survives(k) = Missing
  <2>1. Newest(<<>>, k) = None
    <3>1. PICK t : t = <<>>
      OBVIOUS
    <3>2. t \in Seq(ID) /\ \A i \in 1..Len(t) : Record(t[i], k) = None
      BY <3>1
    <3>3. QED
      BY <3>1, <3>2, NewestNone
  <2>2. Empty[k] = None
    BY DEF Empty
  <2>3. QED
    BY <1>1, <1>2, <2>1, <2>2 DEF Survives, Shown
<1>4. DurableView = [k \in Key |-> Missing]
  BY <1>3, DurableIs DEF Surviving
<1>5. QED
  BY <1>1, <1>4 DEF KV!Init, KV!NoOp, NoCall

LEMMA RefineStep ==
  ASSUME StoreInv, Next
  PROVE  TornTail \/ TornTail' \/ KV!Next \/ UNCHANGED <<DurableView, op>>
<1> USE DEF disk
<1> SUFFICES ASSUME ~TornTail, ~TornTail'
             PROVE  KV!Next \/ UNCHANGED <<DurableView, op>>
  OBVIOUS
<1>1. TypeOK /\ Calls /\ Doomed /\ [Next]_vars
  BY DEF StoreInv
<1>2. ASSUME DurableView' = DurableView, op' = NoCall \/ op' = op
      PROVE  KV!Next \/ UNCHANGED <<DurableView, op>>
  BY <1>2 DEF KV!Next, KV!Return, KV!NoOp, NoCall
<1>3. ASSUME UNCHANGED <<wal, manifest>>, op' = NoCall \/ op' = op
      PROVE  KV!Next \/ UNCHANGED <<DurableView, op>>
  BY <1>1, <1>2, <1>3, QuietView
<1>4. ASSUME NEW k \in Key, NEW v \in Val \cup {Missing}, Call(k, v)
      PROVE  KV!Next
  <2>1. op = NoCall /\ UNCHANGED <<wal, manifest>>
    BY <1>1, <1>4 DEF Call, Calls
  <2>2. DurableView' = DurableView
    BY <1>1, <2>1, QuietView
  <2>3. op' = [status |-> "called", key |-> k, val |-> v]
    BY <1>4 DEF Call
  <2>4. KV!Call(k, v)
    BY <2>1, <2>2, <2>3 DEF KV!Call, KV!NoOp, NoCall
  <2>5. QED
    BY <2>4 DEF KV!Next
<1>5. CASE walAppend
  <2>1. DurableView' = [DurableView EXCEPT ![op.key] = op.val]
    BY <1>1, <1>5, AppendView
  <2>2. op.status = "called" /\ op' = [op EXCEPT !.status = "logged"]
    BY <1>1, <1>5 DEF walAppend, Calls
  <2>3. KV!TakeEffect
    BY <2>1, <2>2 DEF KV!TakeEffect
  <2>4. QED
    BY <2>3 DEF KV!Next
<1>6. CASE walAppendFails
  <2>1. op' = NoCall /\ manifest' = manifest
    BY <1>6 DEF walAppendFails, Return
  <2>2. CASE wal' = wal
    BY <1>3, <2>1, <2>2
  <2>3. CASE wal' = Append(wal, TornRec)
    <3>1. PICK w, e : w = wal /\ e = TornRec
      OBVIOUS
    <3>2. w \in Seq([key : Key, rec : Rec] \cup {e})
      BY <1>1, <3>1 DEF TypeOK
    <3>3. TornLast(w, e)
      BY <3>2, AppendTorn
    <3>4. QED
      BY <2>3, <3>1, <3>3 DEF TornTail, TornLast
  <2>4. QED
    BY <1>6, <2>2, <2>3 DEF walAppendFails
<1>7. CASE WriteReturns \/ WriteFlushes \/ Flush \/ Compact \/ Close
  BY <1>3, <1>7 DEF WriteReturns, WriteFlushes, Flush, Compact, Close, Return
<1>8. CASE flushWriteTable \/ compactWriteTable
  BY <1>3, <1>8 DEF flushWriteTable, compactWriteTable
<1>9. CASE writeManifestLocked \/ compactManifest
  <2>1. /\ pc # "down" /\ manifest' = tables /\ UNCHANGED <<wal, tables>> /\ op' = op
    BY <1>9 DEF writeManifestLocked, compactManifest
  <2>2. QED
    BY <1>1, <1>2, <2>1, ManifestView
<1>10. CASE flushReset
  <2>1. op' = NoCall \/ op' = op
    BY <1>10, FinishIs DEF flushReset
  <2>2. QED
    BY <1>1, <1>2, <1>10, <2>1, ResetView
<1>11. CASE flushResetFails \/ IOError
  BY <1>3, <1>11, FinishIs DEF flushResetFails, IOError
<1>12. CASE compactRemove
  BY <1>3, <1>12, FinishIs DEF compactRemove
<1>13. CASE Crash
  BY <1>3, <1>13 DEF Crash, Lost, Return
<1>14. CASE TornAppend
  <2>1. PICK w, e : w = wal /\ e = TornRec
    OBVIOUS
  <2>2. w \in Seq([key : Key, rec : Rec] \cup {e})
    BY <1>1, <2>1 DEF TypeOK
  <2>3. TornLast(w, e)
    BY <2>2, AppendTorn
  <2>4. wal' = Append(wal, TornRec)
    BY <1>14 DEF TornAppend
  <2>5. QED
    BY <2>1, <2>3, <2>4 DEF TornTail, TornLast
<1>15. CASE Open \/ CrashInOpen
  BY <1>3, <1>15 DEF Open, CrashInOpen
<1>16. QED
  BY <1>4, <1>5, <1>6, <1>7, <1>8, <1>9, <1>10, <1>11, <1>12, <1>13, <1>14, <1>15 DEF Next

\* The engine implements the durable map of KVStore.tla wherever no torn record lies in
\* the WAL before or after the step: a Put or Delete takes effect at the one instant its
\* record is appended, and no flush, compaction, I/O error, crash or reopening changes
\* what a restart would read (db.go, wal.go, merge.go).
THEOREM EngineIsDurableMap == Spec => Refinement
<1>1. StoreInv /\ [Next]_vars => [TornTail \/ TornTail' \/ KV!Next]_<<DurableView, op>>
  <2> SUFFICES ASSUME StoreInv, [Next]_vars
               PROVE  [TornTail \/ TornTail' \/ KV!Next]_<<DurableView, op>>
    OBVIOUS
  <2>1. CASE Next
    BY <2>1, RefineStep
  <2>2. CASE UNCHANGED vars
    <3>1. UNCHANGED <<wal, manifest, op>>
      BY <2>2 DEF vars
    <3>2. DurableView' = DurableView
      BY <3>1, QuietView
    <3>3. QED
      BY <3>1, <3>2
  <2>3. QED
    BY <2>1, <2>2
<1>2. QED
  BY <1>1, RefineInit, StoreInvariant, PTL DEF Spec, Refinement


-----------------------------------------------------------------------------
(* The store of a raft node (RaftStore.tla). *)

LEMMA LogIs ==
  ASSUME NEW l \in Log
  PROVE  /\ l \in Seq(1..MaxTerm) /\ Len(l) \in Nat /\ Len(l) <= MaxLog
         /\ DOMAIN l = 1..Len(l) /\ \A i \in 1..Len(l) : l[i] \in 1..MaxTerm
<1>1. PICK n \in 0..MaxLog : l \in [1..n -> 1..MaxTerm]
  BY DEF Log
<1>2. PICK m \in Nat : m = n /\ m <= MaxLog
  BY <1>1, StoreAssumption
<1>3. PICK T : T = 1..MaxTerm
  OBVIOUS
<1>4. l \in [1..m -> T]
  BY <1>1, <1>2, <1>3
<1>5. l \in Seq(T) /\ Len(l) = m
  BY <1>4
<1>6. QED
  BY <1>2, <1>3, <1>4, <1>5

\* The first d entries of a log.
LEMMA FirstOf ==
  ASSUME NEW l \in Log, NEW d \in Nat, d <= Len(l)
  PROVE  /\ SubSeq(l, 1, d) \in Seq(1..MaxTerm) /\ Len(SubSeq(l, 1, d)) = d
         /\ \A i \in 1..d : SubSeq(l, 1, d)[i] = l[i]
<1>1. PICK n \in Nat : n = Len(l) /\ d <= n
  BY LogIs
<1>2. \A i \in 1..d : l[i] \in 1..MaxTerm
  BY <1>1, LogIs
<1>3. PICK x : x = SubSeq(l, 1, d)
  OBVIOUS
<1>4. /\ x \in Seq(1..MaxTerm) /\ Len(x) = IF 1 <= d THEN d - 1 + 1 ELSE 0
      /\ \A i \in 1..(d - 1 + 1) : x[i] = l[1 + i - 1]
  BY <1>2, <1>3, SubSeqProperties
<1>5. Len(x) = d
  BY <1>4
<1>6. ASSUME NEW i \in 1..d PROVE x[i] = l[i]
  <2>1. i \in 1..(d - 1 + 1) /\ 1 + i - 1 = i
    OBVIOUS
  <2>2. QED
    BY <1>4, <2>1
<1>7. QED
  BY <1>3, <1>4, <1>5, <1>6

\* Two logs start with the same d entries.
LEMMA SameStart ==
  ASSUME NEW a \in Log, NEW b \in Log, NEW d \in Nat, d <= Len(a), d <= Len(b)
  PROVE  SubSeq(a, 1, d) = SubSeq(b, 1, d) <=> \A i \in 1..d : a[i] = b[i]
<1>1. PICK x, y \in Seq(1..MaxTerm) : x = SubSeq(a, 1, d) /\ y = SubSeq(b, 1, d)
  BY FirstOf
<1>2. Len(x) = d /\ Len(y) = d /\ \A i \in 1..d : x[i] = a[i] /\ y[i] = b[i]
  BY <1>1, FirstOf
<1>3. (\A i \in 1..d : x[i] = y[i]) => x = y
  BY <1>2, SeqEqual
<1>4. x = y <=> \A i \in 1..d : a[i] = b[i]
  BY <1>2, <1>3
<1>5. QED
  BY <1>1, <1>4

LEMMA PrefixIs ==
  ASSUME NEW a \in Log, NEW b \in Log
  PROVE  IsPrefix(a, b) <=> Len(a) <= Len(b) /\ \A i \in 1..Len(a) : a[i] = b[i]
<1>1. PICK n, l \in Nat : n = Len(a) /\ l = Len(b)
  BY LogIs
<1>2. n <= l => (SubSeq(a, 1, n) = SubSeq(b, 1, n) <=> \A i \in 1..n : a[i] = b[i])
  BY <1>1, SameStart
<1>3. QED
  BY <1>1, <1>2 DEF IsPrefix

\* The first difference of two logs (Save): where they stop to agree.
LEMMA DiffIs ==
  ASSUME NEW a \in Log, NEW b \in Log
  PROVE  /\ Diff(a, b) \in Nat /\ Diff(a, b) <= Len(a) /\ Diff(a, b) <= Len(b)
         /\ \A i \in 1..Diff(a, b) : a[i] = b[i]
         /\ Diff(a, b) = Len(a) \/ Diff(a, b) = Len(b) \/ a[Diff(a, b) + 1] # b[Diff(a, b) + 1]
<1>1. PICK n, l \in Nat : n = Len(a) /\ l = Len(b)
  BY LogIs
<1> DEFINE Parts(d) == /\ d <= Len(b) /\ SubSeq(a, 1, d) = SubSeq(b, 1, d)
                       /\ d = Len(a) \/ d = Len(b) \/ a[d + 1] # b[d + 1]
<1>2. ASSUME NEW d \in Nat, d <= n, d <= l
      PROVE  SubSeq(a, 1, d) = SubSeq(b, 1, d) <=> \A i \in 1..d : a[i] = b[i]
  BY <1>1, <1>2, SameStart
<1>3. \E d \in 0..n : Parts(d)
  <2>1. PICK m \in Nat : m <= n /\ m <= l /\ (m = n \/ m = l)
    BY <1>1
  <2>2. PICK T : T = {i \in 1..m : a[i] # b[i]}
    OBVIOUS
  <2>3. CASE T = {}
    <3>1. \A i \in 1..m : a[i] = b[i]
      BY <2>2, <2>3
    <3>2. QED
      BY <1>1, <1>2, <2>1, <3>1
  <2>4. CASE T # {}
    <3>1. PICK x \in T : \A y \in T : x <= y
      BY <2>2, <2>4, Least
    <3>2. x \in 1..m /\ a[x] # b[x]
      BY <2>2
    <3>3. PICK d \in Nat : d = x - 1 /\ d <= m /\ d + 1 = x
      BY <3>2
    <3>4. \A i \in 1..d : a[i] = b[i]
      BY <2>2, <3>1, <3>3
    <3>5. d <= n /\ d <= l
      BY <2>1, <3>3
    <3>6. SubSeq(a, 1, d) = SubSeq(b, 1, d)
      BY <1>2, <3>4, <3>5
    <3>7. Parts(d)
      BY <1>1, <3>2, <3>3, <3>5, <3>6
    <3>8. QED
      BY <3>5, <3>7
  <2>5. QED
    BY <2>3, <2>4
<1>4. PICK d \in 0..n : d = Diff(a, b) /\ Parts(d)
  BY <1>1, <1>3 DEF Diff
<1>5. \A i \in 1..d : a[i] = b[i]
  BY <1>1, <1>2, <1>4
<1>6. QED
  BY <1>1, <1>4, <1>5


\* How many entries a Save deletes.
Surplus(a, t) == IF Len(a) > Len(t) THEN Len(a) - Len(t) ELSE 0

\* The record of entry i when a Save that replaces log a by log t has made k of its writes:
\* n deletions from the end of t on, then the entries behind the first d.
After(a, t, d, n, k, i) ==
  IF i <= Len(t) /\ k >= n /\ i - d <= k - n THEN t[i]
  ELSE IF i <= Len(a) /\ ~(i > Len(t) /\ i - Len(t) <= k) THEN a[i]
  ELSE Absent

SavedSoFar(e, a, t, k) == \A i \in Index : e[i] = After(a, t, Diff(a, t), Surplus(a, t), k, i)

\* What a Save that has made k of its writes still has to do.
Left(td, W, k) == k <= Len(W) /\ Len(td) = Len(W) - k /\ \A j \in 1..Len(td) : td[j] = W[k + j]

SaveInv ==
  /\ StoreTypeOK
  /\ phase \in {"idle", "saving"} => mirror = acked.log
  /\ phase = "idle" => target = acked
  /\ \E k \in Nat : /\ SavedSoFar(ents, acked.log, target.log, k)
                    /\ phase = "saving" => Left(todo, SaveWrites(acked.log, target), k)

\* The writes of a Save of hs, whose log is t: n deletions, p puts, and the meta record.
Plan(W, hs, t, d, n, p) ==
  /\ Len(W) = n + p + 1
  /\ \A j \in 1..n : W[j] = [key |-> Len(t) + j, val |-> Absent]
  /\ \A j \in 1..p : W[n + j] = [key |-> d + j, val |-> t[d + j]]
  /\ W[n + p + 1] = [meta |-> hs.meta]

LEMMA WritesAre ==
  ASSUME NEW a \in Log, NEW hs \in HardState, NEW t \in Log, t = hs.log,
         NEW d, d = Diff(a, t), NEW p, p = Len(t) - d, NEW n, n = Surplus(a, t)
  PROVE  /\ n \in Nat /\ d \in Nat /\ p \in Nat
         /\ SaveWrites(a, hs) \in Seq(Write)
         /\ Plan(SaveWrites(a, hs), hs, t, d, n, p)
<1>20. PICK W : W = SaveWrites(a, hs)
  OBVIOUS
<1>1. t = hs.log
  OBVIOUS
<1>2. PICK la, lt \in Nat : la = Len(a) /\ lt = Len(t) /\ la <= MaxLog /\ lt <= MaxLog
  BY LogIs
<1>3. d \in Nat /\ d <= la /\ d <= lt
  BY <1>2, DiffIs
<1>4. p \in Nat /\ p = lt - d
  BY <1>2, <1>3
<1>5. n \in Nat /\ n = IF la > lt THEN la - lt ELSE 0
  BY <1>1, <1>2 DEF Surplus
<1>6. MaxLog \in Nat
  BY StoreAssumption
<1>7. PICK D \in Seq(Write) : /\ D = Deletes(a, t) /\ Len(D) = n
                              /\ \A j \in 1..n : D[j] = [key |-> lt + j, val |-> Absent]
  <2>1. PICK D : D = [k \in 1..n |-> [key |-> lt + k, val |-> Absent]]
    OBVIOUS
  <2>2. D = Deletes(a, t)
    BY <1>2, <1>5, <2>1 DEF Deletes
  <2>3. ASSUME NEW k \in 1..n PROVE D[k] \in Write
    <3>1. lt + k \in Index
      BY <1>2, <1>5, <1>6 DEF Index
    <3>2. [key |-> lt + k, val |-> Absent] \in [key : Index, val : (1..MaxTerm) \cup {Absent}]
      BY <3>1
    <3>3. QED
      BY <2>1, <3>2 DEF Write
  <2>4. D \in [1..n -> Write]
    BY <2>1, <2>3
  <2>5. D \in Seq(Write) /\ Len(D) = n
    BY <1>5, <2>4
  <2>6. QED
    BY <2>1, <2>2, <2>5
<1>8. PICK P \in Seq(Write) : /\ P = Puts(a, t) /\ Len(P) = p
                              /\ \A j \in 1..p : P[j] = [key |-> d + j, val |-> t[d + j]]
  <2>1. PICK P : P = [k \in 1..p |-> [key |-> d + k, val |-> t[d + k]]]
    OBVIOUS
  <2>2. P = Puts(a, t)
    BY <1>1, <1>2, <1>4, <2>1 DEF Puts
  <2>3. ASSUME NEW k \in 1..p PROVE P[k] \in Write
    <3>1. d + k \in Index /\ d + k \in 1..lt
      BY <1>2, <1>3, <1>4, <1>6 DEF Index
    <3>2. t[d + k] \in 1..MaxTerm
      BY <1>2, <3>1, LogIs
    <3>3. [key |-> d + k, val |-> t[d + k]] \in [key : Index, val : (1..MaxTerm) \cup {Absent}]
      BY <3>1, <3>2
    <3>4. QED
      BY <2>1, <3>3 DEF Write
  <2>4. P \in [1..p -> Write]
    BY <2>1, <2>3
  <2>5. P \in Seq(Write) /\ Len(P) = p
    BY <1>4, <2>4
  <2>6. QED
    BY <2>1, <2>2, <2>5
<1>9. PICK w \in Write : w = [meta |-> hs.meta]
  <2>1. [meta |-> hs.meta] \in [meta : Meta]
    BY DEF HardState
  <2>2. QED
    BY <2>1 DEF Write
<1>10. PICK E \in Seq(Write) : E = D \o P /\ Len(E) = n + p
                               /\ (\A j \in 1..n : E[j] = D[j]) /\ \A j \in 1..p : E[n + j] = P[j]
  <2>1. PICK E : E = D \o P
    OBVIOUS
  <2>2. /\ E \in Seq(Write) /\ Len(E) = Len(D) + Len(P)
        /\ \A i \in 1..(Len(D) + Len(P)) : E[i] = IF i <= Len(D) THEN D[i] ELSE P[i - Len(D)]
    BY <2>1, ConcatProperties
  <2>3. Len(E) = n + p
    BY <1>7, <1>8, <2>2
  <2>4. ASSUME NEW j \in 1..n PROVE E[j] = D[j]
    <3>1. j \in 1..(n + p) /\ j <= n
      BY <1>4, <1>5
    <3>2. QED
      BY <1>7, <1>8, <2>2, <3>1
  <2>5. ASSUME NEW j \in 1..p PROVE E[n + j] = P[j]
    <3>1. n + j \in 1..(n + p) /\ ~(n + j <= n) /\ (n + j) - n = j
      BY <1>4, <1>5
    <3>2. QED
      BY <1>7, <1>8, <2>2, <3>1
  <2>6. QED
    BY <2>1, <2>2, <2>3, <2>4, <2>5
<1>11. W = E \o <<w>>
  BY <1>1, <1>7, <1>8, <1>9, <1>10, <1>20 DEF SaveWrites
<1>12. W = Append(E, w)
  BY <1>10, <1>11
<1>13. W \in Seq(Write) /\ Len(W) = n + p + 1 /\ W[n + p + 1] = w
       /\ \A j \in 1..(n + p) : W[j] = E[j]
  BY <1>4, <1>5, <1>10, <1>12
<1>14. \A j \in 1..n : W[j] = D[j]
  <2>1. \A j \in 1..n : j \in 1..(n + p)
    BY <1>4, <1>5
  <2>2. QED
    BY <1>10, <1>13, <2>1
<1>15. \A j \in 1..p : W[n + j] = P[j]
  <2>1. \A j \in 1..p : n + j \in 1..(n + p)
    BY <1>4, <1>5
  <2>2. ASSUME NEW j \in 1..p PROVE W[n + j] = P[j]
    <3>1. W[n + j] = E[n + j]
      BY <1>13, <2>1
    <3>2. QED
      BY <1>10, <3>1
  <2>3. QED
    BY <2>2
<1>16. \A j \in 1..n : W[j] = [key |-> lt + j, val |-> Absent]
  BY <1>7, <1>14
<1>17. \A j \in 1..p : W[n + j] = [key |-> d + j, val |-> t[d + j]]
  BY <1>8, <1>15
<1>18. W[n + p + 1] = [meta |-> hs.meta]
  BY <1>9, <1>13
<1>19. Plan(W, hs, t, d, n, p)
  BY <1>2, <1>13, <1>16, <1>17, <1>18 DEF Plan
<1>21. QED
  BY <1>3, <1>4, <1>5, <1>13, <1>19, <1>20

LEMMA SurplusIs ==
  ASSUME NEW a \in Log, NEW t \in Log, NEW la \in Nat, la = Len(a), NEW lt \in Nat, lt = Len(t)
  PROVE  Surplus(a, t) \in Nat /\ Surplus(a, t) = IF la > lt THEN la - lt ELSE 0
<1>1. PICK n : n = IF la > lt THEN la - lt ELSE 0
  OBVIOUS
<1>2. n \in Nat
  BY <1>1
<1>3. n = Surplus(a, t)
  BY <1>1 DEF Surplus
<1>4. QED
  BY <1>1, <1>2, <1>3

\* Before its first write a Save has changed nothing, and with its last it is done.
LEMMA FirstAndLast ==
  ASSUME NEW a \in Log, NEW t \in Log, NEW e, NEW k \in Nat
  PROVE  /\ SavedSoFar(e, a, t, 0) <=> \A i \in Index : e[i] = IF i <= Len(a) THEN a[i] ELSE Absent
         /\ k >= Surplus(a, t) + (Len(t) - Diff(a, t)) =>
              (SavedSoFar(e, a, t, k) <=> \A i \in Index : e[i] = IF i <= Len(t) THEN t[i] ELSE Absent)
<1>1. PICK la, lt \in Nat : la = Len(a) /\ lt = Len(t)
  BY LogIs
<1>2. PICK d \in Nat : d = Diff(a, t) /\ d <= la /\ d <= lt /\ \A i \in 1..d : a[i] = t[i]
  BY <1>1, DiffIs
<1>3. PICK n \in Nat : n = Surplus(a, t) /\ n = IF la > lt THEN la - lt ELSE 0
  BY <1>1, SurplusIs
<1>4. ASSUME NEW i \in Index
      PROVE  After(a, t, d, n, 0, i) = IF i <= la THEN a[i] ELSE Absent
  <2>1. i \in Nat /\ i >= 1
    BY DEF Index
  <2>2. CASE i <= lt /\ 0 >= n /\ i - d <= 0 - n
    <3>1. i \in 1..d
      BY <2>1, <2>2, <1>3
    <3>2. QED
      BY <1>1, <1>2, <2>1, <2>2, <3>1 DEF After
  <2>3. CASE ~(i <= lt /\ 0 >= n /\ i - d <= 0 - n)
    BY <1>1, <2>1, <2>3 DEF After
  <2>4. QED
    BY <2>2, <2>3
<1>5. ASSUME NEW i \in Index, k >= n + (lt - d)
      PROVE  After(a, t, d, n, k, i) = IF i <= lt THEN t[i] ELSE Absent
  <2>1. i \in Nat /\ i >= 1
    BY DEF Index
  <2>2. k >= n /\ (i <= lt => i - d <= k - n)
    BY <1>2, <1>5, <2>1
  <2>3. i > lt /\ i <= la => i - lt <= k
    BY <1>3, <2>1, <2>2
  <2>4. QED
    BY <1>1, <2>1, <2>2, <2>3 DEF After
<1>6. QED
  BY <1>1, <1>2, <1>3, <1>4, <1>5 DEF SavedSoFar

\* One more write.
LEMMA OneMore ==
  ASSUME NEW a \in Log, NEW hs \in HardState, NEW e \in [Index -> (1..MaxTerm) \cup {Absent}], NEW e2,
         NEW k \in Nat, k + 1 <= Len(SaveWrites(a, hs)), SavedSoFar(e, a, hs.log, k),
         NEW w, w = SaveWrites(a, hs)[k + 1],
         e2 = IF "meta" \in DOMAIN w THEN e ELSE [e EXCEPT ![w.key] = w.val]
  PROVE  SavedSoFar(e2, a, hs.log, k + 1)
<1>1. PICK t \in Log : t = hs.log
  BY DEF HardState
<1>2. PICK la, lt \in Nat : la = Len(a) /\ lt = Len(t)
  BY LogIs
<1>3. PICK d \in Nat : d = Diff(a, t) /\ d <= la /\ d <= lt /\ \A i \in 1..d : a[i] = t[i]
  BY <1>2, DiffIs
<1>4. PICK n \in Nat : n = Surplus(a, t) /\ n = IF la > lt THEN la - lt ELSE 0
  BY <1>2, SurplusIs
<1>5. PICK p \in Nat : p = lt - d
  BY <1>3
<1>6. PICK W : W = SaveWrites(a, hs)
  OBVIOUS
<1>7. /\ Len(W) = n + p + 1
      /\ \A j \in 1..n : W[j] = [key |-> lt + j, val |-> Absent]
      /\ \A j \in 1..p : W[n + j] = [key |-> d + j, val |-> t[d + j]]
      /\ W[n + p + 1] = [meta |-> hs.meta]
  <2>1. Plan(SaveWrites(a, hs), hs, t, d, n, p)
    BY <1>1, <1>2, <1>3, <1>4, <1>5, WritesAre
  <2>2. QED
    BY <1>2, <1>6, <2>1 DEF Plan
<1>8. k + 1 <= n + p + 1 /\ w = W[k + 1]
  BY <1>6, <1>7
<1>9. \A i \in Index : i \in Nat /\ i >= 1
  BY DEF Index
<1>10. \A i \in Index : e[i] = After(a, t, d, n, k, i)
  BY <1>1, <1>3, <1>4 DEF SavedSoFar
<1>11. CASE k + 1 <= n
  <2>1. k + 1 \in 1..n
    BY <1>11
  <2>2. w = [key |-> lt + (k + 1), val |-> Absent]
    BY <1>7, <1>8, <2>1
  <2>3. PICK x \in Nat : x = lt + (k + 1) /\ x <= la
    BY <1>4, <1>11
  <2>4. e2 = [e EXCEPT ![x] = Absent]
    BY <2>2, <2>3
  <2>5. ASSUME NEW i \in Index PROVE e2[i] = After(a, t, d, n, k + 1, i)
    <3>1. i \in Nat /\ i >= 1 /\ e2[i] = IF i = x THEN Absent ELSE e[i]
      BY <1>9, <2>4
    <3>2. e[i] = IF i <= la /\ ~(i > lt /\ i - lt <= k) THEN a[i] ELSE Absent
      BY <1>2, <1>10, <1>11, <3>1 DEF After
    <3>3. CASE i <= lt /\ k + 1 >= n /\ i - d <= (k + 1) - n
      <4>1. i \in 1..d
        BY <1>11, <3>1, <3>3
      <4>2. After(a, t, d, n, k + 1, i) = t[i] /\ a[i] = t[i]
        BY <1>2, <1>3, <3>3, <4>1 DEF After
      <4>3. i <= la /\ i <= lt /\ i # x
        BY <1>3, <2>3, <3>3, <4>1
      <4>4. QED
        BY <3>1, <3>2, <4>2, <4>3
    <3>4. CASE ~(i <= lt /\ k + 1 >= n /\ i - d <= (k + 1) - n)
      <4>1. After(a, t, d, n, k + 1, i) = IF i <= la /\ ~(i > lt /\ i - lt <= k + 1) THEN a[i] ELSE Absent
        BY <1>2, <3>4 DEF After
      <4>2. i # x => (i - lt <= k + 1 <=> i - lt <= k)
        BY <2>3, <3>1
      <4>3. i = x => i > lt /\ i - lt <= k + 1
        BY <2>3
      <4>4. QED
        BY <3>1, <3>2, <4>1, <4>2, <4>3
    <3>5. QED
      BY <3>3, <3>4
  <2>6. QED
    BY <1>1, <1>3, <1>4, <2>5 DEF SavedSoFar
<1>12. CASE k + 1 > n /\ k + 1 <= n + p
  <2>1. PICK j \in 1..p : j = k + 1 - n /\ k + 1 = n + j
    BY <1>12
  <2>2. w = [key |-> d + j, val |-> t[d + j]]
    BY <1>7, <1>8, <2>1
  <2>3. PICK x \in Nat : x = d + j /\ x <= lt /\ x > d
    BY <1>5, <2>1
  <2>4. e2 = [e EXCEPT ![x] = t[x]]
    BY <2>2, <2>3
  <2>5. ASSUME NEW i \in Index PROVE e2[i] = After(a, t, d, n, k + 1, i)
    <3>1. i \in Nat /\ i >= 1 /\ e2[i] = IF i = x THEN t[x] ELSE e[i]
      BY <1>9, <2>4
    <3>2. CASE i = x
      <4>1. i <= lt /\ k + 1 >= n /\ i - d <= (k + 1) - n
        BY <1>12, <2>1, <2>3, <3>2
      <4>2. QED
        BY <1>2, <3>1, <3>2, <4>1 DEF After
    <3>3. CASE i # x
      <4>1. (i <= lt /\ k + 1 >= n /\ i - d <= (k + 1) - n) <=> (i <= lt /\ k >= n /\ i - d <= k - n)
        BY <1>12, <2>1, <2>3, <3>1, <3>3
      <4>2. i <= la /\ i > lt => i - lt <= k
        BY <1>4, <1>12, <3>1
      <4>3. After(a, t, d, n, k + 1, i) = After(a, t, d, n, k, i)
        BY <1>2, <3>1, <4>1, <4>2 DEF After
      <4>4. QED
        BY <1>10, <3>1, <3>3, <4>3
    <3>4. QED
      BY <3>2, <3>3
  <2>6. QED
    BY <1>1, <1>3, <1>4, <2>5 DEF SavedSoFar
<1>13. CASE k = n + p
  <2>1. w = [meta |-> hs.meta]
    BY <1>7, <1>8, <1>13
  <2>2. e2 = e
    BY <2>1
  <2>3. k >= n + (lt - d) /\ k + 1 >= n + (lt - d)
    BY <1>5, <1>13
  <2>4. PICK k2 \in Nat : k2 = k + 1
    OBVIOUS
  <2>5. /\ k >= Surplus(a, t) + (Len(t) - Diff(a, t))
        /\ k2 >= Surplus(a, t) + (Len(t) - Diff(a, t))
    BY <1>2, <1>3, <1>4, <2>3, <2>4
  <2>6. SavedSoFar(e, a, t, k)
    BY <1>1
  <2>7. \A i \in Index : e[i] = IF i <= Len(t) THEN t[i] ELSE Absent
    BY <2>5, <2>6, FirstAndLast
  <2>8. SavedSoFar(e, a, t, k2)
    BY <2>5, <2>7, FirstAndLast
  <2>9. QED
    BY <1>1, <2>2, <2>4, <2>8
<1>14. QED
  BY <1>8, <1>11, <1>12, <1>13


\* What Load finds: an unbroken run of entries is a log.
LEMMA RunIsLog ==
  ASSUME StoreTypeOK, NEW n \in Nat, Stored = 1..n
  PROVE  /\ LoadOK /\ LoadedLog \in Log /\ Len(LoadedLog) = n
         /\ \A i \in 1..n : LoadedLog[i] = ents[i]
<1>1. Cardinality(Stored) = n
  BY FS_Interval
<1>2. \A i \in 1..n : i \in Index /\ ents[i] # Absent
  BY DEF Stored
<1>3. n <= MaxLog
  <2>1. CASE n = 0
    BY <2>1, StoreAssumption
  <2>2. CASE n # 0
    <3>1. n \in Index
      BY <1>2, <2>2
    <3>2. QED
      BY <3>1, StoreAssumption DEF Index
  <2>3. QED
    BY <2>1, <2>2
<1>4. PICK l : l = [i \in 1..n |-> ents[i]]
  OBVIOUS
<1>5. \A i \in 1..n : ents[i] \in 1..MaxTerm
  BY <1>2 DEF StoreTypeOK
<1>6. l \in [1..n -> 1..MaxTerm]
  BY <1>4, <1>5
<1>7. l \in Log
  <2>1. n \in 0..MaxLog
    BY <1>3, StoreAssumption
  <2>2. QED
    BY <1>6, <2>1 DEF Log
<1>8. Len(l) = n
  <2>1. DOMAIN l = 1..n /\ DOMAIN l = 1..Len(l) /\ Len(l) \in Nat
    BY <1>4, <1>7, LogIs
  <2>2. QED
    BY <2>1
<1>9. LoadedLog = l
  BY <1>1, <1>4 DEF LoadedLog
<1>10. LoadOK
  BY DEF LoadOK
<1>11. QED
  BY <1>4, <1>7, <1>8, <1>9, <1>10

LEMMA RunIs ==
  ASSUME StoreTypeOK, LoadOK
  PROVE  \E n \in Nat : Stored = 1..n
<1>1. Stored \subseteq 1..MaxLog /\ MaxLog \in Nat
  BY StoreAssumption DEF Stored, Index
<1>2. CASE Stored = {}
  <2>1. Stored = 1..0
    BY <1>2
  <2>2. QED
    BY <2>1
<1>3. CASE Stored # {}
  <2>1. PICK x \in Stored : \A y \in Stored : x >= y
    BY <1>1, <1>3, Greatest
  <2>2. x \in Nat /\ \A j \in 1..x : j \in Stored
    BY <1>1 DEF LoadOK
  <2>3. \A y \in Stored : y \in 1..x
    BY <1>1, <2>1, <2>2
  <2>4. Stored = 1..x
    BY <2>2, <2>3
  <2>5. QED
    BY <2>2, <2>4
<1>4. QED
  BY <1>2, <1>3

LEMMA SaveInvInit == StoreInit => SaveInv
<1>1. SUFFICES ASSUME StoreInit PROVE SaveInv
  OBVIOUS
<1>2. <<>> \in Log
  <2>1. <<>> \in [1..0 -> 1..MaxTerm] /\ 0 \in 0..MaxLog
    BY StoreAssumption
  <2>2. QED
    BY <2>1 DEF Log
<1>3. ZeroMeta \in Meta
  BY StoreAssumption DEF ZeroMeta, Meta, Term
<1>4. ZeroHardState \in HardState /\ ZeroHardState.log = <<>>
  BY <1>2, <1>3 DEF ZeroHardState, HardState
<1>5. StoreTypeOK
  <2>1. todo \in Seq(Write)
    BY <1>1 DEF StoreInit
  <2>2. ents \in [Index -> (1..MaxTerm) \cup {Absent}]
    BY <1>1 DEF StoreInit
  <2>3. QED
    BY <1>1, <1>2, <1>3, <1>4, <2>1, <2>2 DEF StoreInit, StoreTypeOK
<1>6. SavedSoFar(ents, acked.log, target.log, 0)
  <2>1. PICK a \in Log : a = <<>> /\ Len(a) = 0
    BY <1>2
  <2>2. \A i \in Index : i > 0 /\ ents[i] = Absent
    BY <1>1 DEF StoreInit, Index
  <2>3. \A i \in Index : ents[i] = IF i <= Len(a) THEN a[i] ELSE Absent
    BY <2>1, <2>2 DEF Index
  <2>4. SavedSoFar(ents, a, a, 0)
    BY <2>3, FirstAndLast
  <2>5. QED
    BY <1>1, <1>4, <2>1, <2>4 DEF StoreInit
<1>7. QED
  BY <1>1, <1>4, <1>5, <1>6 DEF StoreInit, SaveInv, ZeroHardState

LEMMA SaveStep ==
  ASSUME SaveInv, NEW hs \in HardState, Save(hs)
  PROVE  SaveInv'
<1>1. PICK a, t \in Log : a = acked.log /\ t = hs.log
  BY DEF SaveInv, StoreTypeOK, HardState
<1>2. mirror = a /\ target = acked /\ phase' = "saving" /\ target' = hs
      /\ todo' = SaveWrites(a, hs) /\ UNCHANGED <<meta, ents, mirror, acked>>
  BY <1>1 DEF Save, SaveInv
<1>3. PICK k \in Nat : SavedSoFar(ents, a, a, k)
  BY <1>1, <1>2 DEF SaveInv
<1>4. \A i \in Index : ents[i] = IF i <= Len(a) THEN a[i] ELSE Absent
  <2>1. PICK la \in Nat : la = Len(a)
    BY LogIs
  <2>2. Diff(a, a) = la /\ Surplus(a, a) = 0
    BY <2>1, DiffIs, SurplusIs
  <2>3. k >= Surplus(a, a) + (Len(a) - Diff(a, a))
    BY <2>1, <2>2
  <2>4. QED
    BY <1>3, <2>3, FirstAndLast
<1>5. SavedSoFar(ents, a, t, 0)
  BY <1>4, FirstAndLast
<1>6. PICK W \in Seq(Write) : W = SaveWrites(a, hs)
  BY <1>1, WritesAre
<1>7. Left(W, W, 0)
  <2>1. PICK n \in Nat : n = Len(W)
    BY <1>6
  <2>2. \A j \in 1..n : 0 + j = j
    OBVIOUS
  <2>3. QED
    BY <2>1, <2>2 DEF Left
<1>8. StoreTypeOK'
  BY <1>2, <1>6 DEF SaveInv, StoreTypeOK
<1>9. SavedSoFar(ents', acked'.log, target'.log, 0) /\ Left(todo', SaveWrites(acked'.log, target'), 0)
  BY <1>1, <1>2, <1>5, <1>6, <1>7
<1>10. mirror' = acked'.log
  BY <1>1, <1>2
<1>11. QED
  BY <1>2, <1>8, <1>9, <1>10 DEF SaveInv

LEMMA WriteStep ==
  ASSUME SaveInv, WriteNext
  PROVE  SaveInv'
<1>1. PICK a \in Log : a = acked.log
  BY DEF SaveInv, StoreTypeOK, HardState
<1>2. PICK hs \in HardState : hs = target
  BY DEF SaveInv, StoreTypeOK
<1>3. PICK W \in Seq(Write) : W = SaveWrites(a, hs)
  <2>1. hs.log \in Log
    BY DEF HardState
  <2>2. QED
    BY <2>1, WritesAre
<1>4. PICK td \in Seq(Write) : td = todo
  BY DEF SaveInv, StoreTypeOK
<1>5. PICK k \in Nat : SavedSoFar(ents, a, hs.log, k) /\ Left(td, W, k)
  BY <1>1, <1>2, <1>3, <1>4 DEF SaveInv, WriteNext
<1>6. td # <<>> /\ phase = "saving" /\ UNCHANGED <<phase, mirror, target, acked>> /\ todo' = Tail(td)
  BY <1>4 DEF WriteNext
<1>7. PICK w \in Write : w = Head(td)
  BY <1>4, <1>6, HeadTailProperties
<1>8. PICK tl \in Seq(Write) : /\ tl = Tail(td) /\ Len(tl) = Len(td) - 1
                               /\ \A j \in 1..Len(tl) : tl[j] = td[j + 1]
  <2>1. PICK x : x = Tail(td)
    OBVIOUS
  <2>2. x \in Seq(Write) /\ Len(x) = Len(td) - 1
    BY <1>4, <1>6, <2>1, HeadTailProperties
  <2>3. \A j \in 1..Len(x) : x[j] = td[j + 1]
    BY <1>4, <1>6, <2>1, <2>2
  <2>4. QED
    BY <2>1, <2>2, <2>3
<1>9. PICK n, l, x \in Nat : n = Len(W) /\ l = Len(td) /\ x = Len(tl) /\ l > 0
  <2>1. Len(td) \in Nat /\ Len(W) \in Nat /\ Len(tl) \in Nat
    BY <1>3, <1>4, <1>8
  <2>2. Len(td) # 0
    BY <1>4, <1>6
  <2>3. QED
    BY <2>1, <2>2
<1>10. w = W[k + 1] /\ k + 1 <= n
  <2>1. td[1] = W[k + 1] /\ l = n - k
    BY <1>5, <1>9 DEF Left
  <2>2. w = td[1]
    BY <1>4, <1>6, <1>7
  <2>3. QED
    BY <1>9, <2>1, <2>2
<1>11. Left(tl, W, k + 1)
  <2>1. l = n - k /\ \A j \in 1..l : td[j] = W[k + j]
    BY <1>5, <1>9 DEF Left
  <2>2. x = n - (k + 1)
    BY <1>8, <1>9, <2>1
  <2>3. ASSUME NEW j \in 1..x PROVE tl[j] = W[(k + 1) + j]
    <3>1. j + 1 \in 1..l /\ k + (j + 1) = (k + 1) + j
      BY <1>8, <1>9
    <3>2. tl[j] = td[j + 1]
      BY <1>8, <1>9
    <3>3. td[j + 1] = W[k + (j + 1)]
      BY <2>1, <3>1
    <3>4. QED
      BY <3>1, <3>2, <3>3
  <2>4. QED
    BY <1>9, <1>10, <2>2, <2>3 DEF Left
<1>12. /\ ents \in [Index -> (1..MaxTerm) \cup {Absent}] /\ meta \in Meta
  BY DEF SaveInv, StoreTypeOK
<1>13. PICK e2 : e2 = IF "meta" \in DOMAIN w THEN ents ELSE [ents EXCEPT ![w.key] = w.val]
  OBVIOUS
<1>14. /\ ents' = e2 /\ meta' \in Meta /\ e2 \in [Index -> (1..MaxTerm) \cup {Absent}]
  <2>1. CASE w \in [meta : Meta]
    <3>1. "meta" \in DOMAIN w /\ w.meta \in Meta
      BY <2>1
    <3>2. meta' = w.meta /\ ents' = ents
      BY <1>4, <1>7, <3>1 DEF WriteNext
    <3>3. QED
      BY <1>12, <1>13, <3>1, <3>2
  <2>2. CASE w \in [key : Index, val : (1..MaxTerm) \cup {Absent}]
    <3>1. "meta" \notin DOMAIN w /\ w.key \in Index /\ w.val \in (1..MaxTerm) \cup {Absent}
      BY <2>2
    <3>2. meta' = meta /\ ents' = [ents EXCEPT ![w.key] = w.val]
      BY <1>4, <1>7, <3>1 DEF WriteNext
    <3>3. QED
      BY <1>12, <1>13, <3>1, <3>2
  <2>3. QED
    BY <2>1, <2>2 DEF Write
<1>15. SavedSoFar(e2, a, hs.log, k + 1)
  BY <1>3, <1>5, <1>9, <1>10, <1>12, <1>13, OneMore
<1>16. StoreTypeOK'
  BY <1>6, <1>8, <1>14 DEF SaveInv, StoreTypeOK
<1>17. PICK k2 \in Nat : k2 = k + 1
  OBVIOUS
<1>18. SavedSoFar(ents', acked'.log, target'.log, k2) /\ Left(todo', SaveWrites(acked'.log, target'), k2)
  BY <1>1, <1>2, <1>3, <1>6, <1>8, <1>11, <1>14, <1>15, <1>17
<1>19. mirror' = acked'.log
  BY <1>6 DEF SaveInv
<1>20. QED
  BY <1>6, <1>16, <1>18, <1>19 DEF SaveInv

LEMMA SaveReturnsStep ==
  ASSUME SaveInv, SaveReturns
  PROVE  SaveInv'
<1>1. PICK a \in Log : a = acked.log
  BY DEF SaveInv, StoreTypeOK, HardState
<1>2. PICK hs \in HardState : hs = target
  BY DEF SaveInv, StoreTypeOK
<1>3. PICK t \in Log : t = hs.log
  BY DEF HardState
<1>4. PICK k \in Nat : SavedSoFar(ents, a, t, k) /\ Left(<<>>, SaveWrites(a, hs), k)
  BY <1>1, <1>2, <1>3 DEF SaveInv, SaveReturns
<1>5. PICK n, d, p \in Nat : n = Surplus(a, t) /\ d = Diff(a, t) /\ p = Len(t) - d
                             /\ Plan(SaveWrites(a, hs), hs, t, d, n, p)
  BY <1>3, WritesAre
<1>6. k = n + p + 1
  <2>1. Len(SaveWrites(a, hs)) = n + p + 1
    BY <1>5 DEF Plan
  <2>2. Len(<<>>) = 0
    OBVIOUS
  <2>3. QED
    BY <1>4, <2>1, <2>2 DEF Left
<1>7. \A i \in Index : ents[i] = IF i <= Len(t) THEN t[i] ELSE Absent
  <2>1. k >= Surplus(a, t) + (Len(t) - Diff(a, t))
    BY <1>5, <1>6
  <2>2. QED
    BY <1>4, <2>1, FirstAndLast
<1>8. SavedSoFar(ents, t, t, 0)
  BY <1>7, FirstAndLast
<1>9. /\ phase' = "idle" /\ mirror' = t /\ acked' = hs /\ target' = hs
      /\ UNCHANGED <<meta, ents, todo>>
  BY <1>2, <1>3 DEF SaveReturns
<1>10. StoreTypeOK'
  BY <1>9 DEF SaveInv, StoreTypeOK
<1>11. SavedSoFar(ents', acked'.log, target'.log, 0)
  BY <1>3, <1>8, <1>9
<1>12. QED
  BY <1>3, <1>9, <1>10, <1>11 DEF SaveInv

LEMMA NodeCrashStep ==
  ASSUME SaveInv, NodeCrash
  PROVE  SaveInv'
<1>1. phase' = "down" /\ mirror' = <<>> /\ todo' = <<>> /\ UNCHANGED <<meta, ents, target, acked>>
  BY DEF NodeCrash
<1>2. <<>> \in Log /\ <<>> \in Seq(Write)
  <2>1. <<>> \in [1..0 -> 1..MaxTerm] /\ 0 \in 0..MaxLog
    BY StoreAssumption
  <2>2. QED
    BY <2>1 DEF Log
<1>3. StoreTypeOK'
  BY <1>1, <1>2 DEF SaveInv, StoreTypeOK
<1>4. PICK k \in Nat : SavedSoFar(ents', acked'.log, target'.log, k)
  BY <1>1 DEF SaveInv
<1>5. QED
  BY <1>1, <1>3, <1>4 DEF SaveInv

LEMMA OpenStep ==
  ASSUME SaveInv, OpenStore
  PROVE  SaveInv'
<1>1. StoreTypeOK
  BY DEF SaveInv
<1>2. CASE LoadOK
  <2>1. PICK n \in Nat : Stored = 1..n
    BY <1>1, <1>2, RunIs
  <2>2. PICK l \in Log : l = LoadedLog /\ Len(l) = n /\ \A i \in 1..n : l[i] = ents[i]
    BY <1>1, <2>1, RunIsLog
  <2>3. PICK hs : hs = [meta |-> meta, log |-> l]
    OBVIOUS
  <2>4. hs \in HardState /\ hs.log = l
    BY <1>1, <2>3 DEF StoreTypeOK, HardState
  <2>5. /\ phase' = "idle" /\ mirror' = l /\ acked' = hs /\ target' = hs
        /\ UNCHANGED <<meta, ents, todo>>
    BY <1>2, <2>2, <2>3 DEF OpenStore
  <2>6. StoreTypeOK'
    BY <1>1, <2>4, <2>5 DEF StoreTypeOK
  <2>7. \A i \in Index : ents[i] = IF i <= Len(l) THEN l[i] ELSE Absent
    <3>1. \A i \in Index : i \in Nat /\ i >= 1 /\ (i \in 1..n <=> ents[i] # Absent)
      BY <2>1 DEF Index, Stored
    <3>2. \A i \in Index : i <= n <=> i \in 1..n
      BY <3>1
    <3>3. QED
      BY <2>2, <3>1, <3>2
  <2>8. SavedSoFar(ents, l, l, 0)
    BY <2>7, FirstAndLast
  <2>9. SavedSoFar(ents', acked'.log, target'.log, 0)
    BY <2>4, <2>5, <2>8
  <2>10. QED
    BY <2>4, <2>5, <2>6, <2>9 DEF SaveInv
<1>3. CASE ~LoadOK
  <2>1. phase' = "failed" /\ UNCHANGED <<mirror, acked, target, meta, ents, todo>>
    BY <1>3 DEF OpenStore
  <2>2. StoreTypeOK'
    BY <1>1, <2>1 DEF StoreTypeOK
  <2>3. PICK k \in Nat : SavedSoFar(ents', acked'.log, target'.log, k)
    BY <2>1 DEF SaveInv
  <2>4. QED
    BY <2>1, <2>2, <2>3 DEF SaveInv
<1>4. QED
  BY <1>2, <1>3

LEMMA StoreStep == SaveInv /\ [StoreNext]_storeVars => SaveInv'
<1>1. SUFFICES ASSUME SaveInv, [StoreNext]_storeVars PROVE SaveInv'
  OBVIOUS
<1>2. ASSUME UNCHANGED storeVars PROVE SaveInv'
  <2>1. StoreTypeOK'
    BY <1>1, <1>2 DEF storeVars, SaveInv, StoreTypeOK
  <2>2. QED
    BY <1>1, <1>2, <2>1 DEF storeVars, SaveInv
<1>3. QED
  BY <1>1, <1>2, SaveStep, WriteStep, SaveReturnsStep, NodeCrashStep, OpenStep DEF StoreNext

LEMMA Stores == StoreSpec => []SaveInv
  BY SaveInvInit, StoreStep, PTL DEF StoreSpec

\* The records, the mirror and the writes of a Save keep their types (package raftstore).
THEOREM RaftStoreTypeCorrect == StoreSpec => []StoreTypeOK
  BY Stores, PTL DEF SaveInv

\* A crash between any two writes of a Save keeps what the old and the new log share, and
\* while entries are only appended a restart finds the old log and some of the new entries
\* behind it (Save, Load).
THEOREM CrashKeepsLog == StoreSpec => []CrashedSaveKeepsLog
<1>1. ASSUME SaveInv PROVE CrashedSaveKeepsLog
  <2>1. PICK a, t \in Log : a = acked.log /\ t = target.log
    BY <1>1 DEF SaveInv, StoreTypeOK, HardState
  <2>2. PICK la, lt \in Nat : la = Len(a) /\ lt = Len(t) /\ la <= MaxLog /\ lt <= MaxLog
    BY LogIs
  <2>3. PICK d \in Nat : /\ d = Diff(a, t) /\ d <= la /\ d <= lt /\ \A i \in 1..d : a[i] = t[i]
                         /\ d = la \/ d = lt \/ a[d + 1] # t[d + 1]
    BY <2>2, DiffIs
  <2>4. PICK n \in Nat : n = Surplus(a, t) /\ n = IF la > lt THEN la - lt ELSE 0
    BY <2>2, SurplusIs
  <2>5. PICK k \in Nat : \A i \in Index : ents[i] = After(a, t, d, n, k, i)
    BY <1>1, <2>1, <2>3, <2>4 DEF SaveInv, SavedSoFar
  <2>6. \A i \in 1..MaxLog : i \in Index
    BY DEF Index
  <2>7. MaxLog \in Nat
    BY StoreAssumption
  <2>8. SharedPrefixKept
    <3>1. ASSUME NEW i \in 1..d PROVE ents[i] = a[i]
      <4>1. i \in Index /\ i <= la /\ i <= lt /\ a[i] = t[i]
        BY <2>2, <2>3, <2>6, <2>7
      <4>2. After(a, t, d, n, k, i) = a[i]
        BY <2>2, <4>1 DEF After
      <4>3. QED
        BY <2>5, <4>1, <4>2
    <3>2. QED
      BY <2>1, <2>3, <3>1 DEF SharedPrefixKept
  <2>9. ASSUME IsPrefix(a, t)
        PROVE  LoadOK /\ IsPrefix(a, LoadedLog) /\ IsPrefix(LoadedLog, t)
    <3>1. la <= lt /\ \A i \in 1..la : a[i] = t[i]
      BY <2>2, <2>9, PrefixIs
    <3>2. d = la
      <4>1. d + 1 \in 1..la => a[d + 1] = t[d + 1]
        BY <3>1
      <4>2. QED
        BY <2>3, <3>1, <4>1
    <3>3. n = 0
      BY <2>4, <3>1
    <3>4. PICK m \in Nat : m <= lt /\ la <= m /\ m <= la + k /\ (m = lt \/ m = la + k)
      BY <3>1
    <3>5. ASSUME NEW i \in Index PROVE ents[i] = IF i <= m THEN t[i] ELSE Absent
      <4>1. i \in Nat /\ i >= 1 /\ ents[i] = After(a, t, d, n, k, i)
        BY <2>5 DEF Index
      <4>2. (i <= lt /\ k >= n /\ i - d <= k - n) <=> i <= m
        BY <3>2, <3>3, <3>4, <4>1
      <4>3. i <= la => i <= m
        BY <3>4, <4>1
      <4>4. QED
        BY <2>2, <4>1, <4>2, <4>3 DEF After
    <3>6. Stored = 1..m
      <4>1. ASSUME NEW i \in Index PROVE i \in Stored <=> i <= m
        <5>1. i <= m => t[i] \in 1..MaxTerm
          <6>1. i <= m => i \in 1..lt
            BY <3>4 DEF Index
          <6>2. QED
            BY <2>2, <6>1, LogIs
        <5>2. i <= m => ents[i] # Absent
          BY <3>5, <5>1, StoreAssumption
        <5>3. QED
          BY <3>5, <5>2 DEF Stored
      <4>2. \A i \in 1..m : i \in Index
        BY <2>2, <2>7, <3>4 DEF Index
      <4>3. \A i \in Stored : i \in Index /\ i \in Nat /\ i >= 1
        BY DEF Stored, Index
      <4>4. \A i \in 1..m : i \in Stored
        BY <4>1, <4>2
      <4>5. \A i \in Stored : i \in 1..m
        BY <3>4, <4>1, <4>3
      <4>6. QED
        BY <4>4, <4>5
    <3>7. PICK l \in Log : l = LoadedLog /\ LoadOK /\ Len(l) = m /\ \A i \in 1..m : l[i] = ents[i]
      BY <1>1, <3>6, RunIsLog DEF SaveInv
    <3>8. \A i \in 1..m : l[i] = t[i]
      <4>1. \A i \in 1..m : i \in Index /\ i <= m
        BY <2>2, <2>7, <3>4 DEF Index
      <4>2. QED
        BY <3>5, <3>7, <4>1
    <3>9. IsPrefix(l, t)
      BY <2>2, <3>4, <3>7, <3>8, PrefixIs
    <3>10. IsPrefix(a, l)
      <4>1. \A i \in 1..la : i \in 1..m /\ a[i] = t[i]
        BY <3>1, <3>4
      <4>2. \A i \in 1..la : a[i] = l[i]
        BY <3>8, <4>1
      <4>3. QED
        BY <2>2, <3>4, <3>7, <4>2, PrefixIs
    <3>11. QED
      BY <3>7, <3>9, <3>10
  <2>10. AppendIsPrefix
    BY <2>1, <2>9 DEF AppendIsPrefix
  <2>11. QED
    BY <2>8, <2>10 DEF CrashedSaveKeepsLog
<1>2. QED
  BY <1>1, Stores, PTL

-----------------------------------------------------------------------------
(* The inductive invariant of the lock. *)

\* Commands are stamped with a time that has come.
Stamped == \A i \in 1..Len(cmds) : cmds[i].now <= now

\* A lease is in the table from the entry of the log that granted it on: its token is
\* the index of that entry.
Tokens ==
  \A i \in 1..Len(table) : table[i] # Free =>
    table[i].token \in 1..i /\ table[table[i].token] = table[i]

\* The transfer has asked for its lock to be released, or never will hold it.
Gone(o) == tr[o].pc \in {"releasing", "ok", "failed"}

\* Nobody waits for the lease any more: its time is over, or its owner let go of it.
Over(lock) == lock.expires <= now \/ Gone(lock.owner)

\* A lease gives way to another state of the lock only when it is over.
Succession ==
  \A i, j \in 1..Len(table) :
    i < j /\ table[i] # Free /\ table[j] # table[i] => Over(table[i])

\* An owner acquires once.
AcquiresOnce ==
  /\ \A i, j \in 1..Len(cmds) :
       cmds[i].op = "acquire" /\ cmds[j].op = "acquire" /\ cmds[i].owner = cmds[j].owner
         => i = j
  /\ \A i \in 1..Len(cmds) :
       /\ tr[cmds[i].owner].pc # "new"
       /\ cmds[i].op = "release" => Gone(cmds[i].owner)
       /\ cmds[i].op = "acquire" =>
            \A k \in 1..Len(table) : table[k] # Free => table[k].owner # cmds[i].owner
  /\ \A k \in 1..Len(table) : table[k] # Free => tr[table[k].owner].pc # "new"

\* What an owner was granted is a lease of its own in the table; it is given up for
\* good with the release.
Grants ==
  \A o \in Owner :
    /\ client[o].grant # NoGrant =>
         \E i \in 1..Len(table) :
           /\ table[i] # Free /\ table[i].owner = o
           /\ client[o].grant.token = table[i].token
           /\ client[o].grant.expires = table[i].expires
    /\ client[o].grant # NoGrant => tr[o].pc \in {"lookup", "ask", "audit", "release"}

\* The call an owner is in is the one its transfer has made.
LockCalls ==
  \A o \in Owner :
    /\ client[o].call = "acquire" => tr[o].pc = "acquire"
    /\ client[o].call = "release" => tr[o].pc = "releasing"

Stage == {"new", "acquire", "lookup", "ask", "audit", "release", "releasing", "ok", "failed"}

\* The part of the transfers that the lock depends on.
Stages == \A o \in Owner : tr[o].pc \in Stage

LockInv ==
  /\ LockTypeOK /\ Stages
  /\ Stamped /\ Tokens /\ Succession /\ AcquiresOnce /\ Grants /\ LockCalls

-----------------------------------------------------------------------------

\* NewestHolder follows: a newer token in the table says that the older lease is over.
LEMMA LockInvSuffices == LockInv => NewestHolder
<1> SUFFICES ASSUME LockInv, NEW o \in Owner, NEW p \in Owner, o # p, Believes(o)
             PROVE  client[p].grant.token < client[o].grant.token
  BY DEF NewestHolder
<1>1. client[o].grant # NoGrant /\ client[o].grant.expires > now
  BY DEF Believes, NoGrant, LockInv, LockTypeOK
<1>2. PICK i \in 1..Len(table) :
        /\ table[i] # Free /\ table[i].owner = o
        /\ client[o].grant.token = table[i].token
        /\ client[o].grant.expires = table[i].expires
  BY <1>1 DEF LockInv, Grants
<1> DEFINE t == table[i].token
<1>3. t \in 1..i /\ table[t] = table[i]
  BY <1>2 DEF LockInv, Tokens
<1>4. i \in Nat /\ t \in Nat /\ t > 0 /\ t \in 1..Len(table)
  BY <1>3 DEF LockInv, LockTypeOK
<1>5. ~Over(table[t])
  <2>1. ~Gone(o)
    BY <1>1 DEF LockInv, Grants, Gone
  <2>2. ~(table[t].expires <= now)
    BY <1>1, <1>2, <1>3 DEF LockInv, LockTypeOK
  <2>3. QED
    BY <2>1, <2>2, <1>2, <1>3 DEF Over
<1>6. CASE client[p].grant = NoGrant
  BY <1>6, <1>2, <1>4 DEF NoGrant
<1>7. CASE client[p].grant # NoGrant
  <2>1. PICK j \in 1..Len(table) :
          /\ table[j] # Free /\ table[j].owner = p
          /\ client[p].grant.token = table[j].token
    BY <1>7 DEF LockInv, Grants
  <2> DEFINE u == table[j].token
  <2>2. u \in 1..j /\ table[u] = table[j]
    BY <2>1 DEF LockInv, Tokens
  <2>3. u \in 1..Len(table) /\ u \in Nat
    BY <2>2 DEF LockInv, LockTypeOK
  <2>4. table[u] # table[t]
    BY <1>2, <1>3, <2>1, <2>2
  <2>5. ~(t < u)
    BY <1>2, <1>3, <1>4, <1>5, <2>3, <2>4 DEF LockInv, Succession
  <2>6. t # u
    BY <2>4
  <2> HIDE DEF t, u
  <2>7. u < t
    BY <1>4, <2>3, <2>5, <2>6
  <2>8. QED
    BY <1>2, <2>1, <2>7 DEF t, u
<1>8. QED
  BY <1>6, <1>7

-----------------------------------------------------------------------------
(* LockInv is inductive. *)

LEMMA CommandTypes ==
  ASSUME LockInv
  PROVE  \A i \in 1..Len(cmds) : /\ cmds[i] \in Command /\ cmds[i].op \in Op
                                 /\ cmds[i].owner \in Owner /\ cmds[i].now \in Nat
<1>1. cmds \in Seq(Command)
  BY DEF LockInv, LockTypeOK
<1>2. \A i \in 1..Len(cmds) : cmds[i] \in Command
  BY <1>1
<1>3. QED
  BY <1>2 DEF Command

LEMMA LockInvInit == HandoffInit => LockInv
<1> SUFFICES ASSUME HandoffInit PROVE LockInv
  OBVIOUS
<1>1. /\ now = 0 /\ cmds = <<>> /\ table = <<>>
      /\ client = [o \in Owner |-> [call |-> "none", at |-> 0, grant |-> NoGrant]]
      /\ \A o \in Owner : tr[o].pc = "new"
  BY DEF HandoffInit, LockInit
<1>2. LockTypeOK
  BY <1>1 DEF LockTypeOK, NoGrant, Op
<1>3. Stages
  BY <1>1 DEF Stages, Stage
<1>4. Stamped /\ Tokens /\ Succession /\ AcquiresOnce
  BY <1>1 DEF Stamped, Tokens, Succession, AcquiresOnce
<1>5. Grants /\ LockCalls
  BY <1>1 DEF Grants, LockCalls
<1>6. QED
  BY <1>2, <1>3, <1>4, <1>5 DEF LockInv

\* The transfer that holds the lock and goes on.
Middle == {"lookup", "ask", "audit", "release"}

\* Every other transfer stays where it is.
Moves(o, s) == \A q \in Owner : tr'[q].pc = IF q = o THEN s ELSE tr[q].pc

LEMMA MiddleKeepsLock ==
  ASSUME LockInv, UNCHANGED lockVars,
         \A o \in Owner : tr'[o].pc = tr[o].pc \/ (tr[o].pc \in Middle /\ tr'[o].pc \in Middle)
  PROVE  LockInv'
<1>1. now' = now /\ cmds' = cmds /\ table' = table /\ client' = client
  BY DEF lockVars
<1>2. LockTypeOK' /\ Stamped' /\ Tokens'
  BY <1>1 DEF LockInv, LockTypeOK, Stamped, Tokens
<1>3. Stages'
  BY DEF LockInv, Stages, Stage, Middle
<1>4. \A o \in Owner : (Gone(o) => Gone(o)') /\ (tr[o].pc # "new" => tr'[o].pc # "new")
  BY DEF Gone, Middle
<1>5. \A i \in 1..Len(table) : table[i] # Free => table[i].owner \in Owner
  BY DEF LockInv, LockTypeOK, Entry
<1>6. \A i \in 1..Len(cmds) : cmds[i].owner \in Owner
  BY CommandTypes
<1>7. Succession'
  BY <1>1, <1>4, <1>5 DEF LockInv, Succession, Over
<1>8. AcquiresOnce'
  BY <1>1, <1>4, <1>5, <1>6 DEF LockInv, AcquiresOnce
<1>9. Grants' /\ LockCalls'
  BY <1>1 DEF LockInv, Grants, LockCalls, Middle
<1>10. QED
  BY <1>2, <1>3, <1>7, <1>8, <1>9 DEF LockInv

\* Time passes.
LEMMA TickKeepsLock ==
  ASSUME LockInv, Tick, tr' = tr
  PROVE  LockInv'
<1>1. now' = now + 1 /\ cmds' = cmds /\ table' = table /\ client' = client /\ now \in Nat
  BY DEF Tick, LockInv, LockTypeOK
<1>2. LockTypeOK' /\ Stages'
  BY <1>1 DEF LockInv, LockTypeOK, Stages
<1>3. \A i \in 1..Len(cmds) : cmds[i].now \in Nat
  BY CommandTypes
<1>4. Stamped' /\ Tokens'
  BY <1>1, <1>3 DEF LockInv, Stamped, Tokens
<1>5. \A i \in 1..Len(table) : table[i] # Free => table[i].expires \in Nat
  BY DEF LockInv, LockTypeOK, Entry
<1>6. Succession'
  BY <1>1, <1>5 DEF LockInv, Succession, Over, Gone
<1>7. AcquiresOnce' /\ Grants' /\ LockCalls'
  BY <1>1 DEF LockInv, AcquiresOnce, Grants, LockCalls, Gone
<1>8. QED
  BY <1>2, <1>4, <1>6, <1>7 DEF LockInv

\* A command is proposed: the first of an acquire, and a release by one who is done.
LEMMA ProposeKeepsLock ==
  ASSUME LockInv, NEW o \in Owner, NEW asked \in Op, Propose(o, asked),
         NEW s, Moves(o, s),
         asked = "acquire" => tr[o].pc = "new" /\ s = "acquire",
         asked = "release" => tr[o].pc = "release" /\ s = "releasing"
  PROVE  LockInv'
<1> DEFINE c == [op |-> asked, owner |-> o, now |-> now]
<1> DEFINE n == Len(cmds)
<1>1. /\ now' = now /\ table' = table /\ cmds' = Append(cmds, c)
      /\ client' = [client EXCEPT ![o].call = asked, ![o].at = 0,
                      ![o].grant = IF asked = "release" THEN NoGrant ELSE @]
  BY DEF Propose
<1>2. cmds \in Seq(Command) /\ now \in Nat /\ n \in Nat
  BY DEF LockInv, LockTypeOK
<1>3. c \in Command
  BY <1>2 DEF Command
<1>4. c.op = asked /\ c.owner = o /\ c.now = now
  OBVIOUS
<1> HIDE DEF c
<1>5. cmds' \in Seq(Command) /\ Len(cmds') = n + 1 /\ cmds'[n+1] = c
  BY <1>1, <1>2, <1>3
<1>6. \A i \in 1..n : cmds'[i] = cmds[i]
  BY <1>1, <1>2, <1>3
<1> HIDE DEF n
<1>7. \A i \in 1..n+1 : (i \in 1..n /\ cmds'[i] = cmds[i]) \/ (i = n+1 /\ cmds'[i] = c)
  <2> TAKE i \in 1..n+1
  <2>1. i \in 1..n \/ i = n + 1
    BY <1>2
  <2>2. QED
    BY <2>1, <1>5, <1>6
<1>8. client' \in [Owner -> [call : Op \cup {"none"}, at : 0..Len(table),
                             grant : [token : Nat, expires : Nat]]]
  <2> DEFINE T == [call : Op \cup {"none"}, at : 0..Len(table),
                   grant : [token : Nat, expires : Nat]]
  <2> DEFINE r == [client[o] EXCEPT !.call = asked, !.at = 0,
                     !.grant = IF asked = "release" THEN NoGrant ELSE @]
  <2>1. NoGrant \in [token : Nat, expires : Nat]
    BY DEF NoGrant
  <2>2. 0 \in 0..Len(table)
    BY DEF LockInv, LockTypeOK
  <2>3. client \in [Owner -> T]
    BY DEF LockInv, LockTypeOK
  <2>4. client[o] \in T
    BY <2>3
  <2>5. r \in T
    BY <2>1, <2>2, <2>4
  <2>6. client' = [client EXCEPT ![o] = r]
    BY <1>1
  <2>7. QED
    BY <2>3, <2>5, <2>6
<1>9. LockTypeOK'
  BY <1>1, <1>5, <1>8 DEF LockInv, LockTypeOK
<1>10. s \in {"acquire", "releasing"} /\ tr[o].pc \in {"new", "release"}
  BY DEF Op
<1>11. Stages'
  BY <1>10 DEF LockInv, Stages, Stage, Moves
<1>12. Stamped'
  <2>1. now <= now
    BY <1>2
  <2>2. QED
    BY <2>1, <1>1, <1>4, <1>5, <1>7 DEF LockInv, Stamped, n
<1>13. Tokens'
  BY <1>1 DEF LockInv, Tokens
<1>14. \A q \in Owner : /\ Gone(q) => Gone(q)'
                        /\ tr'[q].pc # "new" <=> (tr[q].pc # "new" \/ q = o)
  BY <1>10 DEF Gone, Moves
<1>15. \A i \in 1..Len(table) : table[i] # Free => table[i].owner \in Owner
  BY DEF LockInv, LockTypeOK, Entry
<1>16. Succession'
  BY <1>1, <1>14, <1>15 DEF LockInv, Succession, Over
<1>17. asked = "release" => Gone(o)'
  BY DEF Gone, Moves
<1>18. asked = "acquire" => /\ \A i \in 1..n : cmds[i].owner # o
                         /\ \A k \in 1..Len(table) : table[k] # Free => table[k].owner # o
  BY DEF LockInv, AcquiresOnce, n
<1>19. AcquiresOnce'
  <2>1. \A i, j \in 1..n+1 :
       cmds'[i].op = "acquire" /\ cmds'[j].op = "acquire" /\ cmds'[i].owner = cmds'[j].owner
         => i = j
    BY <1>4, <1>7, <1>18 DEF LockInv, AcquiresOnce, n
  <2>2. \A i \in 1..n+1 :
       /\ tr'[cmds'[i].owner].pc # "new"
       /\ cmds'[i].op = "release" => tr'[cmds'[i].owner].pc \in {"releasing", "ok", "failed"}
       /\ cmds'[i].op = "acquire" =>
            \A k \in 1..Len(table) : table[k] # Free => table[k].owner # cmds'[i].owner
    <3> TAKE i \in 1..n+1
    <3>1. CASE i \in 1..n /\ cmds'[i] = cmds[i]
      BY <3>1, <1>14, CommandTypes DEF LockInv, AcquiresOnce, n, Gone
    <3>2. CASE i = n+1 /\ cmds'[i] = c
      BY <3>2, <1>4, <1>14, <1>17, <1>18 DEF Gone
    <3>3. QED
      BY <3>1, <3>2, <1>7
  <2>3. QED
    BY <2>1, <2>2, <1>1, <1>5, <1>14, <1>15 DEF LockInv, AcquiresOnce, Gone
<1>20. \A q \in Owner : /\ q # o => client'[q] = client[q]
                        /\ client'[q].grant = client[q].grant \/ client'[q].grant = NoGrant
  BY <1>1 DEF LockInv, LockTypeOK
<1>21. client'[o].call = asked
       /\ client'[o].grant = IF asked = "release" THEN NoGrant ELSE client[o].grant
  BY <1>1 DEF LockInv, LockTypeOK
<1>22. client'[o].grant = NoGrant
  BY <1>21 DEF LockInv, Grants, Op
<1>23. Grants'
  <2>1. \A q \in Owner : client'[q].grant # NoGrant =>
          q # o /\ client'[q] = client[q] /\ tr'[q].pc = tr[q].pc
    BY <1>20, <1>22 DEF Moves
  <2>2. table' = table
    BY <1>1
  <2>3. QED
    BY <2>1, <2>2 DEF LockInv, Grants
<1>24. LockCalls'
  <2>1. \A q \in Owner : q # o => tr'[q].pc = tr[q].pc /\ client'[q].call = client[q].call
    BY <1>20 DEF Moves
  <2>2. tr'[o].pc = s
    BY DEF Moves
  <2>3. asked = "acquire" \/ asked = "release"
    BY DEF Op
  <2>4. QED
    BY <1>21, <2>1, <2>2, <2>3 DEF LockInv, LockCalls
<1>25. QED
  BY <1>9, <1>11, <1>12, <1>13, <1>16, <1>19, <1>23, <1>24 DEF LockInv

ClientType == [Owner -> [call : Op \cup {"none"}, at : 0..Len(table),
                         grant : [token : Nat, expires : Nat]]]

\* A call ends, with a lease of the table or with nothing.
LEMMA EndKeepsLock ==
  ASSUME LockInv, NEW o \in Owner, NEW s, Moves(o, s),
         UNCHANGED <<now, cmds, table>>,
         NEW g \in [token : Nat, expires : Nat],
         client' \in ClientType, \A q \in Owner : q # o => client'[q] = client[q],
         client'[o].call = "none", client'[o].grant = g,
         tr[o].pc \in {"acquire", "releasing"}, s \in {"lookup", "ok", "failed"},
         tr[o].pc = "releasing" => s # "lookup",
         \/ g = NoGrant
         \/ s = "lookup" /\ \E i \in 1..Len(table) :
              /\ table[i] # Free /\ table[i].owner = o
              /\ g.token = table[i].token /\ g.expires = table[i].expires
  PROVE  LockInv'
<1>1. now' = now /\ cmds' = cmds /\ table' = table
  OBVIOUS
<1>5. LockTypeOK'
  BY <1>1 DEF LockInv, LockTypeOK, ClientType
<1>6. Stages' /\ Stamped' /\ Tokens'
  BY <1>1 DEF LockInv, Stages, Stage, Moves, Stamped, Tokens
<1>7. \A q \in Owner : (Gone(q) => Gone(q)') /\ (tr[q].pc # "new" => tr'[q].pc # "new")
  BY DEF Gone, Moves
<1>8. \A i \in 1..Len(table) : table[i] # Free => table[i].owner \in Owner
  BY DEF LockInv, LockTypeOK, Entry
<1>9. Succession'
  BY <1>1, <1>7, <1>8 DEF LockInv, Succession, Over
<1>10. AcquiresOnce'
  BY <1>1, <1>7, <1>8, CommandTypes DEF LockInv, AcquiresOnce
<1>11. \A q \in Owner : q # o => tr'[q].pc = tr[q].pc
  BY DEF Moves
<1>12. tr'[o].pc = s
  BY DEF Moves
<1>13. Grants'
  BY <1>1, <1>11, <1>12 DEF LockInv, Grants
<1>14. LockCalls'
  BY <1>11 DEF LockInv, LockCalls
<1>15. QED
  BY <1>5, <1>6, <1>9, <1>10, <1>13, <1>14 DEF LockInv

\* acquire and release return, with an answer or without one.
LEMMA GiveUpKeepsLock ==
  ASSUME LockInv, NEW o \in Owner, NEW s, Moves(o, s), GiveUp(o),
         tr[o].pc \in {"acquire", "releasing"}, s \in {"ok", "failed"}
  PROVE  LockInv'
<1>1. client[o].grant = NoGrant
  BY DEF LockInv, Grants
<1>2. client \in ClientType
  BY DEF LockInv, LockTypeOK, ClientType
<1>3. client' = [client EXCEPT ![o] = [client[o] EXCEPT !.call = "none", !.at = 0]]
  BY DEF GiveUp
<1>4. 0 \in 0..Len(table)
  BY DEF LockInv, LockTypeOK
<1>5. client' \in ClientType
  BY <1>2, <1>3, <1>4 DEF ClientType
<1>6. client'[o].call = "none" /\ client'[o].grant = client[o].grant
  BY <1>2, <1>3 DEF ClientType
<1>7. \A q \in Owner : q # o => client'[q] = client[q]
  BY <1>2, <1>3 DEF ClientType
<1>8. NoGrant \in [token : Nat, expires : Nat]
  BY DEF NoGrant
<1>9. UNCHANGED <<now, cmds, table>>
  BY DEF GiveUp
<1>10. QED
  BY <1>1, <1>5, <1>6, <1>7, <1>8, <1>9, EndKeepsLock

LEMMA ReturnsKeepsLock ==
  ASSUME LockInv, NEW o \in Owner, NEW s, Moves(o, s), Returns(o),
         \/ /\ tr[o].pc = "acquire"
            /\ s = IF client'[o].grant.token > 0 THEN "lookup" ELSE "failed"
         \/ tr[o].pc = "releasing" /\ s \in {"ok", "failed"}
  PROVE  LockInv'
<1>1. client[o].grant = NoGrant
  BY DEF LockInv, Grants
<1>2. client \in [Owner -> [call : Op \cup {"none"}, at : 0..Len(table),
                            grant : [token : Nat, expires : Nat]]]
  BY DEF LockInv, LockTypeOK
<1>3. UNCHANGED <<now, cmds, table>> /\ client[o].call # "none"
  BY DEF Returns
<1>4. tr[o].pc = "releasing" => client[o].call = "release"
  BY <1>2, <1>3 DEF LockInv, LockCalls, Op
<1>5. NoGrant \in [token : Nat, expires : Nat] /\ ~(NoGrant.token > 0)
  BY DEF NoGrant
<1>6. PICK i \in client[o].at..Len(table) :
        client' = [client EXCEPT ![o] =
          [call |-> "none", at |-> 0,
           grant |-> IF client[o].call # "release" /\ Granted(o, table[i])
                     THEN [token |-> table[i].token, expires |-> table[i].expires]
                     ELSE client[o].grant]]
  BY DEF Returns
<1>7. ASSUME NEW g \in [token : Nat, expires : Nat],
              client' = [client EXCEPT ![o] = [call |-> "none", at |-> 0, grant |-> g]]
       PROVE  /\ client' \in ClientType /\ \A q \in Owner : q # o => client'[q] = client[q]
              /\ client'[o].call = "none" /\ client'[o].grant = g
  <2>1. 0 \in 0..Len(table)
    BY DEF LockInv, LockTypeOK
  <2>2. [call |-> "none", at |-> 0, grant |-> g]
          \in [call : Op \cup {"none"}, at : 0..Len(table), grant : [token : Nat, expires : Nat]]
    BY <2>1
  <2>3. QED
    BY <1>2, <1>7, <2>2 DEF ClientType
<1>8. CASE client[o].call # "release" /\ Granted(o, table[i])
  <2> DEFINE g == [token |-> table[i].token, expires |-> table[i].expires]
  <2>1. i \in 1..Len(table)
    <3>1. client[o].at > 0
      BY DEF Returns
    <3>2. client[o].at \in Nat /\ Len(table) \in Nat
      BY <1>2 DEF LockInv, LockTypeOK
    <3>3. QED
      BY <3>1, <3>2
  <2>2. table[i] # Free /\ table[i].owner = o
    BY <1>8 DEF Granted
  <2>3. table[i].token \in Nat /\ table[i].token > 0 /\ table[i].expires \in Nat
    BY <2>1, <2>2 DEF LockInv, LockTypeOK, Entry, Tokens
  <2>4. g \in [token : Nat, expires : Nat] /\ g.token = table[i].token /\ g.expires = table[i].expires
    BY <2>3
  <2> HIDE DEF g
  <2>5. client' = [client EXCEPT ![o] = [call |-> "none", at |-> 0, grant |-> g]]
    BY <1>6, <1>8 DEF g
  <2>6. /\ client' \in ClientType /\ \A q \in Owner : q # o => client'[q] = client[q]
        /\ client'[o].call = "none" /\ client'[o].grant = g
    BY <2>4, <2>5, <1>7
  <2>7. s = "lookup" /\ tr[o].pc = "acquire"
    BY <1>4, <1>8, <2>3, <2>4, <2>6
  <2>8. QED
    BY <1>3, <2>1, <2>2, <2>4, <2>6, <2>7, EndKeepsLock
<1>9. CASE ~(client[o].call # "release" /\ Granted(o, table[i]))
  <2>1. client' = [client EXCEPT ![o] = [call |-> "none", at |-> 0, grant |-> NoGrant]]
    BY <1>1, <1>6, <1>9
  <2>2. /\ client' \in ClientType /\ \A q \in Owner : q # o => client'[q] = client[q]
        /\ client'[o].call = "none" /\ client'[o].grant = NoGrant
    BY <2>1, <1>5, <1>7
  <2>3. s \in {"ok", "failed"} /\ tr[o].pc \in {"acquire", "releasing"}
    BY <1>5, <2>2
  <2>4. QED
    BY <1>3, <1>5, <2>2, <2>3, EndKeepsLock
<1>10. QED
  BY <1>8, <1>9

\* What a command makes of the lock.
LEMMA Applied ==
  ASSUME LockInv, NEW lock \in {Free} \cup Entry, NEW c \in Command, NEW index \in Nat
  PROVE  /\ apply(lock, c, index) \in {Free} \cup Entry
         /\ \/ apply(lock, c, index) = lock \/ apply(lock, c, index) = Free
            \/ /\ c.op = "acquire" /\ apply(lock, c, index).owner = c.owner
               /\ apply(lock, c, index).token = index
         /\ apply(lock, c, index) # lock /\ lock # Free =>
              \/ c.now >= lock.expires
              \/ c.op = "acquire" /\ lock.owner = c.owner
              \/ c.op = "release" /\ lock.owner = c.owner
<1>1. /\ c.op \in Op /\ c.owner \in Owner /\ c.now \in Nat
  BY DEF Command
<1> DEFINE new == [owner |-> c.owner, expires |-> Lease(c), token |-> index]
<1>2. new \in Entry /\ new.owner = c.owner /\ new.token = index
  BY <1>1, DLockAssumption DEF Entry, Lease
<1> HIDE DEF new
<1>3. \/ apply(lock, c, index) = lock
      \/ apply(lock, c, index) = Free /\ c.op = "release" /\ lock.owner = c.owner
      \/ /\ apply(lock, c, index) = new /\ c.op = "acquire"
         /\ lock = Free \/ c.now >= lock.expires \/ lock.owner = c.owner
  BY DEF apply, new
<1>4. QED
  BY <1>2, <1>3

\* Commit(i): the log grows by a command, and those before it are lost.
LEMMA CommitKeepsLock ==
  ASSUME LockInv, NEW m \in 1..Len(cmds), Commit(m), tr' = tr
  PROVE  LockInv'
<1> DEFINE n == Len(table)
<1> DEFINE c == cmds[m]
<1> DEFINE lock == apply(Lock, c, n + 1)
<1> DEFINE rest == SubSeq(cmds, m + 1, Len(cmds))
<1>1. /\ table' = Append(table, lock) /\ cmds' = rest /\ now' = now
  BY DEF Commit
<1>2. /\ table \in Seq({Free} \cup Entry) /\ n \in Nat /\ n = Len(table)
      /\ cmds \in Seq(Command) /\ Len(cmds) \in Nat /\ m \in Nat /\ now \in Nat
  BY DEF LockInv, LockTypeOK
<1> HIDE DEF n
<1>3. c \in Command /\ c.op \in Op /\ c.owner \in Owner /\ c.now \in Nat /\ c.now <= now
  BY CommandTypes DEF LockInv, Stamped
<1>4. Lock \in {Free} \cup Entry /\ (n > 0 => Lock = table[n]) /\ (n = 0 => Lock = Free)
  BY <1>2 DEF Lock, Last, n
<1> HIDE DEF c
<1>5. /\ lock \in {Free} \cup Entry
      /\ \/ lock = Lock \/ lock = Free
         \/ c.op = "acquire" /\ lock.owner = c.owner /\ lock.token = n + 1
      /\ lock # Lock /\ Lock # Free =>
           \/ c.now >= Lock.expires
           \/ c.op = "acquire" /\ Lock.owner = c.owner
           \/ c.op = "release" /\ Lock.owner = c.owner
  <2>1. n + 1 \in Nat
    BY <1>2
  <2>2. QED
    BY <2>1, <1>3, <1>4, Applied
<1> HIDE DEF lock
<1>6. /\ table' \in Seq({Free} \cup Entry) /\ Len(table') = n + 1 /\ table'[n+1] = lock
      /\ \A i \in 1..n : table'[i] = table[i]
  BY <1>1, <1>2, <1>5
<1>7. /\ cmds' \in Seq(Command)
      /\ \A i \in 1..Len(cmds') : cmds'[i] = cmds[m + i] /\ m + i \in 1..Len(cmds)
  <2>1. \A i \in m+1..Len(cmds) : cmds[i] \in Command
    BY <1>2, CommandTypes
  <2>2. m + 1 \in Int /\ Len(cmds) \in Int
    BY <1>2
  <2>3. /\ rest \in Seq(Command)
        /\ Len(rest) = IF m + 1 <= Len(cmds) THEN Len(cmds) - (m + 1) + 1 ELSE 0
        /\ \A i \in 1..Len(cmds) - (m + 1) + 1 : rest[i] = cmds[m + 1 + i - 1]
    BY <2>1, <2>2, SubSeqProperties
  <2> HIDE DEF rest
  <2>4. ASSUME NEW i \in 1..Len(rest) PROVE rest[i] = cmds[m + i] /\ m + i \in 1..Len(cmds)
    <3>1. i \in 1..Len(cmds) - (m + 1) + 1 /\ m + 1 <= Len(cmds) /\ i \in Nat
      BY <1>2, <2>3
    <3>2. rest[i] = cmds[m + 1 + i - 1]
      BY <2>3, <3>1
    <3>3. m + 1 + i - 1 = m + i /\ m + i \in 1..Len(cmds)
      BY <1>2, <3>1
    <3>4. QED
      BY <3>2, <3>3
  <2>5. QED
    BY <1>1, <2>3, <2>4
<1> HIDE DEF rest
<1>8. \A i \in 1..n+1 : (i \in 1..n /\ table'[i] = table[i]) \/ (i = n+1 /\ table'[i] = lock)
  <2> TAKE i \in 1..n+1
  <2>1. i \in 1..n \/ i = n + 1
    BY <1>2
  <2>2. QED
    BY <2>1, <1>6
<1>9. LockTypeOK'
  <2>1. \A q \in Owner : client'[q] = client[q] \/ client'[q] = [client[q] EXCEPT !.at = n + 1]
    BY <1>2 DEF Commit
  <2>2. client \in ClientType
    BY DEF LockInv, LockTypeOK, ClientType
  <2>3. \A q \in Owner : client'[q] \in [call : Op \cup {"none"}, at : 0..n+1,
                                        grant : [token : Nat, expires : Nat]]
    <3> TAKE q \in Owner
    <3>1. client[q] \in [call : Op \cup {"none"}, at : 0..n, grant : [token : Nat, expires : Nat]]
      BY <1>2, <2>2 DEF ClientType
    <3>2. 0..n \subseteq 0..n+1 /\ n + 1 \in 0..n+1
      BY <1>2
    <3>3. QED
      BY <2>1, <3>1, <3>2
  <2>4. client' = [q \in Owner |-> client'[q]]
    BY DEF Commit
  <2>5. client' \in [Owner -> [call : Op \cup {"none"}, at : 0..n+1,
                               grant : [token : Nat, expires : Nat]]]
    BY <2>3, <2>4
  <2>6. QED
    BY <1>1, <1>2, <1>6, <1>7, <2>5 DEF LockTypeOK
<1>10. \A q \in Owner : client'[q].call = client[q].call /\ client'[q].grant = client[q].grant
  BY DEF Commit, LockInv, LockTypeOK
<1>11. Stages'
  BY DEF LockInv, Stages
<1>12. Stamped'
  BY <1>1, <1>7 DEF LockInv, Stamped
<1>13. Tokens'
  <2> SUFFICES ASSUME NEW i \in 1..n+1, table'[i] # Free
               PROVE  table'[i].token \in 1..i /\ table'[table'[i].token] = table'[i]
    BY <1>6 DEF Tokens
  <2>1. ASSUME NEW k \in 1..n, table[k] # Free
        PROVE  /\ table[k].token \in 1..k /\ table'[table[k].token] = table[k]
    <3>1. table[k].token \in 1..k /\ table[table[k].token] = table[k]
      BY <1>2, <2>1 DEF LockInv, Tokens
    <3>2. table[k].token \in 1..n
      BY <1>2, <3>1
    <3>3. QED
      BY <1>6, <3>1, <3>2
  <2>2. CASE i \in 1..n /\ table'[i] = table[i]
    BY <2>1, <2>2
  <2>3. CASE i = n+1 /\ table'[i] = lock /\ lock = Lock
    <3>1. n \in 1..n /\ Lock = table[n] /\ table[n] # Free
      BY <1>2, <1>4, <2>3
    <3>2. table[n].token \in 1..n /\ table'[table[n].token] = table[n]
      BY <2>1, <3>1
    <3>3. table[n].token \in 1..i
      BY <1>2, <2>3, <3>2
    <3>4. QED
      BY <2>3, <3>1, <3>2, <3>3
  <2>4. CASE i = n+1 /\ table'[i] = lock /\ lock.token = n+1
    BY <1>2, <1>6, <2>4
  <2>5. QED
    BY <1>5, <1>8, <2>2, <2>3, <2>4
<1>14. Succession'
  <2> SUFFICES ASSUME NEW i \in 1..n+1, NEW j \in 1..n+1,
                      i < j, table'[i] # Free, table'[j] # table'[i]
               PROVE  Over(table'[i])
    BY <1>1, <1>6 DEF Succession, Over, Gone
  <2>1. i \in 1..n /\ table'[i] = table[i] /\ i < n + 1
    BY <1>2, <1>6
  <2>2. Over(table[i]) => Over(table'[i])
    BY <2>1
  <2>3. CASE j \in 1..n /\ table'[j] = table[j]
    BY <1>2, <2>1, <2>2, <2>3 DEF LockInv, Succession
  <2>4. CASE j = n+1 /\ table'[j] = lock
    <3>1. n \in 1..n /\ Lock = table[n] /\ (i < n \/ i = n)
      BY <1>2, <1>4, <2>1
    <3>2. CASE table[n] # table[i]
      BY <1>2, <2>1, <2>2, <3>1, <3>2 DEF LockInv, Succession
    <3>3. CASE table[n] = table[i]
      <4>1. lock # Lock /\ Lock # Free /\ Lock = table[i]
        BY <2>1, <2>4, <3>1, <3>3
      <4>2. table[i].owner \in Owner /\ table[i].expires \in Nat
        BY <1>2, <2>1, <4>1 DEF Entry
      <4>3. ~(c.op = "acquire" /\ Lock.owner = c.owner)
        BY <1>2, <2>1, <4>1 DEF LockInv, AcquiresOnce, c
      <4>4. CASE c.now >= Lock.expires
        <5>1. table[i].expires <= now
          BY <1>2, <1>3, <4>1, <4>2, <4>4
        <5>2. QED
          BY <2>2, <5>1 DEF Over
      <4>5. CASE c.op = "release" /\ Lock.owner = c.owner
        <5>1. Gone(table[i].owner)
          BY <4>1, <4>5 DEF LockInv, AcquiresOnce, c
        <5>2. QED
          BY <2>2, <5>1 DEF Over
      <4>6. QED
        BY <1>5, <4>1, <4>3, <4>4, <4>5
    <3>4. QED
      BY <3>2, <3>3
  <2>5. QED
    BY <1>8, <2>3, <2>4
<1>15. AcquiresOnce'
  <2>1. \A i, j \in 1..Len(cmds') :
          cmds'[i].op = "acquire" /\ cmds'[j].op = "acquire" /\ cmds'[i].owner = cmds'[j].owner
            => i = j
    <3> SUFFICES ASSUME NEW i \in 1..Len(cmds'), NEW j \in 1..Len(cmds'),
                        cmds'[i].op = "acquire", cmds'[j].op = "acquire",
                        cmds'[i].owner = cmds'[j].owner
                 PROVE  i = j
      OBVIOUS
    <3>1. m + i = m + j
      BY <1>7 DEF LockInv, AcquiresOnce
    <3>2. QED
      BY <1>2, <1>7, <3>1
  <2>2. ASSUME NEW k \in 1..n+1, table'[k] # Free
        PROVE  \/ \E h \in 1..n : table[h] # Free /\ table'[k].owner = table[h].owner
               \/ c.op = "acquire" /\ table'[k].owner = c.owner
    <3>1. CASE k \in 1..n /\ table'[k] = table[k]
      BY <2>2, <3>1
    <3>2. CASE k = n+1 /\ table'[k] = lock
      <4>1. lock = Lock => n \in 1..n /\ Lock = table[n]
        BY <1>2, <1>4, <2>2, <3>2
      <4>2. QED
        BY <1>5, <2>2, <3>2, <4>1
    <3>3. QED
      BY <1>8, <3>1, <3>2
  <2>3. ASSUME NEW i \in 1..Len(cmds')
        PROVE  /\ tr'[cmds'[i].owner].pc # "new"
               /\ cmds'[i].op = "release" => tr'[cmds'[i].owner].pc \in {"releasing", "ok", "failed"}
               /\ cmds'[i].op = "acquire" =>
                    \A k \in 1..n+1 : table'[k] # Free => table'[k].owner # cmds'[i].owner
    <3>1. cmds'[i] = cmds[m + i] /\ m + i \in 1..Len(cmds) /\ m + i # m
      BY <1>2, <1>7
    <3>2. /\ tr[cmds[m + i].owner].pc # "new"
          /\ cmds[m + i].op = "release" => Gone(cmds[m + i].owner)
      BY <3>1 DEF LockInv, AcquiresOnce
    <3>3. cmds[m + i].op = "acquire" =>
            /\ \A h \in 1..n : table[h] # Free => table[h].owner # cmds[m + i].owner
            /\ ~(c.op = "acquire" /\ c.owner = cmds[m + i].owner)
      BY <1>2, <3>1 DEF LockInv, AcquiresOnce, c
    <3>4. QED
      BY <2>2, <3>1, <3>2, <3>3 DEF Gone
  <2>4. \A k \in 1..n+1 : table'[k] # Free => tr'[table'[k].owner].pc # "new"
    BY <1>2, <2>2 DEF LockInv, AcquiresOnce, c
  <2>5. QED
    BY <1>6, <2>1, <2>3, <2>4 DEF AcquiresOnce, Gone
<1>16. Grants'
  BY <1>2, <1>6, <1>10 DEF LockInv, Grants
<1>17. LockCalls'
  BY <1>10 DEF LockInv, LockCalls
<1>18. QED
  BY <1>9, <1>11, <1>12, <1>13, <1>14, <1>15, <1>16, <1>17 DEF LockInv

-----------------------------------------------------------------------------
(* The inductive invariant of the sessions. *)

TransferType ==
  [pc : Stage, dest : {"arena", InHub}, token : Nat, ref : 0..MaxSessions, failed : BOOLEAN]

Attached(e) == ws[e] \in {"spawned", "open"}

\* A player has one actor at a time.
OneLive == \A d, e \in Session : Attached(d) /\ Attached(e) => d = e

\* Connections that are referred to have begun.
Begun(e) == e \in Session => ws[e] # "none"
Refs ==
  /\ Begun(reg)
  /\ \A o \in Owner : Begun(tr[o].ref) /\ (tr[o].pc \in {"ask", "audit"} => tr[o].ref # 0)
  /\ \A i \in 1..Len(audit) : Begun(audit[i].ref)

\* An order in the mailbox is one whose transfer waits for the answer of this
\* session, or has given up waiting.
Queue ==
  /\ mailbox # <<>> => Connected # 0
  /\ \A i \in 1..Len(mailbox) :
       \/ mailbox[i] \in late
       \/ /\ tr[mailbox[i]].pc = "ask" /\ tr[mailbox[i]].ref = Connected
          /\ reply[mailbox[i]] = "none"
  /\ \A i, j \in 1..Len(mailbox) : mailbox[i] = mailbox[j] => i = j

Past == {"release", "releasing", "ok", "failed"}

\* Answers are for those who ask; who has timed out is past that, and so is who has told;
\* who goes on has a token.
Asking ==
  /\ \A i \in 1..Len(audit) : tr[audit[i].by].pc \in Past
  /\ \A o \in Owner :
       /\ reply[o] # "none" => tr[o].pc = "ask"
       /\ o \in late \/ tr[o].failed => tr[o].pc \in Past
       /\ tr[o].pc \in {"lookup", "ask", "audit"} => tr[o].token > 0

\* The live session has carried the order out, and the transfer has not yet told.
Delivered(o) ==
  /\ tr[o].ref = Connected
  /\ tr[o].pc = "audit" \/ (tr[o].pc = "ask" /\ reply[o] = "ok")

\* The i-th audit event is about the live session.
Here(i) == audit[i].ref = Connected

\* The token of the session is the largest it has seen ...
Largest ==
  Connected # 0 =>
    /\ \A o \in Owner : Delivered(o) => tr[o].token <= session.token
    /\ \A i \in 1..Len(audit) :
         Here(i) => audit[i].token <= session.token /\ audit[i].token > 0

\* It went through; its release may not be over.
Through(t) == t.pc \in {"release", "releasing", "ok"} /\ ~t.failed

\* ... and could not be written down.
Unwritten(o) == Through(tr[o]) /\ \A i \in 1..Len(audit) : audit[i].by # o

\* ... and comes from a transfer that has told or will tell, unless it was too late or
\* could not.
From(o) ==
  /\ tr[o].pc \notin {"new", "acquire"}
  /\ session.token = tr[o].token /\ session.place = Where(o)
  /\ \/ o \in late
     \/ Delivered(o)
     \/ Unwritten(o)
     \/ \E i \in 1..Len(audit) :
          Here(i) /\ audit[i].by = o /\ audit[i].token = tr[o].token
Source == Connected # 0 => session = Fresh \/ \E o \in Owner : From(o)

\* The parts of HandoffTypeOK beside the lock.
TransferTypes ==
  /\ tr \in [Owner -> TransferType]
  /\ ws \in [Session -> {"none", "spawned", "lost", "open", "stopped", "cleaned"}]
  /\ reg \in 0..MaxSessions
  /\ session \in [token : Nat, place : {InHub} \cup Owner]
  /\ mailbox \in Seq(Owner)
  /\ reply \in [Owner -> {"none", "ok", "stale"}]
  /\ audit \in Seq([by : Owner, token : Nat, ref : Session])
  /\ late \subseteq Owner /\ Cardinality(late) <= MaxLate

SessionInv == TransferTypes /\ OneLive /\ Refs /\ Queue /\ Asking /\ Largest /\ Source

-----------------------------------------------------------------------------

LEMMA HandoffTypes == LockInv /\ TransferTypes => HandoffTypeOK
  BY DEF LockInv, TransferTypes, HandoffTypeOK, TransferType, Stage

LEMMA AuditTypes ==
  ASSUME TransferTypes, NEW i \in 1..Len(audit)
  PROVE  audit[i].by \in Owner /\ audit[i].token \in Nat /\ audit[i].ref \in Session
<1> DEFINE T == [by : Owner, token : Nat, ref : Session]
<1>1. audit \in Seq(T)
  BY DEF TransferTypes
<1> HIDE DEF T
<1>2. audit[i] \in T
  BY <1>1, ElementOfSeq
<1>3. QED
  BY <1>2 DEF T

LEMMA ConnectedIs ==
  ASSUME SessionInv
  PROVE  /\ Connected \in 0..MaxSessions
         /\ \A e \in Session : Attached(e) <=> Connected = e
<1>1. \A e \in Session : e \in 0..MaxSessions /\ e # 0
  BY HandoffAssumption DEF Session
<1>2. CASE \E e \in Session : Attached(e)
  <2>1. Connected \in Session /\ Attached(Connected)
    BY <1>2 DEF Connected, Attached
  <2>2. QED
    BY <1>1, <2>1 DEF SessionInv, OneLive
<1>3. CASE ~\E e \in Session : Attached(e)
  <2>1. Connected = 0
    BY <1>3 DEF Connected, Attached
  <2>2. 0 \in 0..MaxSessions
    BY HandoffAssumption
  <2>3. QED
    BY <1>1, <1>3, <2>1, <2>2
<1>4. QED
  BY <1>2, <1>3

\* AuditTellsPlace follows: the largest token told is at most that of the session.
LEMMA SessionInvSuffices == SessionInv => AuditTellsPlace
<1> DEFINE here == {i \in 1..Len(audit) : audit[i].ref = Connected}
<1> DEFINE NoneAbove(token) == \A i \in here : audit[i].token <= token
<1> SUFFICES ASSUME SessionInv, Connected # 0,
                    \A o \in Owner : tr[o].pc \in {"new", "ok", "failed"}
             PROVE  \/ here = {} /\ session.place = InHub
                    \/ \E i \in here : /\ NoneAbove(audit[i].token)
                                       /\ session.place = Where(audit[i].by)
                    \/ \E o \in late \cup Untold : /\ NoneAbove(tr[o].token)
                                                   /\ session.place = Where(o)
  BY DEF AuditTellsPlace
<1>1. \A o \in Owner : ~Delivered(o)
  BY DEF Delivered
<1>2. CASE session = Fresh
  <2>1. session.token = 0 /\ session.place = InHub
    BY <1>2 DEF Fresh
  <2>2. \A i \in here : audit[i].token \in Nat
    BY AuditTypes DEF SessionInv
  <2>3. here = {}
    BY <2>1, <2>2 DEF SessionInv, Largest, Here
  <2>4. QED
    BY <2>1, <2>3
<1>3. CASE \E o \in Owner : From(o)
  <2>1. PICK o \in Owner : From(o)
    BY <1>3
  <2>2. NoneAbove(session.token)
    BY DEF SessionInv, Largest, Here
  <2>3. session.token = tr[o].token /\ session.place = Where(o)
    BY <2>1 DEF From
  <2>4. CASE o \in late
    BY <2>2, <2>3, <2>4
  <2>5. CASE Unwritten(o)
    <3>1. o \in Untold
      BY <2>5 DEF Unwritten, Through, Untold
    <3>2. QED
      BY <2>2, <2>3, <3>1
  <2>6. CASE \E i \in 1..Len(audit) :
               Here(i) /\ audit[i].by = o /\ audit[i].token = tr[o].token
    <3>1. PICK i \in here : audit[i].by = o /\ audit[i].token = session.token
      BY <2>3, <2>6 DEF Here
    <3>2. NoneAbove(audit[i].token) /\ session.place = Where(audit[i].by)
      BY <2>2, <2>3, <3>1
    <3>3. QED
      BY <3>2
  <2>7. QED
    BY <1>1, <2>1, <2>4, <2>5, <2>6 DEF From
<1>4. QED
  BY <1>2, <1>3 DEF SessionInv, Source

LEMMA SessionInvInit == HandoffInit => SessionInv
<1> SUFFICES ASSUME HandoffInit PROVE SessionInv
  OBVIOUS
<1>1. TransferTypes
  <2>1. Cardinality({}) <= MaxLate
    BY FS_EmptySet, HandoffAssumption
  <2>2. QED
    BY <2>1, HandoffAssumption DEF HandoffInit, TransferTypes, TransferType, Stage, Fresh
<1>2. \A e \in Session : ~Attached(e)
  BY DEF HandoffInit, Attached
<1>3. Connected = 0
  BY <1>2 DEF Connected, Attached
<1>4. OneLive
  BY <1>2 DEF OneLive
<1>5. Refs
  <2>1. 0 \notin Session
    BY HandoffAssumption DEF Session
  <2>2. QED
    BY <2>1 DEF HandoffInit, Refs, Begun
<1>6. Queue /\ Asking
  BY DEF HandoffInit, Queue, Asking
<1>7. Largest /\ Source
  BY <1>3 DEF Largest, Source
<1>8. QED
  BY <1>1, <1>4, <1>5, <1>6, <1>7 DEF SessionInv

-----------------------------------------------------------------------------
(* SessionInv is inductive: the lock. *)

\* The transfer o takes a step; the others do not.
Steps(o, s) ==
  /\ tr' \in [Owner -> TransferType]
  /\ tr'[o].pc = s
  /\ \A q \in Owner : q # o => tr'[q] = tr[q]

LEMMA StepsMoves ==
  ASSUME NEW o \in Owner, NEW s, Steps(o, s)
  PROVE  Moves(o, s)
  BY DEF Steps, Moves

\* A step that asks or tells nothing.
LEMMA LockStepKeeps ==
  ASSUME SessionInv, NEW o \in Owner, NEW s \in Stage \ {"ask", "audit"}, Steps(o, s),
         UNCHANGED <<sessVars, audit, late>>,
         tr[o].pc \notin {"ask", "audit"}, tr'[o].ref = tr[o].ref,
         tr'[o].failed = tr[o].failed,
         tr[o].pc \notin {"new", "acquire"} =>
           /\ s \notin {"new", "acquire"}
           /\ tr'[o].token = tr[o].token /\ tr'[o].dest = tr[o].dest,
         tr[o].pc \in Past => s \in Past,
         Through(tr[o]) => Through(tr'[o]),
         s = "lookup" => tr'[o].token > 0
  PROVE  SessionInv'
<1>1. /\ ws' = ws /\ reg' = reg /\ session' = session /\ mailbox' = mailbox /\ reply' = reply
      /\ audit' = audit /\ late' = late /\ Connected' = Connected
  BY DEF sessVars, Connected
<1>2. \A q \in Owner : q # o => tr'[q] = tr[q]
  BY DEF Steps
<1>3. TransferTypes'
  BY <1>1 DEF SessionInv, TransferTypes, Steps
<1>4. OneLive'
  BY <1>1 DEF SessionInv, OneLive, Attached
<1>5. Refs'
  BY <1>1, <1>2 DEF SessionInv, Refs, Begun, Steps
<1>6. \A i \in 1..Len(mailbox) : mailbox[i] \in Owner
  BY DEF SessionInv, TransferTypes
<1>7. Queue'
  BY <1>1, <1>2, <1>6 DEF SessionInv, Queue
<1>8. Asking'
  <2>1. \A i \in 1..Len(audit) : audit[i].by \in Owner
    BY AuditTypes DEF SessionInv
  <2>2. QED
    BY <1>1, <1>2, <2>1 DEF SessionInv, Asking, Steps, Past
<1>9. \A q \in Owner : Delivered(q)' <=> Delivered(q)
  BY <1>1, <1>2 DEF Delivered, Steps
<1>10. \A i \in 1..Len(audit) : Here(i)' <=> Here(i)
  BY <1>1 DEF Here
<1>11. ~Delivered(o)
  BY DEF Delivered
<1>12. Largest'
  BY <1>1, <1>2, <1>9, <1>10, <1>11 DEF SessionInv, Largest
<1>13. \A q \in Owner : From(q) => From(q)'
  <2>1. \A q \in Owner : Unwritten(q) => Unwritten(q)'
    BY <1>1, <1>2 DEF Unwritten
  <2>2. QED
    BY <1>1, <1>2, <1>9, <1>10, <2>1 DEF From, Where, Steps
<1>14. Source'
  BY <1>1, <1>13 DEF SessionInv, Source, Fresh
<1>15. QED
  BY <1>3, <1>4, <1>5, <1>7, <1>8, <1>12, <1>14 DEF SessionInv

HandoffInv == LockInv /\ SessionInv

LEMMA TrType == ASSUME SessionInv, NEW o \in Owner
                PROVE  /\ tr \in [Owner -> TransferType] /\ tr[o] \in TransferType
  BY DEF SessionInv, TransferTypes

LEMMA StartKeeps ==
  ASSUME HandoffInv, NEW o \in Owner, NEW dest \in {"arena", InHub}, Start(o, dest)
  PROVE  HandoffInv'
<1>1. tr[o].pc = "new" /\ Propose(o, "acquire") /\ UNCHANGED <<sessVars, audit, late>>
  BY DEF Start
<1>2. Steps(o, "acquire") /\ tr'[o].ref = tr[o].ref /\ tr'[o].failed = tr[o].failed
  BY TrType DEF Start, Steps, TransferType, Stage, HandoffInv
<1>3. LockInv'
  BY <1>1, <1>2, StepsMoves, ProposeKeepsLock DEF HandoffInv, Op
<1>4. SessionInv'
  <2>1. ~Through(tr[o])
    BY <1>1 DEF Through
  <2>2. QED
    BY <1>1, <1>2, <2>1, LockStepKeeps DEF HandoffInv, Stage, Past
<1>5. QED
  BY <1>3, <1>4 DEF HandoffInv

LEMMA AcquiredKeeps ==
  ASSUME HandoffInv, NEW o \in Owner, Acquired(o)
  PROVE  HandoffInv'
<1> DEFINE token == client'[o].grant.token
<1> DEFINE s == IF token > 0 THEN "lookup" ELSE "failed"
<1>1. tr[o].pc = "acquire" /\ Returns(o) /\ UNCHANGED <<sessVars, audit, late>>
  BY DEF Acquired
<1>2. tr' = [tr EXCEPT ![o].pc = s, ![o].token = token]
  BY DEF Acquired
<1>3. \A q \in Owner : tr'[q].pc = IF q = o THEN s ELSE tr[q].pc
  BY <1>2, TrType DEF TransferType, HandoffInv
<1>4. LockInv'
  BY <1>1, <1>3, ReturnsKeepsLock DEF HandoffInv, Moves
<1>5. token \in Nat
  BY <1>4 DEF LockInv, LockTypeOK
<1>6. s \in Stage \ {"ask", "audit"} /\ (s = "lookup" => token > 0)
  BY DEF Stage
<1> HIDE DEF token, s
<1>7. /\ Steps(o, s) /\ tr'[o].ref = tr[o].ref /\ tr'[o].token = token
      /\ tr'[o].failed = tr[o].failed
  BY <1>2, <1>5, <1>6, TrType DEF Steps, TransferType, HandoffInv
<1>8. SessionInv'
  <2>1. ~Through(tr[o])
    BY <1>1 DEF Through
  <2>2. QED
    BY <1>1, <1>6, <1>7, <2>1, LockStepKeeps DEF HandoffInv, Past
<1>9. QED
  BY <1>4, <1>8 DEF HandoffInv

LEMMA AcquireFailsKeeps ==
  ASSUME HandoffInv, NEW o \in Owner, AcquireFails(o)
  PROVE  HandoffInv'
<1>1. tr[o].pc = "acquire" /\ GiveUp(o) /\ UNCHANGED <<sessVars, audit, late>>
  BY DEF AcquireFails
<1>2. Steps(o, "failed") /\ tr'[o].ref = tr[o].ref /\ tr'[o].failed = tr[o].failed
  BY TrType DEF AcquireFails, Steps, TransferType, Stage, HandoffInv
<1>3. LockInv'
  BY <1>1, <1>2, StepsMoves, GiveUpKeepsLock DEF HandoffInv
<1>4. SessionInv'
  <2>1. ~Through(tr[o])
    BY <1>1 DEF Through
  <2>2. QED
    BY <1>1, <1>2, <2>1, LockStepKeeps DEF HandoffInv, Stage, Past
<1>5. QED
  BY <1>3, <1>4 DEF HandoffInv

LEMMA ReleaseLockKeeps ==
  ASSUME HandoffInv, NEW o \in Owner, ReleaseLock(o)
  PROVE  HandoffInv'
<1>1. tr[o].pc = "release" /\ Propose(o, "release") /\ UNCHANGED <<sessVars, audit, late>>
  BY DEF ReleaseLock
<1>2. /\ Steps(o, "releasing") /\ tr'[o].ref = tr[o].ref
      /\ tr'[o].token = tr[o].token /\ tr'[o].dest = tr[o].dest /\ tr'[o].failed = tr[o].failed
  BY TrType DEF ReleaseLock, Steps, TransferType, Stage, HandoffInv
<1>3. LockInv'
  BY <1>1, <1>2, StepsMoves, ProposeKeepsLock DEF HandoffInv, Op
<1>4. SessionInv'
  <2>1. Through(tr[o]) => Through(tr'[o])
    BY <1>2 DEF Through, Steps
  <2>2. QED
    BY <1>1, <1>2, <2>1, LockStepKeeps DEF HandoffInv, Stage, Past
<1>5. QED
  BY <1>3, <1>4 DEF HandoffInv

LEMMA ReleasedKeeps ==
  ASSUME HandoffInv, NEW o \in Owner, Released(o)
  PROVE  HandoffInv'
<1> DEFINE s == IF tr[o].failed THEN "failed" ELSE "ok"
<1>1. tr[o].pc = "releasing" /\ (Returns(o) \/ GiveUp(o)) /\ UNCHANGED <<sessVars, audit, late>>
  BY DEF Released
<1>2. tr' = [tr EXCEPT ![o].pc = s]
  BY DEF Released
<1>3. s \in {"ok", "failed"} /\ (~tr[o].failed => s = "ok")
  OBVIOUS
<1> HIDE DEF s
<1>4. /\ Steps(o, s) /\ tr'[o].ref = tr[o].ref
      /\ tr'[o].token = tr[o].token /\ tr'[o].dest = tr[o].dest /\ tr'[o].failed = tr[o].failed
  BY <1>2, <1>3, TrType DEF Steps, TransferType, Stage, HandoffInv
<1>5. LockInv'
  BY <1>1, <1>3, <1>4, StepsMoves, ReturnsKeepsLock, GiveUpKeepsLock DEF HandoffInv
<1>6. SessionInv'
  <2>1. Through(tr[o]) => Through(tr'[o])
    BY <1>3, <1>4 DEF Through, Steps
  <2>2. QED
    BY <1>1, <1>3, <1>4, <2>1, LockStepKeeps DEF HandoffInv, Stage, Past
<1>7. QED
  BY <1>5, <1>6 DEF HandoffInv

-----------------------------------------------------------------------------
(* SessionInv is inductive: the connections. *)

\* What the goroutines of handleWS do to the rest: the mailbox is emptied with the
\* end of an actor and with the beginning of the next.
LEMMA ConnectionKeeps ==
  ASSUME HandoffInv, NEW e \in Session,
         UNCHANGED <<lockVars, tr, reply, audit, late>>,
         NEW w \in {"spawned", "lost", "open", "stopped", "cleaned"},
         ws' = [ws EXCEPT ![e] = w],
         reg' \in {reg, e, 0},
         \/ UNCHANGED <<session, mailbox>> /\ (Attached(e) <=> w \in {"spawned", "open"})
         \/ /\ session' = Fresh /\ mailbox' = <<>>
            /\ \/ Attached(e) /\ w \notin {"spawned", "open"}
               \/ Connected = 0 /\ ws[e] = "none"
  PROVE  HandoffInv'
<1>1. LockInv'
  BY MiddleKeepsLock DEF HandoffInv, lockVars
<1>2. /\ tr' = tr /\ reply' = reply /\ audit' = audit /\ late' = late
      /\ ws \in [Session -> {"none", "spawned", "lost", "open", "stopped", "cleaned"}]
  BY DEF HandoffInv, SessionInv, TransferTypes
<1>3. /\ ws' \in [Session -> {"none", "spawned", "lost", "open", "stopped", "cleaned"}]
      /\ ws'[e] = w /\ \A d \in Session : d # e => ws'[d] = ws[d]
  BY <1>2
<1>4. e \in 0..MaxSessions /\ 0 \in 0..MaxSessions /\ e # 0 /\ 0 \notin Session
  BY HandoffAssumption DEF Session
<1>5. TransferTypes'
  <2>1. reg' \in 0..MaxSessions
    BY <1>4 DEF HandoffInv, SessionInv, TransferTypes
  <2>2. Fresh \in [token : Nat, place : {InHub} \cup Owner] /\ <<>> \in Seq(Owner)
    BY DEF Fresh
  <2>3. /\ session' \in [token : Nat, place : {InHub} \cup Owner]
        /\ mailbox' \in Seq(Owner)
    BY <2>2 DEF HandoffInv, SessionInv, TransferTypes
  <2>4. QED
    BY <1>2, <1>3, <2>1, <2>3 DEF HandoffInv, SessionInv, TransferTypes
<1>6. \A d \in Session : (Attached(d) <=> Connected = d)
  BY ConnectedIs DEF HandoffInv
<1>7. \A d \in Session : d # e => (Attached(d)' <=> Attached(d))
  BY <1>3 DEF Attached
<1>8. Attached(e)' <=> w \in {"spawned", "open"}
  BY <1>3 DEF Attached
<1>9. OneLive'
  BY <1>4, <1>6, <1>7, <1>8 DEF HandoffInv, SessionInv, OneLive
<1>10. Refs'
  BY <1>2, <1>3, <1>4 DEF HandoffInv, SessionInv, Refs, Begun
<1>11. Asking'
  BY <1>2 DEF HandoffInv, SessionInv, Asking
<1>12. CASE UNCHANGED <<session, mailbox>> /\ (Attached(e) <=> w \in {"spawned", "open"})
  <2>1. \A d \in Session : Attached(d)' <=> Attached(d)
    BY <1>7, <1>8, <1>12
  <2>2. Connected' = Connected
    BY <2>1 DEF Connected, Attached
  <2>3. Queue' /\ Largest' /\ Source'
    BY <1>2, <1>12, <2>2
    DEF HandoffInv, SessionInv, Queue, Largest, Source, Delivered, Unwritten, Here, From,
        Where, Fresh
  <2>4. QED
    BY <1>1, <1>5, <1>9, <1>10, <1>11, <2>3 DEF HandoffInv, SessionInv
<1>13. CASE session' = Fresh /\ mailbox' = <<>> /\ Attached(e) /\ w \notin {"spawned", "open"}
  <2>1. \A d \in Session : ~Attached(d)'
    BY <1>4, <1>6, <1>7, <1>8, <1>13
  <2>2. Connected' = 0
    BY <2>1 DEF Connected, Attached
  <2>3. Queue' /\ Largest' /\ Source'
    BY <1>13, <2>2 DEF Queue, Largest, Source
  <2>4. QED
    BY <1>1, <1>5, <1>9, <1>10, <1>11, <2>3 DEF HandoffInv, SessionInv
<1>14. CASE session' = Fresh /\ mailbox' = <<>> /\ Connected = 0 /\ ws[e] = "none"
  <2>1. Connected' = e \/ Connected' = 0
    <3>1. \A d \in Session : d # e => ~Attached(d)'
      BY <1>4, <1>6, <1>7, <1>14
    <3>2. QED
      BY <3>1 DEF Connected, Attached
  <2>2. \A o \in Owner : tr[o].ref # e
    BY <1>14 DEF HandoffInv, SessionInv, Refs, Begun
  <2>3. \A i \in 1..Len(audit) : audit[i].ref # e
    BY <1>14 DEF HandoffInv, SessionInv, Refs, Begun
  <2>4. Queue'
    BY <1>14 DEF Queue
  <2>5. Source' /\ (Connected' # 0 => Connected' = e)
    BY <1>14, <2>1 DEF Source, Fresh
  <2>6. Connected' # 0 => \A o \in Owner : ~Delivered(o)'
    BY <1>2, <2>2, <2>5 DEF Delivered
  <2>7. Connected' # 0 => \A i \in 1..Len(audit) : ~Here(i)'
    BY <1>2, <2>3, <2>5 DEF Here
  <2>8. Largest'
    BY <1>2, <2>6, <2>7 DEF Largest
  <2>9. QED
    BY <1>1, <1>5, <1>9, <1>10, <1>11, <2>4, <2>5, <2>8 DEF HandoffInv, SessionInv
<1>15. QED
  BY <1>12, <1>13, <1>14

LEMMA SpawnKeeps ==
  ASSUME HandoffInv, NEW e \in Session, Spawn(e) \/ Register(e) \/ HangUp(e) \/ Cleanup(e)
  PROVE  HandoffInv'
<1>1. CASE Spawn(e)
  BY <1>1, ConnectionKeeps DEF Spawn
<1>2. CASE Register(e)
  <2>1. ws' = [ws EXCEPT ![e] = IF ws[e] = "spawned" THEN "open" ELSE "stopped"]
        /\ ws[e] \in {"spawned", "lost"} /\ reg' = e
        /\ UNCHANGED <<lockVars, tr, session, mailbox, reply, audit, late>>
    BY <1>2 DEF Register
  <2>2. CASE ws[e] = "spawned"
    <3>1. ws' = [ws EXCEPT ![e] = "open"] /\ Attached(e)
      BY <2>1, <2>2 DEF Attached
    <3>2. QED
      BY <2>1, <3>1, ConnectionKeeps
  <2>3. CASE ws[e] = "lost"
    <3>1. ws' = [ws EXCEPT ![e] = "stopped"] /\ ~Attached(e)
      BY <2>1, <2>3 DEF Attached
    <3>2. QED
      BY <2>1, <3>1, ConnectionKeeps
  <2>4. QED
    BY <2>1, <2>2, <2>3
<1>3. CASE HangUp(e)
  <2>1. ws' = [ws EXCEPT ![e] = IF ws[e] = "open" THEN "stopped" ELSE "lost"]
        /\ Attached(e) /\ session' = Fresh /\ mailbox' = <<>>
        /\ UNCHANGED <<lockVars, tr, reg, reply, audit, late>>
    BY <1>3 DEF HangUp, Attached
  <2>2. \/ ws' = [ws EXCEPT ![e] = "stopped"]
        \/ ws' = [ws EXCEPT ![e] = "lost"]
    BY <2>1
  <2>3. reg' = reg
    BY <2>1
  <2>4. QED
    BY <2>1, <2>2, <2>3, ConnectionKeeps
<1>4. CASE Cleanup(e)
  <2>1. ~Attached(e)
    BY <1>4 DEF Cleanup, Attached
  <2>2. QED
    BY <1>4, <2>1, ConnectionKeeps DEF Cleanup
<1>5. QED
  BY <1>1, <1>2, <1>3, <1>4

\* The session answers the first order of its mailbox.
LEMMA HandleKeeps ==
  ASSUME HandoffInv, Handle
  PROVE  HandoffInv'
<1>3. /\ mailbox \in Seq(Owner) /\ session.token \in Nat
      /\ reply \in [Owner -> {"none", "ok", "stale"}]
  BY DEF HandoffInv, SessionInv, TransferTypes
<1>0. mailbox # <<>> /\ Head(mailbox) \in Owner
  BY <1>3, HeadTailProperties DEF Handle
<1> PICK o \in Owner : o = Head(mailbox)
  BY <1>0
<1> PICK ans \in {"ok", "stale"} : ans = IF Stale(tr[o].token) THEN "stale" ELSE "ok"
  OBVIOUS
<1>1. /\ UNCHANGED <<lockVars, tr, ws, reg, audit, late>>
      /\ Connected # 0 /\ mailbox # <<>> /\ mailbox' = Tail(mailbox)
      /\ reply' = IF tr[o].pc = "ask" THEN [reply EXCEPT ![o] = ans] ELSE reply
  BY DEF Handle, Reply
<1>2. \/ Stale(tr[o].token) /\ session' = session
      \/ /\ ~Stale(tr[o].token)
         /\ session' = [token |-> tr[o].token, place |-> Where(o)]
  BY DEF Handle, Where
<1>4. /\ Len(mailbox) \in Nat /\ Len(mailbox) > 0 /\ o = mailbox[1]
      /\ mailbox' \in Seq(Owner) /\ Len(mailbox') = Len(mailbox) - 1
      /\ \A i \in 1..Len(mailbox') : mailbox'[i] = mailbox[i+1]
  BY <1>1, <1>3, HeadTailProperties
<1>5. \A i \in 1..Len(mailbox') : i + 1 \in 1..Len(mailbox) /\ i + 1 # 1
  BY <1>4
<1>6. 1 \in 1..Len(mailbox)
  BY <1>4
<1>7. \A i \in 1..Len(mailbox') : mailbox'[i] # o /\ mailbox'[i] \in Owner
  BY <1>3, <1>4, <1>5, <1>6 DEF HandoffInv, SessionInv, Queue
<1>8. ans \in {"ok", "stale"} /\ (ans = "ok" <=> ~Stale(tr[o].token))
  OBVIOUS
<1>9. /\ \A q \in Owner : q # o => reply'[q] = reply[q]
      /\ reply'[o] = IF tr[o].pc = "ask" THEN ans ELSE reply[o]
      /\ reply' \in [Owner -> {"none", "ok", "stale"}]
  BY <1>1, <1>3, <1>4, <1>8
<1>10. tr[o] \in TransferType /\ tr[o].token \in Nat
  BY <1>4, TrType DEF HandoffInv, TransferType
<1>11. /\ tr' = tr /\ ws' = ws /\ reg' = reg /\ audit' = audit /\ late' = late
       /\ Connected' = Connected
  BY <1>1 DEF Connected
<1>12. LockInv'
  BY <1>1, MiddleKeepsLock DEF HandoffInv
<1>13. TransferTypes'
  <2>1. session' \in [token : Nat, place : {InHub} \cup Owner]
    BY <1>2, <1>4, <1>10 DEF HandoffInv, SessionInv, TransferTypes, Where
  <2>2. QED
    BY <2>1, <1>4, <1>9, <1>11 DEF HandoffInv, SessionInv, TransferTypes
<1>14. OneLive' /\ Refs'
  BY <1>11 DEF HandoffInv, SessionInv, OneLive, Attached, Refs, Begun
<1>15. Queue'
  <2>1. \A i \in 1..Len(mailbox') :
          \/ mailbox'[i] \in late
          \/ /\ tr[mailbox'[i]].pc = "ask" /\ tr[mailbox'[i]].ref = Connected
             /\ reply'[mailbox'[i]] = "none"
    BY <1>4, <1>5, <1>7, <1>9 DEF HandoffInv, SessionInv, Queue
  <2>2. \A i, j \in 1..Len(mailbox') : mailbox'[i] = mailbox'[j] => i = j
    <3> SUFFICES ASSUME NEW i \in 1..Len(mailbox'), NEW j \in 1..Len(mailbox'),
                        mailbox'[i] = mailbox'[j]
                 PROVE  i = j
      OBVIOUS
    <3>1. i + 1 = j + 1
      BY <1>4, <1>5 DEF HandoffInv, SessionInv, Queue
    <3>2. QED
      BY <1>4, <3>1
  <2>3. QED
    BY <1>1, <1>11, <2>1, <2>2 DEF Queue
<1>16. Asking'
  BY <1>9, <1>11 DEF HandoffInv, SessionInv, Asking
<1>17. o \in late \/ (tr[o].pc = "ask" /\ tr[o].ref = Connected /\ reply[o] = "none")
  BY <1>4, <1>6 DEF HandoffInv, SessionInv, Queue
<1>18. \A q \in Owner : q # o => (Delivered(q)' <=> Delivered(q))
  BY <1>9, <1>11 DEF Delivered
<1>19. \A i \in 1..Len(audit) : Here(i)' <=> Here(i)
  BY <1>11 DEF Here
<1>20. CASE Stale(tr[o].token) /\ session' = session
  <2>1. ans = "stale"
    BY <1>8, <1>20
  <2>2. o \in late => tr[o].pc \notin {"ask", "audit"}
    BY DEF HandoffInv, SessionInv, Asking, Past
  <2>3. \A q \in Owner : Delivered(q)' <=> Delivered(q)
    <3>1. ~Delivered(o) /\ ~Delivered(o)'
      BY <1>9, <1>11, <1>17, <2>1, <2>2 DEF Delivered
    <3>2. QED
      BY <1>18, <3>1
  <2>4. Largest'
    BY <1>11, <1>19, <1>20, <2>3 DEF HandoffInv, SessionInv, Largest
  <2>5. \A q \in Owner : From(q) => From(q)'
    BY <1>11, <1>19, <1>20, <2>3 DEF From, Where, Unwritten
  <2>6. Source'
    BY <1>11, <1>20, <2>5 DEF HandoffInv, SessionInv, Source, Fresh
  <2>7. QED
    BY <1>12, <1>13, <1>14, <1>15, <1>16, <2>4, <2>6 DEF HandoffInv, SessionInv
<1>21. CASE ~Stale(tr[o].token) /\ session' = [token |-> tr[o].token, place |-> Where(o)]
  <2>1. ans = "ok" /\ session'.token = tr[o].token /\ session'.place = Where(o)
    BY <1>8, <1>21
  <2>2. session.token <= session'.token
    BY <1>3, <1>10, <1>21, <2>1 DEF Stale
  <2>3. \A q \in Owner : Delivered(q)' => tr[q].token <= session'.token
    <3> TAKE q \in Owner
    <3>1. CASE q = o
      BY <1>10, <2>1, <3>1
    <3>2. ASSUME q # o, Delivered(q)' PROVE tr[q].token <= session'.token
      <4>1. tr[q].token <= session.token /\ tr[q].token \in Nat
        BY <1>1, <1>18, <3>2, TrType DEF HandoffInv, SessionInv, Largest, TransferType
      <4>2. QED
        BY <1>3, <1>10, <2>1, <2>2, <4>1
    <3>3. QED
      BY <3>1, <3>2
  <2>4. \A i \in 1..Len(audit) : Here(i) => audit[i].token <= session'.token /\ audit[i].token > 0
    <3> TAKE i \in 1..Len(audit)
    <3>1. audit[i].token \in Nat
      BY AuditTypes DEF HandoffInv, SessionInv
    <3>2. Here(i) => audit[i].token <= session.token /\ audit[i].token > 0
      BY <1>1 DEF HandoffInv, SessionInv, Largest
    <3>3. QED
      BY <1>3, <1>10, <2>1, <2>2, <3>1, <3>2
  <2>5. Largest'
    BY <1>11, <1>19, <2>3, <2>4 DEF Largest
  <2>6. o \in late \/ Delivered(o)'
    BY <1>9, <1>11, <1>17, <2>1 DEF Delivered
  <2>7. tr[o].pc \notin {"new", "acquire"}
    BY <1>4, <1>17 DEF HandoffInv, SessionInv, Asking, Past
  <2>8. From(o)'
    BY <1>11, <2>1, <2>6, <2>7 DEF From, Where
  <2>9. Source'
    BY <2>8 DEF Source
  <2>10. QED
    BY <1>12, <1>13, <1>14, <1>15, <1>16, <2>5, <2>9 DEF HandoffInv, SessionInv
<1>22. QED
  BY <1>2, <1>20, <1>21

-----------------------------------------------------------------------------
(* SessionInv is inductive: the transfers. *)

\* A transfer gives up: it was not answered, or refused.
LEMMA FailKeeps ==
  ASSUME HandoffInv, NEW o \in Owner, Fail(o),
         UNCHANGED <<lockVars, ws, reg, session, mailbox, audit>>,
         tr[o].pc \in {"lookup", "ask"}, ~Delivered(o),
         late' \in {late, late \cup {o}}, Cardinality(late') <= MaxLate,
         o \notin late' => \A i \in 1..Len(mailbox) : mailbox[i] # o
  PROVE  HandoffInv'
<1>1. /\ ws' = ws /\ reg' = reg /\ session' = session /\ mailbox' = mailbox
      /\ audit' = audit /\ Connected' = Connected
  BY DEF Connected
<1>2. /\ Steps(o, "release") /\ tr'[o].ref = 0
      /\ tr'[o].token = tr[o].token /\ tr'[o].dest = tr[o].dest
  <2>1. 0 \in 0..MaxSessions /\ "release" \in Stage
    BY HandoffAssumption DEF Stage
  <2>2. QED
    BY <2>1, TrType DEF Fail, Steps, TransferType, HandoffInv
<1>3. /\ \A q \in Owner : q # o => tr'[q] = tr[q] /\ reply'[q] = reply[q]
      /\ reply'[o] = "none" /\ reply' \in [Owner -> {"none", "ok", "stale"}]
  BY <1>2 DEF Fail, Steps, HandoffInv, SessionInv, TransferTypes
<1>4. LockInv'
  <2>1. \A q \in Owner : tr'[q].pc = tr[q].pc \/ (tr[q].pc \in Middle /\ tr'[q].pc \in Middle)
    BY <1>2, <1>3 DEF Steps, Middle
  <2>2. QED
    BY <2>1, MiddleKeepsLock DEF HandoffInv
<1>5. TransferTypes'
  <2>1. late' \subseteq Owner
    BY DEF HandoffInv, SessionInv, TransferTypes
  <2>2. QED
    BY <1>1, <1>2, <1>3, <2>1 DEF HandoffInv, SessionInv, TransferTypes, Steps
<1>6. OneLive'
  BY <1>1 DEF HandoffInv, SessionInv, OneLive, Attached
<1>7. Refs'
  <2>1. 0 \notin Session
    BY HandoffAssumption DEF Session
  <2>2. QED
    BY <1>1, <1>2, <1>3, <2>1 DEF HandoffInv, SessionInv, Refs, Begun, Steps
<1>8. Queue'
  <2>1. \A i \in 1..Len(mailbox) : mailbox[i] \in Owner
    BY DEF HandoffInv, SessionInv, TransferTypes
  <2>2. QED
    BY <1>1, <1>3, <2>1 DEF HandoffInv, SessionInv, Queue
<1>9. Asking'
  <2>1. \A i \in 1..Len(audit) : audit[i].by \in Owner /\ audit[i].by # o
    BY AuditTypes DEF HandoffInv, SessionInv, Asking, Past
  <2>2. \A i \in 1..Len(audit) : tr'[audit[i].by].pc \in Past
    BY <1>3, <2>1 DEF HandoffInv, SessionInv, Asking
  <2>3. \A q \in Owner :
          /\ reply'[q] # "none" => tr'[q].pc = "ask"
          /\ q \in late' \/ tr'[q].failed => tr'[q].pc \in Past
          /\ tr'[q].pc \in {"lookup", "ask", "audit"} => tr'[q].token > 0
    BY <1>2, <1>3 DEF HandoffInv, SessionInv, Asking, Steps, Past
  <2>4. QED
    BY <1>1, <2>2, <2>3 DEF Asking
<1>10. \A q \in Owner : Delivered(q)' <=> Delivered(q)
  <2>1. ~Delivered(o)'
    BY <1>2 DEF Delivered, Steps
  <2>2. \A q \in Owner : q # o => (Delivered(q)' <=> Delivered(q))
    BY <1>1, <1>3 DEF Delivered
  <2>3. QED
    BY <2>1, <2>2
<1>11. \A i \in 1..Len(audit) : Here(i)' <=> Here(i)
  BY <1>1 DEF Here
<1>12. Largest'
  BY <1>1, <1>2, <1>3, <1>10, <1>11 DEF HandoffInv, SessionInv, Largest
<1>13. \A q \in Owner : From(q) => From(q)'
  <2>1. \A q \in Owner : q # o => (From(q) => From(q)')
    BY <1>1, <1>3, <1>10, <1>11 DEF From, Where, Unwritten
  <2>2. From(o) => From(o)'
    BY <1>1, <1>2, <1>10, <1>11 DEF From, Where, Steps, Unwritten, Through
  <2>3. QED
    BY <2>1, <2>2
<1>14. Source'
  BY <1>1, <1>13 DEF HandoffInv, SessionInv, Source, Fresh
<1>15. QED
  BY <1>4, <1>5, <1>6, <1>7, <1>8, <1>9, <1>12, <1>14 DEF HandoffInv, SessionInv

LEMMA NotQueued ==
  ASSUME HandoffInv, NEW o \in Owner
  PROVE  /\ ~Contains(mailbox, o) => \A i \in 1..Len(mailbox) : mailbox[i] # o
         /\ tr[o].pc = "ask" /\ (reply[o] # "none" \/ tr[o].ref # Connected)
              => \A i \in 1..Len(mailbox) : mailbox[i] # o
         /\ tr[o].pc = "lookup" => \A i \in 1..Len(mailbox) : mailbox[i] # o
         /\ tr[o].pc \in {"lookup", "ask"} => o \notin late
<1>1. ~Contains(mailbox, o) => \A i \in 1..Len(mailbox) : mailbox[i] # o
  BY DEF Contains
<1>2. tr[o].pc \in {"lookup", "ask"} => o \notin late
  BY DEF HandoffInv, SessionInv, Asking, Past
<1>3. QED
  BY <1>1, <1>2 DEF HandoffInv, SessionInv, Queue

LEMMA LookupFailsKeeps ==
  ASSUME HandoffInv, NEW o \in Owner, Lookup(o), reg = 0, Fail(o), UNCHANGED mailbox
  PROVE  HandoffInv'
<1>1. tr[o].pc = "lookup" /\ UNCHANGED <<lockVars, ws, reg, session, audit, late>>
  BY DEF Lookup
<1>2. ~Delivered(o) /\ Cardinality(late') <= MaxLate
  BY <1>1 DEF Delivered, HandoffInv, SessionInv, TransferTypes
<1>3. late' = late
  BY <1>1
<1>4. QED
  BY <1>1, <1>2, <1>3, NotQueued, FailKeeps

LEMMA UnansweredKeeps ==
  ASSUME HandoffInv, NEW o \in Owner, Unanswered(o)
  PROVE  HandoffInv'
<1>1. /\ tr[o].pc = "ask" /\ UNCHANGED <<lockVars, ws, reg, session, mailbox, audit, late>>
      /\ tr[o].ref # Connected \/ (reply[o] = "none" /\ ~Contains(mailbox, o))
  BY DEF Unanswered
<1>2. Fail(o)
  BY DEF Unanswered
<1>3. ~Delivered(o) /\ Cardinality(late') <= MaxLate /\ late' = late
  BY <1>1 DEF Delivered, HandoffInv, SessionInv, TransferTypes
<1>4. QED
  BY <1>1, <1>2, <1>3, NotQueued, FailKeeps

LEMMA TimesOutKeeps ==
  ASSUME HandoffInv, NEW o \in Owner, TimesOut(o)
  PROVE  HandoffInv'
<1>1. /\ tr[o].pc = "ask" /\ reply[o] = "none" /\ Fail(o)
      /\ Cardinality(late) < MaxLate /\ late' = late \cup {o}
      /\ UNCHANGED <<lockVars, ws, reg, session, mailbox, audit>>
  BY DEF TimesOut
<1>2. ~Delivered(o)
  BY <1>1 DEF Delivered
<1>3. Cardinality(late') <= MaxLate
  <2>1. IsFiniteSet(late)
    BY DLockAssumption, FS_Subset DEF HandoffInv, SessionInv, TransferTypes
  <2>2. o \notin late
    BY <1>1, NotQueued
  <2>3. Cardinality(late) \in Nat /\ Cardinality(late') = Cardinality(late) + 1
    BY <1>1, <2>1, <2>2, FS_AddElement, FS_CardinalityType
  <2>4. QED
    BY <1>1, <2>3, HandoffAssumption
<1>4. QED
  BY <1>1, <1>2, <1>3, FailKeeps

\* The order is sent, or dropped on the way.
LEMMA LookupKeeps ==
  ASSUME HandoffInv, NEW o \in Owner, Lookup(o), reg # 0
  PROVE  HandoffInv'
<1>1. /\ tr[o].pc = "lookup" /\ UNCHANGED <<lockVars, ws, reg, session, audit, late>>
      /\ tr' = [tr EXCEPT ![o].pc = "ask", ![o].ref = reg] /\ reply' = reply
      /\ \/ reg = Connected /\ mailbox' = Append(mailbox, o)
         \/ mailbox' = mailbox
  BY DEF Lookup
<1>2. /\ ws' = ws /\ reg' = reg /\ session' = session /\ reply' = reply
      /\ audit' = audit /\ late' = late /\ Connected' = Connected
  BY <1>1 DEF Connected
<1>3. /\ Steps(o, "ask") /\ tr'[o].ref = reg /\ tr'[o].failed = tr[o].failed
      /\ tr'[o].token = tr[o].token /\ tr'[o].dest = tr[o].dest
  <2>1. reg \in 0..MaxSessions /\ "ask" \in Stage
    BY DEF HandoffInv, SessionInv, TransferTypes, Stage
  <2>2. QED
    BY <1>1, <2>1, TrType DEF Steps, TransferType, HandoffInv
<1>4. \A q \in Owner : q # o => tr'[q] = tr[q]
  BY <1>3 DEF Steps
<1>5. LockInv'
  <2>1. \A q \in Owner : tr'[q].pc = tr[q].pc \/ (tr[q].pc \in Middle /\ tr'[q].pc \in Middle)
    BY <1>1, <1>3, <1>4 DEF Steps, Middle
  <2>2. QED
    BY <1>1, <2>1, MiddleKeepsLock DEF HandoffInv
<1>6. reply[o] = "none" /\ o \notin late /\ \A i \in 1..Len(mailbox) : mailbox[i] # o
  BY <1>1, NotQueued DEF HandoffInv, SessionInv, Asking, TransferTypes
<1>7. /\ mailbox \in Seq(Owner) /\ Len(mailbox) \in Nat
      /\ \A i \in 1..Len(mailbox) : mailbox[i] \in Owner
  BY DEF HandoffInv, SessionInv, TransferTypes
<1>8. TransferTypes'
  <2>1. mailbox' \in Seq(Owner)
    BY <1>1, <1>7
  <2>2. QED
    BY <1>2, <1>3, <2>1 DEF HandoffInv, SessionInv, TransferTypes, Steps
<1>9. OneLive'
  BY <1>2 DEF HandoffInv, SessionInv, OneLive, Attached
<1>10. Refs'
  BY <1>2, <1>3, <1>4 DEF HandoffInv, SessionInv, Refs, Begun, Steps
<1>11. Queue'
  <2>1. \A i \in 1..Len(mailbox) :
          \/ mailbox[i] \in late
          \/ /\ tr'[mailbox[i]].pc = "ask" /\ tr'[mailbox[i]].ref = Connected
             /\ reply[mailbox[i]] = "none"
    BY <1>4, <1>6, <1>7 DEF HandoffInv, SessionInv, Queue
  <2>2. CASE mailbox' = mailbox
    BY <1>2, <2>1, <2>2 DEF HandoffInv, SessionInv, Queue
  <2>3. CASE reg = Connected /\ mailbox' = Append(mailbox, o)
    <3>1. /\ Len(mailbox') = Len(mailbox) + 1 /\ mailbox'[Len(mailbox) + 1] = o
          /\ \A i \in 1..Len(mailbox) : mailbox'[i] = mailbox[i]
      BY <1>7, <2>3
    <3>2. \A i \in 1..Len(mailbox') :
            \/ i \in 1..Len(mailbox) /\ mailbox'[i] = mailbox[i]
            \/ i = Len(mailbox) + 1 /\ mailbox'[i] = o
      BY <1>7, <3>1
    <3>3. /\ tr'[o].pc = "ask" /\ tr'[o].ref = Connected /\ Connected # 0
      BY <1>3, <2>3 DEF Steps
    <3>4. \A i \in 1..Len(mailbox') :
            \/ mailbox'[i] \in late
            \/ /\ tr'[mailbox'[i]].pc = "ask" /\ tr'[mailbox'[i]].ref = Connected
               /\ reply[mailbox'[i]] = "none"
      BY <1>6, <2>1, <3>2, <3>3
    <3>5. \A i, j \in 1..Len(mailbox') : mailbox'[i] = mailbox'[j] => i = j
      BY <1>6, <3>2 DEF HandoffInv, SessionInv, Queue
    <3>6. QED
      BY <1>2, <3>3, <3>4, <3>5 DEF Queue
  <2>4. QED
    BY <1>1, <2>2, <2>3
<1>12. Asking'
  <2>1. \A i \in 1..Len(audit) : audit[i].by \in Owner /\ audit[i].by # o
    BY <1>1, AuditTypes DEF HandoffInv, SessionInv, Asking, Past
  <2>2. \A i \in 1..Len(audit) : tr'[audit[i].by].pc \in Past
    BY <1>4, <2>1 DEF HandoffInv, SessionInv, Asking
  <2>3. \A q \in Owner :
          /\ reply[q] # "none" => tr'[q].pc = "ask"
          /\ q \in late \/ tr'[q].failed => tr'[q].pc \in Past
          /\ tr'[q].pc \in {"lookup", "ask", "audit"} => tr'[q].token > 0
    BY <1>1, <1>2, <1>3, <1>4, <1>6 DEF HandoffInv, SessionInv, Asking, Steps, Past
  <2>4. QED
    BY <1>2, <2>2, <2>3 DEF Asking
<1>13. \A q \in Owner : Delivered(q)' <=> Delivered(q)
  <2>1. ~Delivered(o) /\ ~Delivered(o)'
    BY <1>1, <1>2, <1>3, <1>6 DEF Delivered, Steps
  <2>2. \A q \in Owner : q # o => (Delivered(q)' <=> Delivered(q))
    BY <1>2, <1>4 DEF Delivered
  <2>3. QED
    BY <2>1, <2>2
<1>14. \A i \in 1..Len(audit) : Here(i)' <=> Here(i)
  BY <1>2 DEF Here
<1>15. Largest'
  BY <1>2, <1>3, <1>4, <1>13, <1>14 DEF HandoffInv, SessionInv, Largest
<1>16. \A q \in Owner : From(q) => From(q)'
  <2>1. \A q \in Owner : q # o => (From(q) => From(q)')
    BY <1>2, <1>4, <1>13, <1>14 DEF From, Where, Unwritten
  <2>2. From(o) => From(o)'
    BY <1>1, <1>2, <1>3, <1>13, <1>14 DEF From, Where, Steps, Unwritten, Through
  <2>3. QED
    BY <2>1, <2>2
<1>17. Source'
  BY <1>2, <1>16 DEF HandoffInv, SessionInv, Source, Fresh
<1>18. QED
  BY <1>5, <1>8, <1>9, <1>10, <1>11, <1>12, <1>15, <1>17 DEF HandoffInv, SessionInv

\* The answer arrives.
LEMMA AnsweredKeeps ==
  ASSUME HandoffInv, NEW o \in Owner, Answered(o)
  PROVE  HandoffInv'
<1>1. /\ tr[o].pc = "ask" /\ UNCHANGED <<lockVars, ws, reg, session, mailbox, audit, late>>
      /\ reply[o] # "none"
  BY DEF Answered
<1>2. CASE reply[o] = "stale" /\ Fail(o)
  <2>1. ~Delivered(o) /\ Cardinality(late') <= MaxLate /\ late' = late
    BY <1>1, <1>2 DEF Delivered, HandoffInv, SessionInv, TransferTypes
  <2>2. QED
    BY <1>1, <1>2, <2>1, NotQueued, FailKeeps
<1>3. CASE /\ reply[o] = "ok" /\ tr' = [tr EXCEPT ![o].pc = "audit"]
           /\ reply' = [reply EXCEPT ![o] = "none"]
  <2>1. /\ ws' = ws /\ reg' = reg /\ session' = session /\ mailbox' = mailbox
        /\ audit' = audit /\ late' = late /\ Connected' = Connected
    BY <1>1 DEF Connected
  <2>2. /\ Steps(o, "audit") /\ tr'[o].ref = tr[o].ref /\ tr'[o].failed = tr[o].failed
        /\ tr'[o].token = tr[o].token /\ tr'[o].dest = tr[o].dest
    BY <1>3, TrType DEF Steps, TransferType, Stage, HandoffInv
  <2>3. /\ \A q \in Owner : q # o => tr'[q] = tr[q] /\ reply'[q] = reply[q]
        /\ reply'[o] = "none" /\ reply' \in [Owner -> {"none", "ok", "stale"}]
    BY <1>3, <2>2 DEF Steps, HandoffInv, SessionInv, TransferTypes
  <2>4. LockInv'
    <3>1. \A q \in Owner : tr'[q].pc = tr[q].pc \/ (tr[q].pc \in Middle /\ tr'[q].pc \in Middle)
      BY <1>1, <2>2, <2>3 DEF Steps, Middle
    <3>2. QED
      BY <1>1, <3>1, MiddleKeepsLock DEF HandoffInv
  <2>5. TransferTypes'
    BY <2>1, <2>2, <2>3 DEF HandoffInv, SessionInv, TransferTypes, Steps
  <2>6. OneLive'
    BY <2>1 DEF HandoffInv, SessionInv, OneLive, Attached
  <2>7. Refs'
    BY <1>1, <2>1, <2>2, <2>3 DEF HandoffInv, SessionInv, Refs, Begun, Steps
  <2>8. Queue'
    <3>1. \A i \in 1..Len(mailbox) : mailbox[i] \in Owner
      BY DEF HandoffInv, SessionInv, TransferTypes
    <3>2. \A i \in 1..Len(mailbox) : mailbox[i] # o
      BY <1>1, NotQueued
    <3>3. QED
      BY <2>1, <2>3, <3>1, <3>2 DEF HandoffInv, SessionInv, Queue
  <2>9. Asking'
    <3>1. \A i \in 1..Len(audit) : audit[i].by \in Owner /\ audit[i].by # o
      BY <1>1, AuditTypes DEF HandoffInv, SessionInv, Asking, Past
    <3>2. \A i \in 1..Len(audit) : tr'[audit[i].by].pc \in Past
      BY <2>3, <3>1 DEF HandoffInv, SessionInv, Asking
    <3>3. \A q \in Owner :
            /\ reply'[q] # "none" => tr'[q].pc = "ask"
            /\ q \in late \/ tr'[q].failed => tr'[q].pc \in Past
            /\ tr'[q].pc \in {"lookup", "ask", "audit"} => tr'[q].token > 0
      BY <1>1, <2>1, <2>2, <2>3 DEF HandoffInv, SessionInv, Asking, Steps, Past
    <3>4. QED
      BY <2>1, <3>2, <3>3 DEF Asking
  <2>10. \A q \in Owner : Delivered(q)' <=> Delivered(q)
    <3>1. Delivered(o)' <=> Delivered(o)
      BY <1>1, <1>3, <2>1, <2>2 DEF Delivered, Steps
    <3>2. \A q \in Owner : q # o => (Delivered(q)' <=> Delivered(q))
      BY <2>1, <2>3 DEF Delivered
    <3>3. QED
      BY <3>1, <3>2
  <2>11. \A i \in 1..Len(audit) : Here(i)' <=> Here(i)
    BY <2>1 DEF Here
  <2>12. Largest'
    BY <2>1, <2>2, <2>3, <2>10, <2>11 DEF HandoffInv, SessionInv, Largest
  <2>13. \A q \in Owner : From(q) => From(q)'
    <3>1. \A q \in Owner : q # o => (From(q) => From(q)')
      BY <2>1, <2>3, <2>10, <2>11 DEF From, Where, Unwritten
    <3>2. From(o) => From(o)'
      BY <1>1, <2>1, <2>2, <2>10, <2>11 DEF From, Where, Steps, Unwritten, Through
    <3>3. QED
      BY <3>1, <3>2
  <2>14. Source'
    BY <2>1, <2>13 DEF HandoffInv, SessionInv, Source, Fresh
  <2>15. QED
    BY <2>4, <2>5, <2>6, <2>7, <2>8, <2>9, <2>12, <2>14 DEF HandoffInv, SessionInv
<1>4. QED
  BY <1>2, <1>3 DEF Answered

\* A transfer that went through is told.
LEMMA AuditWritten ==
  ASSUME HandoffInv, NEW o \in Owner, Audit(o),
         audit' = Append(audit, [by |-> o, token |-> tr[o].token, ref |-> tr[o].ref])
  PROVE  HandoffInv'
<1> DEFINE r == [by |-> o, token |-> tr[o].token, ref |-> tr[o].ref]
<1> PICK n \in Nat : n = Len(audit)
  BY DEF HandoffInv, SessionInv, TransferTypes
<1>1. /\ tr[o].pc = "audit" /\ UNCHANGED <<lockVars, sessVars, late>>
      /\ audit' = Append(audit, r)
      /\ tr' = [tr EXCEPT ![o].pc = "release", ![o].ref = 0]
  BY DEF Audit
<1>2. /\ ws' = ws /\ reg' = reg /\ session' = session /\ mailbox' = mailbox
      /\ reply' = reply /\ late' = late /\ Connected' = Connected
  BY <1>1 DEF Connected, sessVars
<1>3. /\ Steps(o, "release") /\ tr'[o].ref = 0 /\ tr'[o].failed = tr[o].failed
      /\ tr'[o].token = tr[o].token /\ tr'[o].dest = tr[o].dest
  <2>1. 0 \in 0..MaxSessions /\ "release" \in Stage
    BY HandoffAssumption DEF Stage
  <2>2. QED
    BY <1>1, <2>1, TrType DEF Steps, TransferType, HandoffInv
<1>4. \A q \in Owner : q # o => tr'[q] = tr[q]
  BY <1>3 DEF Steps
<1>5. LockInv'
  <2>1. \A q \in Owner : tr'[q].pc = tr[q].pc \/ (tr[q].pc \in Middle /\ tr'[q].pc \in Middle)
    BY <1>1, <1>3, <1>4 DEF Steps, Middle
  <2>2. QED
    BY <1>1, <2>1, MiddleKeepsLock DEF HandoffInv
<1>6. tr[o].token \in Nat /\ tr[o].ref \in Session /\ ws[tr[o].ref] # "none" /\ tr[o].token > 0
  <2>1. tr[o].token \in Nat /\ tr[o].ref \in 0..MaxSessions
    BY TrType DEF TransferType, HandoffInv
  <2>2. tr[o].ref # 0 /\ Begun(tr[o].ref)
    BY <1>1 DEF HandoffInv, SessionInv, Refs
  <2>3. tr[o].ref \in Session
    BY <2>1, <2>2, HandoffAssumption DEF Session
  <2>4. QED
    BY <1>1, <2>1, <2>2, <2>3 DEF Begun, HandoffInv, SessionInv, Asking
<1>7. /\ r \in [by : Owner, token : Nat, ref : Session]
      /\ r.by = o /\ r.token = tr[o].token /\ r.ref = tr[o].ref
  BY <1>6
<1> HIDE DEF r
<1>8. /\ audit \in Seq([by : Owner, token : Nat, ref : Session]) /\ n \in Nat /\ n = Len(audit)
  BY DEF HandoffInv, SessionInv, TransferTypes
<1>9. /\ audit' \in Seq([by : Owner, token : Nat, ref : Session])
      /\ Len(audit') = n + 1 /\ audit'[n+1] = r
      /\ \A i \in 1..n : audit'[i] = audit[i]
  <2> DEFINE T == [by : Owner, token : Nat, ref : Session]
  <2>1. audit \in Seq(T) /\ r \in T
    BY <1>7, <1>8
  <2> HIDE DEF T
  <2>2. /\ audit' \in Seq(T) /\ Len(audit') = n + 1 /\ audit'[n+1] = r
        /\ \A i \in 1..n : audit'[i] = audit[i]
    BY <1>1, <2>1
  <2>3. QED
    BY <2>2 DEF T
<1>10. \A i \in 1..n+1 : \/ i \in 1..n /\ audit'[i] = audit[i]
                         \/ i = n+1 /\ audit'[i] = r
  <2> TAKE i \in 1..n+1
  <2>1. i \in 1..n \/ i = n+1
    BY <1>8
  <2>2. QED
    BY <1>9, <2>1
<1>11. n + 1 \in 1..n+1 /\ \A i \in 1..n : i \in 1..n+1
  BY <1>8
<1>12. TransferTypes'
  BY <1>2, <1>3, <1>9 DEF HandoffInv, SessionInv, TransferTypes, Steps
<1>13. OneLive'
  BY <1>2 DEF HandoffInv, SessionInv, OneLive, Attached
<1>14. Refs'
  <2>1. 0 \notin Session
    BY HandoffAssumption DEF Session
  <2>2. \A i \in 1..n+1 : audit'[i].ref \in Session => ws[audit'[i].ref] # "none"
    BY <1>6, <1>7, <1>8, <1>10 DEF HandoffInv, SessionInv, Refs, Begun
  <2>3. QED
    BY <1>2, <1>3, <1>4, <1>9, <2>1, <2>2 DEF HandoffInv, SessionInv, Refs, Begun, Steps
<1>15. Queue'
  <2>1. \A i \in 1..Len(mailbox) : mailbox[i] \in Owner
    BY DEF HandoffInv, SessionInv, TransferTypes
  <2>2. \A i \in 1..Len(mailbox) : mailbox[i] \in late \/ mailbox[i] # o
    BY <1>1 DEF HandoffInv, SessionInv, Queue
  <2>3. QED
    BY <1>2, <1>4, <2>1, <2>2 DEF HandoffInv, SessionInv, Queue
<1>16. Asking'
  <2>1. \A i \in 1..n : audit[i].by \in Owner /\ tr[audit[i].by].pc \in Past
    BY <1>8, AuditTypes DEF HandoffInv, SessionInv, Asking
  <2>2. tr'[o].pc \in Past
    BY <1>3 DEF Steps, Past
  <2>3. \A i \in 1..n+1 : tr'[audit'[i].by].pc \in Past
    BY <1>4, <1>7, <1>10, <2>1, <2>2
  <2>4. \A q \in Owner :
          /\ reply'[q] # "none" => tr'[q].pc = "ask"
          /\ q \in late' \/ tr'[q].failed => tr'[q].pc \in Past
          /\ tr'[q].pc \in {"lookup", "ask", "audit"} => tr'[q].token > 0
    BY <1>1, <1>2, <1>3, <1>4, <2>2 DEF HandoffInv, SessionInv, Asking, Steps
  <2>5. QED
    BY <1>9, <2>3, <2>4 DEF Asking
<1>17. Delivered(o) <=> tr[o].ref = Connected
  BY <1>1 DEF Delivered
<1>18. ~(Connected # 0 /\ Delivered(o)')
  BY <1>2, <1>3 DEF Delivered
<1>19. \A q \in Owner : q # o => (Delivered(q)' <=> Delivered(q))
  BY <1>2, <1>4 DEF Delivered
<1>20. /\ \A i \in 1..n : Here(i)' <=> Here(i)
       /\ Here(n+1)' <=> tr[o].ref = Connected
  BY <1>2, <1>7, <1>9 DEF Here
<1>21. Largest'
  <2> SUFFICES ASSUME Connected # 0
               PROVE  /\ \A q \in Owner : Delivered(q)' => tr'[q].token <= session.token
                      /\ \A i \in 1..n+1 : (audit'[i].ref = Connected) =>
                           audit'[i].token <= session.token /\ audit'[i].token > 0
    BY <1>2, <1>9 DEF Largest, Here
  <2>1. \A q \in Owner : Delivered(q)' => tr'[q].token <= session.token
    BY <1>4, <1>18, <1>19 DEF HandoffInv, SessionInv, Largest
  <2>2. \A i \in 1..n : (audit[i].ref = Connected) =>
          audit[i].token <= session.token /\ audit[i].token > 0
    BY <1>8 DEF HandoffInv, SessionInv, Largest, Here
  <2>3. r.ref = Connected => r.token <= session.token /\ r.token > 0
    BY <1>6, <1>7, <1>17 DEF HandoffInv, SessionInv, Largest
  <2>4. QED
    BY <1>10, <2>1, <2>2, <2>3
<1>22. Source'
  <2>1. CASE Connected = 0 \/ session = Fresh
    BY <1>2, <2>1 DEF Source, Fresh
  <2>2. CASE Connected # 0 /\ \E q \in Owner : From(q)
    <3>1. PICK q \in Owner : From(q)
      BY <2>2
    <3>2. /\ tr'[q].pc \notin {"new", "acquire"} /\ tr'[q].token = tr[q].token
          /\ tr'[q].dest = tr[q].dest
      BY <1>3, <1>4, <3>1 DEF Steps, From
    <3>3. session'.token = tr'[q].token /\ session'.place = Where(q)'
      BY <1>2, <3>1, <3>2 DEF From, Where
    <3>4. ASSUME NEW i \in 1..n, Here(i), audit[i].by = q, audit[i].token = tr[q].token
          PROVE  From(q)'
      <4>1. i \in 1..Len(audit') /\ Here(i)' /\ audit'[i].by = q /\ audit'[i].token = tr'[q].token
        BY <1>9, <1>11, <1>20, <3>2, <3>4
      <4>2. QED
        BY <3>2, <3>3, <4>1 DEF From
    <3>5. ASSUME q \in late PROVE From(q)'
      BY <1>2, <3>2, <3>5, <3>3 DEF From
    <3>6. ASSUME Delivered(q) /\ q # o PROVE From(q)'
      BY <1>19, <3>2, <3>6, <3>3 DEF From
    <3>7. ASSUME Delivered(q) /\ q = o PROVE From(q)'
      <4>1. /\ n+1 \in 1..Len(audit') /\ Here(n+1)' /\ audit'[n+1].by = q
            /\ audit'[n+1].token = tr'[q].token
        BY <1>7, <1>9, <1>11, <1>17, <1>20, <3>2, <3>7
      <4>2. QED
        BY <3>2, <3>3, <4>1 DEF From
    <3>8. ASSUME Unwritten(q) PROVE From(q)'
      <4>1. q # o
        BY <1>1, <3>8 DEF Unwritten, Through
      <4>2. Unwritten(q)'
        BY <1>4, <1>7, <1>8, <1>9, <1>10, <3>8, <4>1 DEF Unwritten
      <4>3. QED
        BY <3>2, <3>3, <4>2 DEF From
    <3>9. From(q)'
      BY <1>8, <3>1, <3>4, <3>5, <3>6, <3>7, <3>8 DEF From
    <3>10. QED
      BY <3>9 DEF Source
  <2>3. QED
    BY <2>1, <2>2 DEF HandoffInv, SessionInv, Source
<1>23. QED
  BY <1>5, <1>12, <1>13, <1>14, <1>15, <1>16, <1>21, <1>22 DEF HandoffInv, SessionInv

\* ... or could not be.
LEMMA AuditUnwritten ==
  ASSUME HandoffInv, NEW o \in Owner, Audit(o), UNCHANGED audit
  PROVE  HandoffInv'
<1>1. /\ tr[o].pc = "audit" /\ UNCHANGED <<lockVars, sessVars, late>>
      /\ tr' = [tr EXCEPT ![o].pc = "release", ![o].ref = 0]
  BY DEF Audit
<1>2. /\ ws' = ws /\ reg' = reg /\ session' = session /\ mailbox' = mailbox
      /\ reply' = reply /\ audit' = audit /\ late' = late /\ Connected' = Connected
  BY <1>1 DEF Connected, sessVars
<1>3. /\ Steps(o, "release") /\ tr'[o].ref = 0 /\ tr'[o].failed = tr[o].failed
      /\ tr'[o].token = tr[o].token /\ tr'[o].dest = tr[o].dest
  <2>1. 0 \in 0..MaxSessions /\ "release" \in Stage
    BY HandoffAssumption DEF Stage
  <2>2. QED
    BY <1>1, <2>1, TrType DEF Steps, TransferType, HandoffInv
<1>4. \A q \in Owner : q # o => tr'[q] = tr[q]
  BY <1>3 DEF Steps
<1>5. LockInv'
  <2>1. \A q \in Owner : tr'[q].pc = tr[q].pc \/ (tr[q].pc \in Middle /\ tr'[q].pc \in Middle)
    BY <1>1, <1>3, <1>4 DEF Steps, Middle
  <2>2. QED
    BY <1>1, <2>1, MiddleKeepsLock DEF HandoffInv
<1>6. TransferTypes' /\ OneLive'
  BY <1>2, <1>3 DEF HandoffInv, SessionInv, TransferTypes, OneLive, Attached, Steps
<1>7. Refs'
  <2>1. 0 \notin Session
    BY HandoffAssumption DEF Session
  <2>2. QED
    BY <1>2, <1>3, <1>4, <2>1 DEF HandoffInv, SessionInv, Refs, Begun, Steps
<1>8. Queue'
  <2>1. \A i \in 1..Len(mailbox) : mailbox[i] \in Owner
    BY DEF HandoffInv, SessionInv, TransferTypes
  <2>2. \A i \in 1..Len(mailbox) : mailbox[i] \in late \/ mailbox[i] # o
    BY <1>1 DEF HandoffInv, SessionInv, Queue
  <2>3. QED
    BY <1>2, <1>4, <2>1, <2>2 DEF HandoffInv, SessionInv, Queue
<1>9. \A i \in 1..Len(audit) : audit[i].by \in Owner /\ audit[i].by # o
  BY <1>1, AuditTypes DEF HandoffInv, SessionInv, Asking, Past
<1>10. Asking'
  <2>1. tr'[o].pc \in Past
    BY <1>3 DEF Steps, Past
  <2>2. \A i \in 1..Len(audit) : tr'[audit[i].by].pc \in Past
    BY <1>4, <1>9 DEF HandoffInv, SessionInv, Asking
  <2>3. \A q \in Owner :
          /\ reply'[q] # "none" => tr'[q].pc = "ask"
          /\ q \in late' \/ tr'[q].failed => tr'[q].pc \in Past
          /\ tr'[q].pc \in {"lookup", "ask", "audit"} => tr'[q].token > 0
    BY <1>1, <1>2, <1>3, <1>4, <2>1 DEF HandoffInv, SessionInv, Asking, Steps
  <2>4. QED
    BY <1>2, <2>2, <2>3 DEF Asking
<1>11. \A q \in Owner : q # o => (Delivered(q)' <=> Delivered(q))
  BY <1>2, <1>4 DEF Delivered
<1>12. ~(Connected # 0 /\ Delivered(o)')
  BY <1>2, <1>3 DEF Delivered
<1>13. \A i \in 1..Len(audit) : Here(i)' <=> Here(i)
  BY <1>2 DEF Here
<1>14. Largest'
  BY <1>2, <1>4, <1>11, <1>12, <1>13 DEF HandoffInv, SessionInv, Largest
<1>15. Source'
  <2>1. CASE Connected = 0 \/ session = Fresh
    BY <1>2, <2>1 DEF Source, Fresh
  <2>2. CASE Connected # 0 /\ \E q \in Owner : From(q)
    <3>1. PICK q \in Owner : From(q)
      BY <2>2
    <3>2. CASE q # o
      <4>1. From(q)'
        BY <1>2, <1>4, <1>11, <1>13, <3>1, <3>2 DEF From, Where, Unwritten
      <4>2. QED
        BY <4>1 DEF Source
    <3>3. CASE q = o
      <4>1. Unwritten(o)' \/ o \in late
        <5>1. o \notin late => ~tr[o].failed
          BY <1>1 DEF HandoffInv, SessionInv, Asking, Past
        <5>2. QED
          BY <1>2, <1>3, <1>9, <5>1 DEF Unwritten, Through, Steps
      <4>2. From(o)'
        BY <1>2, <1>3, <3>1, <3>3, <4>1 DEF From, Where, Steps
      <4>3. QED
        BY <4>2 DEF Source
    <3>4. QED
      BY <3>2, <3>3
  <2>3. QED
    BY <2>1, <2>2 DEF HandoffInv, SessionInv, Source
<1>16. QED
  BY <1>5, <1>6, <1>7, <1>8, <1>10, <1>14, <1>15 DEF HandoffInv, SessionInv

LEMMA AuditKeeps ==
  ASSUME HandoffInv, NEW o \in Owner, Audit(o)
  PROVE  HandoffInv'
<1>1. \/ audit' = Append(audit, [by |-> o, token |-> tr[o].token, ref |-> tr[o].ref])
      \/ UNCHANGED audit
  BY DEF Audit
<1>2. QED
  BY <1>1, AuditWritten, AuditUnwritten

-----------------------------------------------------------------------------
(* The theorems. *)

LEMMA LockKeeps ==
  ASSUME HandoffInv, UNCHANGED <<tr, sessVars, audit, late>>,
         Tick \/ (\E i \in 1..Len(cmds) : Commit(i)) \/ UNCHANGED lockVars
  PROVE  HandoffInv'
<1>1. tr' = tr
  OBVIOUS
<1>2. LockInv'
  <2>1. UNCHANGED lockVars => LockInv'
    BY <1>1, MiddleKeepsLock DEF HandoffInv
  <2>2. QED
    BY <1>1, <2>1, TickKeepsLock, CommitKeepsLock DEF HandoffInv
<1>3. SessionInv'
  <2>1. UNCHANGED <<tr, ws, reg, session, mailbox, reply, audit, late>> /\ SessionInv
    BY DEF HandoffInv, sessVars
  <2>2. TransferTypes' /\ OneLive'
    BY <2>1 DEF SessionInv, TransferTypes, OneLive, Attached
  <2>3. Connected' = Connected
    BY <2>1 DEF Connected
  <2>4. \A e : Begun(e)' <=> Begun(e)
    BY <2>1 DEF Begun
  <2>5. Refs' /\ Queue' /\ Asking'
    BY <2>1, <2>3, <2>4 DEF SessionInv, Refs, Queue, Asking
  <2>6. \A o : Delivered(o)' <=> Delivered(o)
    BY <2>1, <2>3 DEF Delivered
  <2>7. \A i : Here(i)' <=> Here(i)
    BY <2>1, <2>3 DEF Here
  <2>8. Largest'
    BY <2>1, <2>3, <2>6, <2>7 DEF SessionInv, Largest
  <2>9. \A o : From(o)' <=> From(o)
    BY <2>1, <2>6, <2>7 DEF From, Where, Unwritten
  <2>10. Source'
    BY <2>1, <2>3, <2>9 DEF SessionInv, Source
  <2>11. QED
    BY <2>2, <2>5, <2>8, <2>10 DEF SessionInv
<1>4. QED
  BY <1>2, <1>3 DEF HandoffInv

\* HandoffInv is inductive.
LEMMA HandoffInvKept == HandoffInv /\ [HandoffNext]_handoffVars => HandoffInv'
<1> SUFFICES ASSUME HandoffInv, [HandoffNext]_handoffVars PROVE HandoffInv'
  OBVIOUS
<1>1. ASSUME NEW o \in Owner, Transfer(o) PROVE HandoffInv'
  <2>1. CASE \E dest \in {"arena", InHub} : Start(o, dest)
    BY <2>1, StartKeeps
  <2>2. CASE Lookup(o)
    <3>1. (reg = 0 /\ Fail(o) /\ UNCHANGED mailbox) \/ reg # 0
      BY <2>2 DEF Lookup
    <3>2. QED
      BY <2>2, <3>1, LookupFailsKeeps, LookupKeeps
  <2>3. QED
    BY <1>1, <2>1, <2>2, AcquiredKeeps, AcquireFailsKeeps, AnsweredKeeps, UnansweredKeeps,
       TimesOutKeeps, AuditKeeps, ReleaseLockKeeps, ReleasedKeeps DEF Transfer
<1>2. CASE UNCHANGED handoffVars
  BY <1>2, LockKeeps DEF handoffVars
<1>3. QED
  BY <1>1, <1>2, SpawnKeeps, HandleKeeps, LockKeeps DEF HandoffNext

LEMMA HandoffInvariant == HandoffSpec => []HandoffInv
<1>1. HandoffInit => HandoffInv
  BY LockInvInit, SessionInvInit DEF HandoffInv
<1>2. QED
  BY <1>1, HandoffInvKept, PTL DEF HandoffSpec

\* Lock table, commands, transfers, sessions and audit events always have their types,
\* and no more asks time out than the bound allows.
THEOREM HandoffTypeCorrect == HandoffSpec => []HandoffTypeOK
<1>1. HandoffInv => HandoffTypeOK
  BY HandoffTypes DEF HandoffInv, SessionInv
<1>2. QED
  BY <1>1, HandoffInvariant, PTL

\* Fencing and exclusion: among transfers that acquire and release through the log, one
\* whose lease runs has the largest token of all, whatever table its answer was read from.
THEOREM LeaseHolderIsNewest == HandoffSpec => []NewestHolder
<1>1. HandoffInv => NewestHolder
  BY LockInvSuffices DEF HandoffInv
<1>2. QED
  BY <1>1, HandoffInvariant, PTL

\* When no transfer is under way, the audit event with the largest token about the live
\* session names its place, or the player is where a transfer with a token as large led
\* him that was carried out after its ask had timed out or could not be written down.
THEOREM AuditIsRight == HandoffSpec => []AuditTellsPlace
<1>1. HandoffInv => AuditTellsPlace
  BY SessionInvSuffices DEF HandoffInv
<1>2. QED
  BY <1>1, HandoffInvariant, PTL
=============================================================================
