----------------------------- MODULE OutboxProofs -----------------------------
(***************************************************************************)
(* Proofs about Outbox.tla and the event store of EventStore.tla under it, *)
(* for any streams, sizes of batches, calls, crashes, failures and lost    *)
(* acknowledgements: what Append has returned stays, the read model is     *)
(* given every event once and in order, and a message leaves the consumer  *)
(* only applied or dead.                                                   *)
(***************************************************************************)
EXTENDS Outbox, TLAPS, FiniteSetTheorems, SequenceTheorems

-----------------------------------------------------------------------------
(* The log on disk and the index of it.  K is a database, G the last       *)
(* number of the log in it, idx and bs an index of that log.               *)

\* The keys of K up to G.
KeysTo(K, G) == {h \in 1..G : K[h] # NoBatch}

\* The events of the batch under h are h + o for these o.
Offsets(K, h) == 0..(K[h].len - 1)

EventAt(K, h, o) ==
  [global |-> h + o, stream |-> K[h].stream, seq |-> K[h].firstSeq + o, tag |-> K[h].tag]

\* The events of K up to G.
Written(K, G) == {e \in Event : \E h \in KeysTo(K, G) : \E o \in Offsets(K, h) : e = EventAt(K, h, o)}

\* The batches lie end to end and fill 1..G.
Laid(K, G) ==
  /\ \A h \in KeysTo(K, G) : K[h].firstGlobal = h /\ h + K[h].len <= G + 1
  /\ \A h, k \in KeysTo(K, G) : h < k => h + K[h].len <= k
  /\ \A g \in 1..G : \E h \in KeysTo(K, G) : \E o \in Offsets(K, h) : g = h + o

Ascending(q) == \A i, j \in 1..Len(q) : i < j => q[i] < q[j]

\* idx lists the events of each stream by their positions in it.
Indexed(K, G, idx) ==
  /\ \A s \in Stream : Ascending(idx[s])
  /\ \A h \in KeysTo(K, G) : \A o \in Offsets(K, h) :
       /\ K[h].firstSeq + o <= Len(idx[K[h].stream])
       /\ idx[K[h].stream][K[h].firstSeq + o] = h + o
  /\ \A s \in Stream : \A i \in 1..Len(idx[s]) :
       \E h \in KeysTo(K, G) : \E o \in Offsets(K, h) : K[h].stream = s /\ K[h].firstSeq + o = i

\* bs lists the keys.
Listed(K, G, bs) ==
  /\ Ascending(bs)
  /\ \A i \in 1..Len(bs) : bs[i] \in KeysTo(K, G)
  /\ \A h \in KeysTo(K, G) : \E i \in 1..Len(bs) : bs[i] = h

Database == [Global -> Batch \cup {NoBatch}]

Log(K, G, idx, bs) ==
  /\ K \in Database /\ G \in 0..MaxEvents
  /\ idx \in [Stream -> Seq(Global)] /\ bs \in Seq(Global)
  /\ Laid(K, G) /\ Indexed(K, G, idx) /\ Listed(K, G, bs)

\* The record under G + 1, if there is one, continues the log.
Continues(K, G, idx) ==
  G + 1 \in Global /\ K[G + 1] # NoBatch =>
    /\ K[G + 1].firstGlobal = G + 1
    /\ K[G + 1].firstSeq = Len(idx[K[G + 1].stream]) + 1
    /\ G + K[G + 1].len <= MaxEvents

\* Beyond the log there is at most what a Put has left, of the Append that is
\* going on or of one whose Put failed.
UpInv ==
  /\ Log(kv, global, streamIdx, batchStarts)
  /\ Continues(kv, global, streamIdx)
  /\ \A h \in Global : kv[h] # NoBatch => h <= global + 1
  /\ pending # NoBatch => global + 1 \in Global /\ pending = kv[global + 1]
  /\ acked \subseteq Written(kv, global)

\* The log that Open will find.
Found(G, idx, bs) ==
  /\ Log(kv, G, idx, bs)
  /\ \A h \in Global : kv[h] # NoBatch => h <= G
  /\ acked \subseteq Written(kv, G)

DownInv ==
  /\ pending = NoBatch
  /\ \E G \in 0..MaxEvents, idx \in [Stream -> Seq(Global)], bs \in Seq(Global) : Found(G, idx, bs)

StoreInv == EsTypeOK /\ (up => UpInv) /\ (~up => DownInv)

-----------------------------------------------------------------------------
(* The relay, the bus and the read model.  M is a stream of messages.      *)

Holds(M, g) == \E j \in 1..Len(M) : M[j].global = g

\* The stream has all the globals up to n.
Published(M, n) == \A g \in 1..n : Holds(M, g)

\* A message has all the smaller globals before it.
Gapless(M) ==
  \A j \in 1..Len(M) : \A g \in 1..M[j].global : \E i \in 1..j : M[i].global = g

\* What the stream remembers it has stored.
Remembered(M, W) == \A id \in W : Holds(M, id)

\* No event after the checkpoint c lies before the scan, which starts at b inside the log.
Scans(K, G, b, c) ==
  /\ b <= G
  /\ \A h \in Global : K[h] # NoBatch /\ h < b => h + K[h].len <= c + 1

\* The events q, up to number n, are published in order and from what is published on.
Ready(M, q, n) ==
  /\ q # <<>> /\ \A i \in 1..Len(q) : q[i].global = q[1].global + i - 1
  /\ Published(M, q[1].global - 1)
  /\ n = q[Len(q)].global

RelayInv ==
  /\ Published(msgs, checkpoint) /\ Published(msgs, saved)
  /\ relay = "scan" => Scans(kv, global, start, checkpoint)
  /\ relay = "publish" => Ready(msgs, evs, last)
  /\ relay = "save" => Published(msgs, last)
  /\ ~up => relay = "idle"

BusInv == Gapless(msgs) /\ Remembered(msgs, window)

\* Event g is among the applied ones A or the dead ones D.
Done(A, D, g) == Holds(A, g) \/ \E e \in D : e.global = g

\* What lies before the position p, and what is numbered up to n, has been dealt with.
Seen(M, p, n, A, D) ==
  /\ \A i \in 1..(p - 1) : Done(A, D, M[i].global)
  /\ \A g \in 1..n : Done(A, D, g)

ReadInv ==
  /\ AppliedOnceInOrder
  /\ \A i \in 1..Len(applied) : applied[i].global <= lastApplied
  /\ dlqErrs = 0 => Seen(msgs, pos, lastApplied, applied, dead)

\* The rest of TypeOK.  A lost acknowledgement lets the deliveries pass MaxDeliver.
Types ==
  /\ batch \in ReadLimits /\ relay \in {"idle", "scan", "publish", "save"}
  /\ start \in 0..MaxEvents /\ last \in 0..MaxEvents
  /\ evs \in Seq(Event)
  /\ checkpoint \in 0..MaxEvents /\ saved \in 0..MaxEvents
  /\ msgs \in Seq(Event) /\ window \subseteq Global
  /\ pos \in 1..(Len(msgs) + 1) /\ deliveries \in Nat
  /\ lastApplied \in 0..MaxEvents /\ applied \in Seq(Event)
  /\ dead \subseteq Event
  /\ errors \in 0..MaxErrors /\ applyErrs \in Nat /\ dlqErrs \in Nat
  /\ deliveries <= MaxDeliver + errors

OutboxInv == StoreInv /\ Types /\ RelayInv /\ BusInv /\ ReadInv

-----------------------------------------------------------------------------
(* Counting and sorting.                                                   *)

\* A set numbered from 1 to n, each number once, has n elements.
LEMMA CountIs ==
  ASSUME NEW n \in Nat, NEW S, NEW f \in [1..n -> S],
         \A i, j \in 1..n : f[i] = f[j] => i = j,
         \A x \in S : \E i \in 1..n : f[i] = x
  PROVE  IsFiniteSet(S) /\ Cardinality(S) = n
<1>1. IsFiniteSet(1..n) /\ Cardinality(1..n) = n
  BY FS_Interval
<1>2. f \in Bijection(1..n, S)
  BY DEF Bijection, Injection, Surjection, IsInjective
<1>3. ExistsBijection(1..n, S)
  BY <1>2 DEF ExistsBijection
<1>4. QED
  BY <1>1, <1>3, FS_Bijection

LEMMA CountBy ==
  ASSUME NEW n \in Nat, NEW E, NEW num \in [E -> 1..n],
         \A d, e \in E : num[d] = num[e] => d = e,
         \A i \in 1..n : \E e \in E : num[e] = i
  PROVE  IsFiniteSet(E) /\ Cardinality(E) = n
<1> DEFINE f == [i \in 1..n |-> CHOOSE e \in E : num[e] = i]
<1>1. \A i \in 1..n : f[i] \in E /\ num[f[i]] = i
  OBVIOUS
<1>2. f \in [1..n -> E]
  BY <1>1
<1> HIDE DEF f
<1>3. \A i, j \in 1..n : f[i] = f[j] => i = j
  BY <1>1
<1>4. \A e \in E : \E i \in 1..n : f[i] = e
  <2>1. TAKE e \in E
  <2>2. num[e] \in 1..n /\ f[num[e]] \in E /\ num[f[num[e]]] = num[e]
    BY <1>1
  <2>3. QED
    BY <2>2
<1>5. QED
  BY <1>2, <1>3, <1>4, CountIs

\* In an ascending sequence the i-th number has i - 1 smaller ones.
LEMMA SmallerAre ==
  ASSUME NEW q \in Seq(Nat), Ascending(q), NEW i \in 1..Len(q),
         NEW S, \A x : x \in S <=> \E j \in 1..Len(q) : q[j] = x
  PROVE  Cardinality({y \in S : y < q[i]}) = i - 1
<1> DEFINE T == {y \in S : y < q[i]}
           f == [j \in 1..(i - 1) |-> q[j]]
<1>1. Len(q) \in Nat /\ i \in Nat /\ \A j \in 1..Len(q) : q[j] \in Nat
  BY LenProperties
<1>2. \A j, k \in 1..Len(q) : j < k => q[j] < q[k]
  BY DEF Ascending
<1>3. \A j \in 1..(i - 1) : q[j] \in S /\ q[j] < q[i]
  BY <1>1, <1>2
<1>4. f \in [1..(i - 1) -> T]
  BY <1>3
<1>5. \A j, k \in 1..(i - 1) : f[j] = f[k] => j = k
  <2>1. \A j, k \in 1..(i - 1) : j < k => q[j] < q[k]
    BY <1>1, <1>2
  <2>2. \A j \in 1..(i - 1) : q[j] \in Nat
    BY <1>1
  <2>3. QED
    BY <1>1, <2>1, <2>2
<1>6. \A y \in T : \E j \in 1..(i - 1) : f[j] = y
  <2>1. TAKE y \in T
  <2>2. PICK j \in 1..Len(q) : q[j] = y
    OBVIOUS
  <2>3. y < q[i] /\ y \in Nat /\ q[i] \in Nat
    BY <1>1, <2>2
  <2>4. j < i
    BY <1>1, <1>2, <2>2, <2>3
  <2>5. QED
    BY <1>1, <2>2, <2>4
<1> HIDE DEF f, T
<1>7. Cardinality(T) = i - 1
  <2>1. PICK n \in Nat : n = i - 1
    BY <1>1
  <2>2. QED
    BY <1>4, <1>5, <1>6, <2>1, CountIs
<1>8. QED
  BY <1>7 DEF T

\* Sorted lists a set as the one ascending sequence of its numbers.
LEMMA SortedIs ==
  ASSUME NEW q \in Seq(Nat), Ascending(q),
         NEW S, \A x : x \in S <=> \E j \in 1..Len(q) : q[j] = x
  PROVE  Sorted(S) = q /\ Cardinality(S) = Len(q)
<1>1. Len(q) \in Nat /\ q = [i \in 1..Len(q) |-> q[i]] /\ \A j \in 1..Len(q) : q[j] \in Nat
  BY LenProperties
<1>2. \A j, k \in 1..Len(q) : j < k => q[j] < q[k]
  BY DEF Ascending
<1>3. Cardinality(S) = Len(q)
  <2>1. q \in [1..Len(q) -> S]
    BY <1>1
  <2>2. \A i, j \in 1..Len(q) : q[i] = q[j] => i = j
    BY <1>1, <1>2
  <2>3. QED
    BY <1>1, <2>1, <2>2, CountIs
<1>4. \A i \in 1..Len(q) : Cardinality({y \in S : y < q[i]}) = i - 1
  BY SmallerAre
<1>5. \A i \in 1..Len(q) : (CHOOSE x \in S : Cardinality({y \in S : y < x}) = i - 1) = q[i]
  <2>1. TAKE i \in 1..Len(q)
  <2>2. \A x \in S : Cardinality({y \in S : y < x}) = i - 1 => x = q[i]
    <3>1. TAKE x \in S
    <3>2. PICK j \in 1..Len(q) : q[j] = x
      OBVIOUS
    <3>3. Cardinality({y \in S : y < x}) = j - 1
      BY <1>4, <3>2
    <3>4. QED
      BY <3>2, <3>3
  <2>3. q[i] \in S /\ Cardinality({y \in S : y < q[i]}) = i - 1
    BY <1>4
  <2>4. QED
    BY <2>2, <2>3
<1>6. QED
  BY <1>1, <1>3, <1>5 DEF Sorted

-----------------------------------------------------------------------------
(* The events of a log.                                                    *)

LEMMA FunctionIsSeq ==
  ASSUME NEW S, NEW n \in Nat, NEW q \in [1..n -> S]
  PROVE  q \in Seq(S) /\ Len(q) = n
  OBVIOUS

LEMMA BatchIs ==
  ASSUME NEW b \in Batch
  PROVE  /\ b.stream \in Stream /\ b.firstSeq \in Global /\ b.firstGlobal \in Global
         /\ b.len \in 1..MaxBatch /\ b.tag \in Nat
         /\ b.firstSeq \in Nat \ {0} /\ b.firstGlobal \in Nat \ {0} /\ b.len \in Nat \ {0}
         /\ b # NoBatch
  BY EventStoreAssumption, NoBatchAssumption DEF Batch, Global

LEMMA EventsAre ==
  ASSUME NEW b \in Batch, NEW e
  PROVE  e \in ToSet(Events(b)) <=>
           \E o \in 0..(b.len - 1) :
             e = [global |-> b.firstGlobal + o, stream |-> b.stream,
                  seq |-> b.firstSeq + o, tag |-> b.tag]
<1> DEFINE At(o) == [global |-> b.firstGlobal + o, stream |-> b.stream,
                     seq |-> b.firstSeq + o, tag |-> b.tag]
<1>1. /\ b.len \in Nat /\ b.firstGlobal \in Nat /\ b.firstSeq \in Nat
  BY BatchIs
<1>2. \A i \in 1..b.len : Events(b)[i] = At(i - 1)
  <2>1. \A i \in 1..b.len : /\ b.firstGlobal + i - 1 = b.firstGlobal + (i - 1)
                            /\ b.firstSeq + i - 1 = b.firstSeq + (i - 1)
    BY <1>1
  <2>2. QED
    BY <2>1 DEF Events
<1>3. DOMAIN Events(b) = 1..b.len
  BY DEF Events
<1> HIDE DEF At
<1>4. e \in ToSet(Events(b)) <=> \E i \in 1..b.len : e = At(i - 1)
  BY <1>2, <1>3 DEF ToSet
<1>5. (\E i \in 1..b.len : e = At(i - 1)) <=> \E o \in 0..(b.len - 1) : e = At(o)
  <2>1. ASSUME NEW o \in 0..(b.len - 1), e = At(o)
        PROVE  \E i \in 1..b.len : e = At(i - 1)
    <3>1. o + 1 \in 1..b.len /\ (o + 1) - 1 = o
      BY <1>1
    <3>2. QED
      BY <2>1, <3>1
  <2>2. \A i \in 1..b.len : i - 1 \in 0..(b.len - 1)
    BY <1>1
  <2>3. QED
    BY <2>1, <2>2
<1>6. QED
  BY <1>4, <1>5 DEF At

\* A sequence of different numbers up to n, in order, is no longer than n.
LEMMA AscendingIsShort ==
  ASSUME NEW n \in Nat, NEW q \in Seq(1..n), Ascending(q)
  PROVE  Len(q) <= n
<1> DEFINE S == {q[i] : i \in 1..Len(q)}
<1>1. Len(q) \in Nat /\ q \in [1..Len(q) -> 1..n]
  BY LenProperties
<1>2. \A i \in 1..Len(q) : q[i] \in 1..n /\ q[i] \in Nat
  BY <1>1
<1>3. \A i, j \in 1..Len(q) : i < j => q[i] < q[j]
  BY DEF Ascending
<1>4. \A i, j \in 1..Len(q) : q[i] = q[j] => i = j
  BY <1>1, <1>2, <1>3
<1>5. q \in [1..Len(q) -> S] /\ \A x \in S : \E i \in 1..Len(q) : q[i] = x
  BY <1>1
<1>6. S \subseteq 1..n
  BY <1>2
<1> HIDE DEF S
<1>7. Cardinality(S) = Len(q)
  BY <1>1, <1>4, <1>5, CountIs
<1>8. IsFiniteSet(1..n) /\ Cardinality(1..n) = n
  BY FS_Interval
<1>9. Cardinality(S) <= n
  BY <1>6, <1>8, FS_Subset
<1>10. QED
  BY <1>7, <1>9

LEMMA KeyIs ==
  ASSUME NEW K \in Database, NEW G \in 0..MaxEvents, NEW h \in KeysTo(K, G)
  PROVE  /\ h \in 1..G /\ h \in Global /\ h \in Nat \ {0} /\ G \in Nat
         /\ K[h] \in Batch /\ K[h] # NoBatch
         /\ K[h].len \in Nat \ {0} /\ K[h].firstSeq \in Nat \ {0} /\ K[h].stream \in Stream
         /\ \A o \in Offsets(K, h) : o \in Nat /\ o < K[h].len
<1>1. /\ h \in 1..G /\ h \in Global /\ h \in Nat \ {0} /\ G \in Nat /\ K[h] # NoBatch
  BY EventStoreAssumption DEF KeysTo, Global
<1>2. K[h] \in Batch
  BY <1>1 DEF Database
<1>3. QED
  BY <1>1, <1>2, BatchIs DEF Offsets

LEMMA LogIs ==
  ASSUME NEW K, NEW G, NEW idx, NEW bs, Log(K, G, idx, bs)
  PROVE  /\ G \in Nat
         /\ \A s \in Stream : /\ Len(idx[s]) \in 0..G
                              /\ idx[s] \in Seq(1..G)
                              /\ \A i \in 1..Len(idx[s]) : idx[s][i] \in 1..G
         /\ \A h \in KeysTo(K, G) : \A o \in Offsets(K, h) :
              h + o \in 1..G /\ EventAt(K, h, o) \in Event
         /\ \A h, k \in KeysTo(K, G) : \A o \in Offsets(K, h), p \in Offsets(K, k) :
              h + o = k + p => h = k /\ o = p
<1>1. K \in Database /\ G \in 0..MaxEvents /\ G \in Nat /\ MaxEvents \in Nat /\ G <= MaxEvents
  BY EventStoreAssumption DEF Log
<1>2. \A h \in KeysTo(K, G) : \A o \in Offsets(K, h) : h + o \in 1..G
  <2>1. TAKE h \in KeysTo(K, G)
  <2>2. TAKE o \in Offsets(K, h)
  <2>3. h \in Nat \ {0} /\ o \in Nat /\ o < K[h].len /\ K[h].len \in Nat
    BY <1>1, KeyIs
  <2>4. h + K[h].len <= G + 1
    BY DEF Log, Laid
  <2>5. QED
    BY <1>1, <2>3, <2>4
<1>3. \A s \in Stream : /\ idx[s] \in Seq(Global) /\ Len(idx[s]) \in Nat
  BY LenProperties DEF Log
<1>4. \A s \in Stream : \A i \in 1..Len(idx[s]) : idx[s][i] \in 1..G
  <2>1. TAKE s \in Stream
  <2>2. TAKE i \in 1..Len(idx[s])
  <2>3. PICK h \in KeysTo(K, G) : \E o \in Offsets(K, h) : K[h].stream = s /\ K[h].firstSeq + o = i
    BY DEF Log, Indexed
  <2>4. PICK o \in Offsets(K, h) : K[h].stream = s /\ K[h].firstSeq + o = i
    BY <2>3
  <2>5. idx[s][i] = h + o
    BY <2>4 DEF Log, Indexed
  <2>6. QED
    BY <1>2, <2>5
<1>5. \A s \in Stream : idx[s] \in Seq(1..G) /\ Len(idx[s]) <= G
  <2>1. TAKE s \in Stream
  <2>2. idx[s] \in Seq(1..G)
    <3>1. DOMAIN idx[s] = 1..Len(idx[s]) /\ idx[s] = [i \in 1..Len(idx[s]) |-> idx[s][i]]
      BY <1>3, LenProperties
    <3>2. idx[s] \in [1..Len(idx[s]) -> 1..G]
      BY <1>4, <3>1
    <3>3. QED
      BY <1>3, <3>2, FunctionIsSeq
  <2>3. Ascending(idx[s])
    BY DEF Log, Indexed
  <2>4. QED
    BY <1>1, <2>2, <2>3, AscendingIsShort
<1>6. \A h \in KeysTo(K, G) : \A o \in Offsets(K, h) : EventAt(K, h, o) \in Event
  <2>1. TAKE h \in KeysTo(K, G)
  <2>2. TAKE o \in Offsets(K, h)
  <2>3. /\ h \in Nat \ {0} /\ o \in Nat /\ K[h] \in Batch /\ K[h].firstSeq \in Nat \ {0}
        /\ K[h].stream \in Stream
    BY <1>1, KeyIs
  <2>4. K[h].firstSeq + o <= Len(idx[K[h].stream])
    BY DEF Log, Indexed
  <2>5. Len(idx[K[h].stream]) \in Nat /\ Len(idx[K[h].stream]) <= G
    BY <1>3, <1>5, <2>3
  <2>6. K[h].firstSeq + o \in Global
    BY <1>1, <2>3, <2>4, <2>5 DEF Global
  <2>7. h + o \in Global
    BY <1>1, <1>2 DEF Global
  <2>8. K[h].tag \in Nat
    BY <2>3, BatchIs
  <2>9. QED
    BY <2>3, <2>6, <2>7, <2>8 DEF EventAt, Event
<1>7. \A h, k \in KeysTo(K, G) : \A o \in Offsets(K, h), p \in Offsets(K, k) :
        h + o = k + p => h = k /\ o = p
  <2>1. TAKE h, k \in KeysTo(K, G)
  <2>2. TAKE o \in Offsets(K, h), p \in Offsets(K, k)
  <2>3. HAVE h + o = k + p
  <2>4. /\ h \in Nat /\ k \in Nat /\ o \in Nat /\ p \in Nat
        /\ K[h].len \in Nat /\ o < K[h].len /\ K[k].len \in Nat /\ p < K[k].len
    BY <1>1, KeyIs
  <2>5. (h < k => h + K[h].len <= k) /\ (k < h => k + K[k].len <= h)
    BY DEF Log, Laid
  <2>6. QED
    BY <2>3, <2>4, <2>5
<1>8. QED
  BY <1>1, <1>2, <1>3, <1>4, <1>5, <1>6, <1>7

-----------------------------------------------------------------------------
(* How a log grows.                                                        *)

\* Nothing is written yet.
LEMMA EmptyLog ==
  ASSUME NEW K \in Database, NEW idx, idx = [s \in Stream |-> <<>>]
  PROVE  Log(K, 0, idx, <<>>) /\ Written(K, 0) = {}
<1>1. KeysTo(K, 0) = {}
  BY DEF KeysTo
<1>2. 0 \in 0..MaxEvents
  BY EventStoreAssumption
<1>3. <<>> \in Seq(Global) /\ Len(<<>>) = 0
  BY EmptySeq
<1>4. idx \in [Stream -> Seq(Global)] /\ \A s \in Stream : idx[s] = <<>>
  BY <1>3
<1>5. QED
  BY <1>1, <1>2, <1>3, <1>4 DEF Log, Laid, Indexed, Listed, Ascending, Written

\* A record beyond the end changes nothing of the log.
LEMMA LogKept ==
  ASSUME NEW K, NEW G, NEW idx, NEW bs, Log(K, G, idx, bs),
         NEW L \in Database, \A h \in 1..G : L[h] = K[h]
  PROVE  Log(L, G, idx, bs) /\ Written(L, G) = Written(K, G)
<1>1. KeysTo(L, G) = KeysTo(K, G)
  BY DEF KeysTo
<1>2. \A h \in KeysTo(K, G) : L[h] = K[h] /\ Offsets(L, h) = Offsets(K, h)
  BY DEF KeysTo, Offsets
<1>3. \A h \in KeysTo(K, G) : \A o : EventAt(L, h, o) = EventAt(K, h, o)
  BY <1>2 DEF EventAt
<1>4. Written(L, G) = Written(K, G)
  BY <1>1, <1>2, <1>3 DEF Written
<1>5. Laid(L, G)
  <2>1. /\ \A h \in KeysTo(K, G) : K[h].firstGlobal = h /\ h + K[h].len <= G + 1
        /\ \A h, k \in KeysTo(K, G) : h < k => h + K[h].len <= k
        /\ \A g \in 1..G : \E h \in KeysTo(K, G) : \E o \in Offsets(K, h) : g = h + o
    BY DEF Log, Laid
  <2>2. \A h \in KeysTo(K, G) : L[h].firstGlobal = h /\ h + L[h].len <= G + 1
    BY <1>2, <2>1
  <2>3. \A h, k \in KeysTo(K, G) : h < k => h + L[h].len <= k
    BY <1>2, <2>1
  <2>4. \A g \in 1..G : \E h \in KeysTo(K, G) : \E o \in Offsets(L, h) : g = h + o
    BY <1>2, <2>1
  <2>5. QED
    BY <1>1, <2>2, <2>3, <2>4 DEF Laid
<1>6. Indexed(L, G, idx)
  <2>1. /\ \A s \in Stream : Ascending(idx[s])
        /\ \A h \in KeysTo(K, G) : \A o \in Offsets(K, h) :
             /\ K[h].firstSeq + o <= Len(idx[K[h].stream])
             /\ idx[K[h].stream][K[h].firstSeq + o] = h + o
        /\ \A s \in Stream : \A i \in 1..Len(idx[s]) :
             \E h \in KeysTo(K, G) : \E o \in Offsets(K, h) :
               K[h].stream = s /\ K[h].firstSeq + o = i
    BY DEF Log, Indexed
  <2>2. \A h \in KeysTo(K, G) : \A o \in Offsets(L, h) :
          /\ L[h].firstSeq + o <= Len(idx[L[h].stream])
          /\ idx[L[h].stream][L[h].firstSeq + o] = h + o
    BY <1>2, <2>1
  <2>3. \A s \in Stream : \A i \in 1..Len(idx[s]) :
          \E h \in KeysTo(K, G) : \E o \in Offsets(L, h) :
            L[h].stream = s /\ L[h].firstSeq + o = i
    BY <1>2, <2>1
  <2>4. QED
    BY <1>1, <2>1, <2>2, <2>3 DEF Indexed
<1>7. Listed(L, G, bs)
  BY <1>1 DEF Log, Listed
<1>8. QED
  BY <1>4, <1>5, <1>6, <1>7 DEF Log

LEMMA AscendingMore ==
  ASSUME NEW q \in Seq(Nat), NEW r \in Seq(Nat), NEW G \in Nat,
         Ascending(q), \A i \in 1..Len(q) : q[i] <= G,
         \A i \in 1..Len(r) : r[i] = G + i
  PROVE  Ascending(q \o r)
<1>1. /\ Len(q) \in Nat /\ Len(r) \in Nat /\ Len(q \o r) = Len(q) + Len(r)
      /\ \A i \in 1..(Len(q) + Len(r)) :
           (q \o r)[i] = IF i <= Len(q) THEN q[i] ELSE r[i - Len(q)]
      /\ \A i \in 1..Len(q) : q[i] \in Nat
  BY ConcatProperties, LenProperties
<1>2. \A i, j \in 1..Len(q) : i < j => q[i] < q[j]
  BY DEF Ascending
<1>3. SUFFICES ASSUME NEW i \in 1..(Len(q) + Len(r)), NEW j \in 1..(Len(q) + Len(r)), i < j
               PROVE  (q \o r)[i] < (q \o r)[j]
  BY <1>1 DEF Ascending
<1>4. CASE j <= Len(q)
  <2>1. i \in 1..Len(q) /\ j \in 1..Len(q)
    BY <1>1, <1>3, <1>4
  <2>2. (q \o r)[i] = q[i] /\ (q \o r)[j] = q[j]
    BY <1>1, <2>1
  <2>3. QED
    BY <1>2, <1>3, <2>1, <2>2
<1>5. CASE j > Len(q)
  <2>1. j - Len(q) \in 1..Len(r)
    BY <1>1, <1>5
  <2>2. (q \o r)[j] = G + (j - Len(q))
    BY <1>1, <1>5, <2>1
  <2>3. CASE i <= Len(q)
    <3>1. i \in 1..Len(q) /\ (q \o r)[i] = q[i] /\ q[i] \in Nat /\ q[i] <= G
      BY <1>1, <2>3
    <3>2. QED
      BY <1>1, <2>1, <2>2, <3>1, SMTT(30)
  <2>4. CASE i > Len(q)
    <3>1. i - Len(q) \in 1..Len(r)
      BY <1>1, <2>4
    <3>2. (q \o r)[i] = G + (i - Len(q))
      BY <1>1, <2>4, <3>1
    <3>3. QED
      BY <1>1, <1>3, <2>2, <3>2
  <2>5. QED
    BY <1>1, <2>3, <2>4
<1>6. QED
  BY <1>1, <1>4, <1>5, SMTT(30)

\* The numbers that a batch of n events gets after G.
After(G, n) == [i \in 1..n |-> G + i]

LEMMA AfterIs ==
  ASSUME NEW G \in Nat, NEW n \in Nat, G + n <= MaxEvents
  PROVE  /\ After(G, n) \in Seq(Nat) /\ After(G, n) \in Seq(Global)
         /\ Len(After(G, n)) = n
         /\ \A i \in 1..n : After(G, n)[i] = G + i
<1>1. \A i \in 1..n : G + i \in Nat /\ G + i \in Global
  BY EventStoreAssumption DEF Global
<1>2. After(G, n) \in [1..n -> Nat] /\ After(G, n) \in [1..n -> Global]
  BY <1>1 DEF After
<1>3. QED
  BY <1>2, FunctionIsSeq DEF After

\* The record that continues the log becomes part of it when the index has it.
LEMMA LogGrows ==
  ASSUME NEW K, NEW G, NEW idx, NEW bs, Log(K, G, idx, bs),
         G + 1 \in Global, K[G + 1] # NoBatch, Continues(K, G, idx),
         \A h \in Global : K[h] # NoBatch => h <= G + 1,
         NEW b, b = K[G + 1]
  PROVE  /\ Log(K, G + b.len,
                [idx EXCEPT ![b.stream] = @ \o After(G, b.len)],
                Append(bs, G + 1))
         /\ KeysTo(K, G + b.len) = KeysTo(K, G) \cup {G + 1}
         /\ Written(K, G) \subseteq Written(K, G + b.len)
         /\ ToSet(Events(b)) \subseteq Written(K, G + b.len)
<1>1. /\ K \in Database /\ G \in 0..MaxEvents /\ G \in Nat /\ MaxEvents \in Nat
      /\ idx \in [Stream -> Seq(Global)] /\ bs \in Seq(Global)
  BY EventStoreAssumption DEF Log
<1>2. b \in Batch /\ b.stream \in Stream /\ b.len \in Nat \ {0}
  <2>1. b \in Batch
    BY <1>1 DEF Database
  <2>2. QED
    BY <2>1, BatchIs
<1>n. PICK n \in Nat \ {0} : n = b.len
  BY <1>2
<1>s. PICK s \in Stream : s = b.stream
  BY <1>2
<1>m. PICK m \in Nat : m = Len(idx[s])
  BY LogIs
<1>N. PICK N \in Nat : N = G + n
  BY <1>1
<1> DEFINE a == After(G, n)
           jdx == [idx EXCEPT ![s] = @ \o a]
           cs == Append(bs, G + 1)
<1>3. b.firstGlobal = G + 1 /\ b.firstSeq = m + 1 /\ N <= MaxEvents
  BY <1>n, <1>s, <1>m, <1>N DEF Continues
<1>4. /\ a \in Seq(Nat) /\ a \in Seq(Global) /\ Len(a) = n
      /\ \A i \in 1..n : a[i] = G + i
  BY <1>1, <1>3, <1>N, AfterIs
<1> HIDE DEF a
<1>5. KeysTo(K, N) = KeysTo(K, G) \cup {G + 1}
  <2>1. ASSUME NEW h \in KeysTo(K, N)
        PROVE  h \in KeysTo(K, G) \cup {G + 1}
    <3>1. h \in Global /\ h \in Nat /\ K[h] # NoBatch /\ h >= 1
      BY <1>1, <1>3 DEF KeysTo, Global
    <3>2. h <= G + 1
      BY <3>1
    <3>3. QED
      BY <1>1, <3>1, <3>2 DEF KeysTo
  <2>2. KeysTo(K, G) \subseteq KeysTo(K, N)
    BY <1>1, <1>N DEF KeysTo
  <2>3. G + 1 \in KeysTo(K, N)
    BY <1>1, <1>N DEF KeysTo
  <2>4. QED
    BY <2>1, <2>2, <2>3
<1>6. /\ \A h \in KeysTo(K, G) : h # G + 1 /\ h <= G /\ h \in Nat /\ K[h].len \in Nat \ {0}
      /\ Offsets(K, G + 1) = 0..(n - 1)
      /\ G + 1 \in KeysTo(K, N)
  <2>1. \A h \in KeysTo(K, G) : h \in 1..G /\ h \in Nat /\ K[h].len \in Nat \ {0}
    BY <1>1, KeyIs
  <2>2. QED
    BY <1>1, <1>5, <1>n, <2>1 DEF Offsets
<1>7. /\ \A h \in KeysTo(K, G) : K[h].firstGlobal = h /\ h + K[h].len <= G + 1
      /\ \A h, k \in KeysTo(K, G) : h < k => h + K[h].len <= k
      /\ \A g \in 1..G : \E h \in KeysTo(K, G) : \E o \in Offsets(K, h) : g = h + o
  BY DEF Log, Laid
<1>8. Laid(K, N)
  <2>1. \A h \in KeysTo(K, N) : K[h].firstGlobal = h /\ h + K[h].len <= N + 1
    <3>1. \A h \in KeysTo(K, G) : K[h].firstGlobal = h /\ h + K[h].len <= N + 1
      BY <1>1, <1>6, <1>7, <1>N
    <3>2. b.firstGlobal = G + 1 /\ (G + 1) + b.len <= N + 1
      BY <1>1, <1>3, <1>n, <1>N, SMTT(30)
    <3>3. QED
      BY <1>5, <3>1, <3>2
  <2>2. ASSUME NEW h \in KeysTo(K, N), NEW k \in KeysTo(K, N), h < k
        PROVE  h + K[h].len <= k
    <3>1. h \in KeysTo(K, G)
      BY <1>1, <1>5, <1>6, <2>2
    <3>2. QED
      BY <1>5, <1>7, <2>2, <3>1
  <2>3. \A g \in 1..N : \E h \in KeysTo(K, N) : \E o \in Offsets(K, h) : g = h + o
    <3>1. TAKE g \in 1..N
    <3>2. CASE g <= G
      BY <1>1, <1>5, <1>7, <3>2
    <3>3. CASE g > G
      <4>1. g - (G + 1) \in 0..(n - 1) /\ g = (G + 1) + (g - (G + 1))
        BY <1>1, <1>N, <3>3
      <4>2. QED
        BY <1>6, <4>1
    <3>4. QED
      BY <1>1, <3>2, <3>3
  <2>4. QED
    BY <2>1, <2>2, <2>3 DEF Laid
<1>9. /\ \A t \in Stream : Ascending(idx[t])
      /\ \A h \in KeysTo(K, G) : \A o \in Offsets(K, h) :
           /\ K[h].firstSeq + o <= Len(idx[K[h].stream])
           /\ idx[K[h].stream][K[h].firstSeq + o] = h + o
      /\ \A t \in Stream : \A i \in 1..Len(idx[t]) :
           \E h \in KeysTo(K, G) : \E o \in Offsets(K, h) : K[h].stream = t /\ K[h].firstSeq + o = i
  BY DEF Log, Indexed
<1>10. /\ \A t \in Stream : idx[t] \in Seq(Global) /\ idx[t] \in Seq(Nat) /\ Len(idx[t]) \in Nat
       /\ \A t \in Stream : \A i \in 1..Len(idx[t]) : idx[t][i] <= G
  <2>1. Global \subseteq Nat
    BY DEF Global
  <2>2. \A t \in Stream : idx[t] \in Seq(Global)
    BY <1>1
  <2>3. \A t \in Stream : idx[t] \in Seq(Nat)
    BY <2>1, <2>2, SeqMonotonic
  <2>4. QED
    BY <1>1, <2>2, <2>3, LogIs
<1>11. /\ jdx \in [Stream -> Seq(Global)]
       /\ jdx[s] = idx[s] \o a /\ \A t \in Stream : t # s => jdx[t] = idx[t]
  <2>1. idx[s] \o a \in Seq(Global)
    BY <1>4, <1>10, ConcatProperties
  <2>2. QED
    BY <1>1, <2>1
<1>12. /\ Len(jdx[s]) = m + n
       /\ \A i \in 1..m : jdx[s][i] = idx[s][i]
       /\ \A i \in 1..n : jdx[s][m + i] = G + i
  <2>1. /\ Len(idx[s] \o a) = m + Len(a)
        /\ \A i \in 1..(m + Len(a)) :
             (idx[s] \o a)[i] = IF i <= m THEN idx[s][i] ELSE a[i - m]
    <3>1. PICK q \in Seq(Global) : q = idx[s]
      BY <1>10
    <3>2. /\ Len(q \o a) = Len(q) + Len(a)
          /\ \A i \in 1..(Len(q) + Len(a)) :
               (q \o a)[i] = IF i <= Len(q) THEN q[i] ELSE a[i - Len(q)]
      BY <1>4, ConcatProperties
    <3>3. Len(q) = m
      BY <1>m, <3>1
    <3>4. QED
      BY <3>1, <3>2, <3>3
  <2>2. \A i \in 1..n : (idx[s] \o a)[m + i] = a[i]
    <3>1. TAKE i \in 1..n
    <3>2. PICK k \in Nat : k = m + i
      OBVIOUS
    <3>3. k \in 1..(m + Len(a)) /\ ~(k <= m) /\ k - m = i
      BY <1>4, <3>2
    <3>4. QED
      BY <2>1, <3>2, <3>3
  <2>3. \A i \in 1..m : (idx[s] \o a)[i] = idx[s][i]
    BY <1>4, <2>1
  <2>4. QED
    BY <1>4, <1>11, <2>1, <2>2, <2>3
<1>13. \A t \in Stream : Ascending(jdx[t])
  <2>1. Ascending(jdx[s])
    <3>1. \A i \in 1..Len(a) : a[i] = G + i
      BY <1>4
    <3>2. \A i \in 1..Len(idx[s]) : idx[s][i] <= G
      BY <1>10
    <3>3. Ascending(idx[s]) /\ idx[s] \in Seq(Nat) /\ a \in Seq(Nat)
      BY <1>4, <1>9, <1>10
    <3>4. Ascending(idx[s] \o a)
      BY <1>1, <3>1, <3>2, <3>3, AscendingMore
    <3>5. QED
      BY <1>11, <3>4
  <2>2. QED
    BY <1>9, <1>11, <2>1
<1> HIDE DEF jdx
<1>14. \A h \in KeysTo(K, N) : \A o \in Offsets(K, h) :
         /\ K[h].firstSeq + o <= Len(jdx[K[h].stream])
         /\ jdx[K[h].stream][K[h].firstSeq + o] = h + o
  <2>1. ASSUME NEW h \in KeysTo(K, G), NEW o \in Offsets(K, h)
        PROVE  /\ K[h].firstSeq + o <= Len(jdx[K[h].stream])
               /\ jdx[K[h].stream][K[h].firstSeq + o] = h + o
    <3>1. /\ K[h].stream \in Stream /\ K[h].firstSeq \in Nat \ {0} /\ o \in Nat
      BY <1>1, KeyIs
    <3>2. /\ K[h].firstSeq + o <= Len(idx[K[h].stream])
          /\ idx[K[h].stream][K[h].firstSeq + o] = h + o
      BY <1>9
    <3>3. K[h].firstSeq + o \in 1..Len(idx[K[h].stream])
      BY <1>10, <3>1, <3>2
    <3>4. CASE K[h].stream = s
      <4>1. m <= Len(jdx[s])
        BY <1>12
      <4>2. PICK i \in Nat : i = K[h].firstSeq + o
        BY <3>1
      <4>3. i \in 1..m /\ idx[s][i] = h + o
        BY <1>m, <3>2, <3>3, <3>4, <4>2
      <4>4. QED
        BY <1>12, <3>4, <4>1, <4>2, <4>3
    <3>5. CASE K[h].stream # s
      BY <1>11, <3>1, <3>2, <3>5
    <3>6. QED
      BY <3>4, <3>5
  <2>2. ASSUME NEW o \in Offsets(K, G + 1)
        PROVE  /\ m + 1 + o <= Len(jdx[s])
               /\ jdx[s][m + 1 + o] = (G + 1) + o
    <3>1. o \in 0..(n - 1) /\ o + 1 \in 1..n
      BY <1>6
    <3>2. m + 1 + o = m + (o + 1)
      BY <3>1
    <3>3. jdx[s][m + (o + 1)] = G + (o + 1)
      BY <1>12, <3>1
    <3>4. QED
      BY <1>1, <1>12, <3>1, <3>2, <3>3
  <2>3. QED
    BY <1>3, <1>5, <1>s, <2>1, <2>2
<1>15. \A t \in Stream : \A i \in 1..Len(jdx[t]) :
         \E h \in KeysTo(K, N) : \E o \in Offsets(K, h) : K[h].stream = t /\ K[h].firstSeq + o = i
  <2>1. TAKE t \in Stream
  <2>2. TAKE i \in 1..Len(jdx[t])
  <2>3. CASE i \in 1..Len(idx[t])
    BY <1>5, <1>9, <2>3
  <2>4. CASE i \notin 1..Len(idx[t])
    <3>1. t = s
      BY <1>11, <2>4
    <3>2. i \in Nat /\ i > m /\ i <= m + n
      BY <1>12, <1>m, <2>4, <3>1
    <3>3. i - (m + 1) \in 0..(n - 1) /\ (m + 1) + (i - (m + 1)) = i
      BY <3>2
    <3>4. QED
      BY <1>3, <1>6, <1>s, <3>1, <3>3
  <2>5. QED
    BY <2>3, <2>4
<1>16. Indexed(K, N, jdx)
  BY <1>13, <1>14, <1>15 DEF Indexed
<1>17. cs \in Seq(Global) /\ Listed(K, N, cs)
  <2>1. /\ cs \in Seq(Global) /\ Len(cs) = Len(bs) + 1 /\ Len(bs) \in Nat
        /\ \A i \in 1..Len(bs) : cs[i] = bs[i]
        /\ cs[Len(bs) + 1] = G + 1
    BY <1>1, AppendProperties, LenProperties
  <2> HIDE DEF cs
  <2>2. /\ \A i, j \in 1..Len(bs) : i < j => bs[i] < bs[j]
        /\ \A i \in 1..Len(bs) : bs[i] \in KeysTo(K, G)
        /\ \A h \in KeysTo(K, G) : \E i \in 1..Len(bs) : bs[i] = h
    BY DEF Log, Listed, Ascending
  <2>3. \A i \in 1..Len(bs) : bs[i] \in Nat /\ bs[i] < G + 1
    BY <1>1, <1>6, <2>2
  <2>4. ASSUME NEW i \in 1..Len(cs), NEW j \in 1..Len(cs), i < j
        PROVE  cs[i] < cs[j]
    <3>1. i \in 1..Len(bs)
      BY <2>1, <2>4
    <3>2. CASE j \in 1..Len(bs)
      BY <2>1, <2>2, <2>4, <3>1, <3>2
    <3>3. CASE j = Len(bs) + 1
      BY <2>1, <2>3, <3>1, <3>3
    <3>4. QED
      BY <2>1, <3>2, <3>3
  <2>5. \A i \in 1..Len(cs) : cs[i] \in KeysTo(K, N)
    <3>1. TAKE i \in 1..Len(cs)
    <3>2. i \in 1..Len(bs) \/ i = Len(bs) + 1
      BY <2>1
    <3>3. QED
      BY <1>5, <2>1, <2>2, <3>2
  <2>6. \A h \in KeysTo(K, N) : \E i \in 1..Len(cs) : cs[i] = h
    <3>1. \A h \in KeysTo(K, G) : \E i \in 1..Len(cs) : cs[i] = h
      <4>1. TAKE h \in KeysTo(K, G)
      <4>2. PICK i \in 1..Len(bs) : bs[i] = h
        BY <2>2
      <4>3. i \in 1..Len(cs) /\ cs[i] = h
        BY <2>1, <4>2
      <4>4. QED
        BY <4>3
    <3>2. Len(bs) + 1 \in 1..Len(cs)
      BY <2>1
    <3>3. QED
      BY <1>5, <2>1, <3>1, <3>2
  <2>7. QED
    BY <2>1, <2>4, <2>5, <2>6 DEF Listed, Ascending
<1> HIDE DEF cs
<1>18. Log(K, N, jdx, cs)
  <2>1. N \in 0..MaxEvents
    BY <1>1, <1>3
  <2>2. QED
    BY <1>1, <1>8, <1>11, <1>16, <1>17, <2>1 DEF Log
<1>19. Written(K, G) \subseteq Written(K, N)
  BY <1>5 DEF Written
<1>20. ToSet(Events(b)) \subseteq Written(K, N)
  <2>1. SUFFICES ASSUME NEW e \in ToSet(Events(b))
                 PROVE  e \in Written(K, N)
    OBVIOUS
  <2>2. PICK o \in 0..(b.len - 1) : e = [global |-> b.firstGlobal + o, stream |-> b.stream,
                                         seq |-> b.firstSeq + o, tag |-> b.tag]
    BY <1>2, EventsAre
  <2>3. e = EventAt(K, G + 1, o) /\ o \in Offsets(K, G + 1)
    BY <1>3, <1>6, <1>n, <2>2 DEF EventAt
  <2>4. e \in Event
    BY <1>6, <1>18, <2>3, LogIs
  <2>5. QED
    BY <1>6, <2>3, <2>4 DEF Written
<1>21. QED
  BY <1>5, <1>18, <1>19, <1>20, <1>n, <1>s, <1>N DEF jdx, cs, a

-----------------------------------------------------------------------------
(* What Open makes of a log.                                               *)

\* The events numbered up to n are n.
LEMMA NumberedTo ==
  ASSUME NEW K, NEW G, NEW idx, NEW bs, Log(K, G, idx, bs), NEW n \in 0..G,
         NEW E, \A e : e \in E <=> \E h \in KeysTo(K, G) : \E o \in Offsets(K, h) :
                                     h + o <= n /\ e = EventAt(K, h, o)
  PROVE  Cardinality(E) = n
<1>1. G \in Nat /\ n \in Nat /\ n <= G
  BY LogIs
<1> DEFINE num == [e \in E |-> e.global]
<1>2. \A e \in E : num[e] = e.global
  OBVIOUS
<1>3. \A h \in KeysTo(K, G) : \A o \in Offsets(K, h) :
        h + o \in 1..G /\ EventAt(K, h, o).global = h + o
  BY LogIs DEF EventAt
<1>4. num \in [E -> 1..n]
  <2>1. \A e \in E : e.global \in 1..n
    BY <1>1, <1>3
  <2>2. QED
    BY <2>1
<1> HIDE DEF num
<1>5. \A d, e \in E : num[d] = num[e] => d = e
  <2>1. TAKE d, e \in E
  <2>2. HAVE num[d] = num[e]
  <2>3. PICK h \in KeysTo(K, G) : \E o \in Offsets(K, h) : h + o <= n /\ d = EventAt(K, h, o)
    OBVIOUS
  <2>4. PICK o \in Offsets(K, h) : d = EventAt(K, h, o)
    BY <2>3
  <2>5. PICK k \in KeysTo(K, G) : \E p \in Offsets(K, k) : k + p <= n /\ e = EventAt(K, k, p)
    OBVIOUS
  <2>6. PICK p \in Offsets(K, k) : e = EventAt(K, k, p)
    BY <2>5
  <2>7. h + o = k + p
    BY <1>2, <1>3, <2>2, <2>4, <2>6
  <2>8. h = k /\ o = p
    BY <2>7, LogIs
  <2>9. QED
    BY <2>4, <2>6, <2>8
<1>6. \A i \in 1..n : \E e \in E : num[e] = i
  <2>1. TAKE i \in 1..n
  <2>2. i \in 1..G
    BY <1>1
  <2>3. PICK h \in KeysTo(K, G) : \E o \in Offsets(K, h) : i = h + o
    BY <2>2 DEF Log, Laid
  <2>4. PICK o \in Offsets(K, h) : i = h + o
    BY <2>3
  <2>5. EventAt(K, h, o) \in E
    BY <1>1, <2>4
  <2>6. QED
    BY <1>2, <1>3, <2>4, <2>5
<1>7. QED
  BY <1>1, <1>4, <1>5, <1>6, CountBy

\* The events of a stream up to its n-th are n.
LEMMA StreamTo ==
  ASSUME NEW K, NEW G, NEW idx, NEW bs, Log(K, G, idx, bs), NEW s \in Stream,
         NEW n \in 0..Len(idx[s]),
         NEW E, \A e : e \in E <=> \E h \in KeysTo(K, G) : \E o \in Offsets(K, h) :
                                     /\ K[h].stream = s /\ K[h].firstSeq + o <= n
                                     /\ e = EventAt(K, h, o)
  PROVE  Cardinality(E) = n
<1>1. Len(idx[s]) \in Nat /\ n \in Nat /\ n <= Len(idx[s])
  BY LogIs
<1>0. K \in Database /\ G \in 0..MaxEvents
  BY DEF Log
<1> DEFINE num == [e \in E |-> e.seq]
<1>2. \A e \in E : num[e] = e.seq
  OBVIOUS
<1>3. \A h \in KeysTo(K, G) : \A o \in Offsets(K, h) :
        K[h].firstSeq + o \in Nat \ {0} /\ EventAt(K, h, o).seq = K[h].firstSeq + o
  <2>1. \A h \in KeysTo(K, G) : K[h].firstSeq \in Nat \ {0} /\ \A o \in Offsets(K, h) : o \in Nat
    BY <1>0, KeyIs
  <2>2. QED
    BY <2>1 DEF EventAt
<1>4. num \in [E -> 1..n]
  <2>1. \A e \in E : e.seq \in 1..n
    BY <1>1, <1>3
  <2>2. QED
    BY <2>1
<1> HIDE DEF num
<1>5. \A d, e \in E : num[d] = num[e] => d = e
  <2>1. TAKE d, e \in E
  <2>2. HAVE num[d] = num[e]
  <2>3. PICK h \in KeysTo(K, G) : \E o \in Offsets(K, h) : K[h].stream = s /\ d = EventAt(K, h, o)
    OBVIOUS
  <2>4. PICK o \in Offsets(K, h) : d = EventAt(K, h, o)
    BY <2>3
  <2>5. PICK k \in KeysTo(K, G) : \E p \in Offsets(K, k) : K[k].stream = s /\ e = EventAt(K, k, p)
    OBVIOUS
  <2>6. PICK p \in Offsets(K, k) : e = EventAt(K, k, p)
    BY <2>5
  <2>7. K[h].firstSeq + o = K[k].firstSeq + p
    BY <1>2, <1>3, <2>2, <2>4, <2>6
  <2>8. idx[s][K[h].firstSeq + o] = h + o /\ idx[s][K[k].firstSeq + p] = k + p
    BY <2>3, <2>5 DEF Log, Indexed
  <2>9. h = k /\ o = p
    BY <2>7, <2>8, LogIs, SMTT(30)
  <2>10. QED
    BY <2>4, <2>6, <2>9
<1>6. \A i \in 1..n : \E e \in E : num[e] = i
  <2>1. TAKE i \in 1..n
  <2>2. i \in 1..Len(idx[s]) /\ i <= n
    BY <1>1
  <2>3. PICK h \in KeysTo(K, G) : \E o \in Offsets(K, h) : K[h].stream = s /\ K[h].firstSeq + o = i
    BY <2>2 DEF Log, Indexed
  <2>4. PICK o \in Offsets(K, h) : K[h].stream = s /\ K[h].firstSeq + o = i
    BY <2>3
  <2>5. EventAt(K, h, o) \in E
    BY <2>2, <2>4
  <2>6. QED
    BY <1>2, <1>3, <2>4, <2>5
<1>7. QED
  BY <1>1, <1>4, <1>5, <1>6, CountBy

\* The events under some of the keys.
LEMMA EventsUnder ==
  ASSUME NEW K, NEW G, NEW idx, NEW bs, Log(K, G, idx, bs),
         NEW T, T \subseteq KeysTo(K, G), NEW e
  PROVE  e \in UNION {ToSet(Events(K[h])) : h \in T}
           <=> \E h \in T : \E o \in Offsets(K, h) : e = EventAt(K, h, o)
<1>1. K \in Database /\ G \in 0..MaxEvents
  BY DEF Log
<1>2. ASSUME NEW h \in T
      PROVE  e \in ToSet(Events(K[h])) <=> \E o \in Offsets(K, h) : e = EventAt(K, h, o)
  <2>1. K[h] \in Batch /\ K[h].firstGlobal = h
    BY <1>1, KeyIs DEF Log, Laid
  <2>2. e \in ToSet(Events(K[h])) <=>
          \E o \in 0..(K[h].len - 1) :
             e = [global |-> K[h].firstGlobal + o, stream |-> K[h].stream,
                  seq |-> K[h].firstSeq + o, tag |-> K[h].tag]
    BY <2>1, EventsAre
  <2>3. QED
    BY <2>1, <2>2 DEF Offsets, EventAt
<1>3. QED
  BY <1>2

LEMMA EventsFrom ==
  ASSUME NEW G, NEW idx, NEW bs, Log(kv, G, idx, bs), NEW T, T \subseteq KeysTo(kv, G)
  PROVE  \A e : e \in UNION {ToSet(Events(kv[h])) : h \in T}
                  <=> \E h \in T : \E o \in Offsets(kv, h) : e = EventAt(kv, h, o)
  BY EventsUnder

LEMMA KeysAre ==
  ASSUME NEW G \in 0..MaxEvents, \A h \in Global : kv[h] # NoBatch => h <= G
  PROVE  Keys = KeysTo(kv, G)
  BY EventStoreAssumption DEF Keys, KeysTo, Global

\* A log fits, every batch of it.
LEMMA AllFit ==
  ASSUME NEW G, NEW idx, NEW bs, Found(G, idx, bs), NEW g \in Keys
  PROVE  Fits(g)
<1>1. Log(kv, G, idx, bs) /\ kv \in Database /\ G \in 0..MaxEvents /\ G \in Nat
  BY LogIs DEF Found, Log
<1>2. Keys = KeysTo(kv, G)
  BY <1>1, KeysAre DEF Found
<1> DEFINE T == {k \in Keys : k < g}
           before == UNION {ToSet(Events(kv[h])) : h \in T}
           s == kv[g].stream
           own == {e \in before : e.stream = s}
<1>3. \A e : e \in before <=> \E h \in T : \E o \in Offsets(kv, h) : e = EventAt(kv, h, o)
  <2>1. T \subseteq KeysTo(kv, G)
    BY <1>2
  <2> HIDE DEF T
  <2>2. QED
    BY <1>1, <2>1, EventsUnder
<1> HIDE DEF before
<1>4. /\ g \in 1..G /\ g \in Nat \ {0} /\ kv[g].firstSeq \in Nat \ {0} /\ s \in Stream
      /\ kv[g].len \in Nat \ {0} /\ kv[g].firstGlobal = g
  BY <1>1, <1>2, KeyIs DEF Log, Laid
<1>5. \A h \in KeysTo(kv, G) : \A o \in Offsets(kv, h) :
        /\ h \in Nat /\ o \in Nat /\ kv[h].firstSeq \in Nat \ {0} /\ h <= h + o
        /\ h < g => h + o < g
  <2>1. TAKE h \in KeysTo(kv, G)
  <2>2. TAKE o \in Offsets(kv, h)
  <2>3. h \in Nat /\ o \in Nat /\ o < kv[h].len /\ kv[h].len \in Nat /\ kv[h].firstSeq \in Nat \ {0}
    BY <1>1, KeyIs
  <2>4. h < g => h + kv[h].len <= g
    BY <1>1, <1>2 DEF Log, Laid
  <2>5. QED
    BY <1>4, <2>3, <2>4
<1>6. Cardinality(before) = g - 1
  <2>1. PICK n \in 0..G : n = g - 1
    BY <1>1, <1>4
  <2>2. \A h \in KeysTo(kv, G) : \A o \in Offsets(kv, h) : h \in T <=> h + o <= n
    <3>1. TAKE h \in KeysTo(kv, G)
    <3>2. TAKE o \in Offsets(kv, h)
    <3>3. /\ h \in Nat /\ o \in Nat /\ g \in Nat /\ n \in Nat
          /\ h <= h + o /\ (h < g => h + o < g)
      BY <1>1, <1>4, <1>5
    <3>4. h < g <=> h + o <= n
      BY <2>1, <3>3
    <3>5. QED
      BY <1>2, <3>4
  <2>3. \A e : e \in before <=> \E h \in KeysTo(kv, G) : \E o \in Offsets(kv, h) :
                                  h + o <= n /\ e = EventAt(kv, h, o)
    BY <1>2, <1>3, <2>2
  <2>4. QED
    BY <1>1, <2>1, <2>3, NumberedTo
<1>7. Cardinality(own) = kv[g].firstSeq - 1
  <2>1. /\ Len(idx[s]) \in Nat
        /\ \A i \in 1..Len(idx[s]) : idx[s][i] \in Nat
        /\ \A i, j \in 1..Len(idx[s]) : i < j => idx[s][i] < idx[s][j]
    <3>1. Len(idx[s]) \in Nat /\ \A i \in 1..Len(idx[s]) : idx[s][i] \in Nat
      BY <1>1, <1>4, LogIs, SMTT(30)
    <3>2. Ascending(idx[s])
      BY <1>1, <1>4 DEF Log, Indexed
    <3>3. QED
      BY <3>1, <3>2 DEF Ascending
  <2>2. \A h \in KeysTo(kv, G) : \A o \in Offsets(kv, h) :
          /\ kv[h].firstSeq + o <= Len(idx[kv[h].stream])
          /\ idx[kv[h].stream][kv[h].firstSeq + o] = h + o
    BY <1>1 DEF Log, Indexed
  <2>3. 0 \in Offsets(kv, g) /\ kv[g].firstSeq + 0 = kv[g].firstSeq /\ g + 0 = g
    BY <1>4 DEF Offsets
  <2>4. kv[g].firstSeq \in 1..Len(idx[s]) /\ idx[s][kv[g].firstSeq] = g
    BY <1>2, <1>4, <2>1, <2>2, <2>3
  <2>5. PICK n \in 0..Len(idx[s]) : n = kv[g].firstSeq - 1
    BY <1>4, <2>1, <2>4
  <2>6. ASSUME NEW h \in KeysTo(kv, G), NEW o \in Offsets(kv, h), kv[h].stream = s
        PROVE  h \in T <=> kv[h].firstSeq + o <= n
    <3>1. PICK i \in 1..Len(idx[s]) : i = kv[h].firstSeq + o
      BY <1>5, <2>1, <2>2, <2>6
    <3>2. idx[s][i] = h + o
      BY <2>2, <2>6, <3>1
    <3>3. PICK j \in 1..Len(idx[s]) : j = kv[g].firstSeq
      BY <2>4
    <3>4. (i < j => h + o < g) /\ (j < i => g < h + o) /\ (i = j => g = h + o)
      BY <2>1, <2>4, <3>2, <3>3
    <3>5. h \in Nat /\ o \in Nat /\ g \in Nat /\ (h < g => h + o < g)
      BY <1>4, <1>5
    <3>6. h < g <=> i < j
      BY <2>1, <3>4, <3>5
    <3>7. i < j <=> i <= n
      BY <2>1, <2>5, <3>3
    <3>8. QED
      BY <1>2, <3>1, <3>6, <3>7
  <2>7. \A e : e \in own <=> \E h \in KeysTo(kv, G) : \E o \in Offsets(kv, h) :
                               /\ kv[h].stream = s /\ kv[h].firstSeq + o <= n
                               /\ e = EventAt(kv, h, o)
    <3>1. \A h, o : EventAt(kv, h, o).stream = kv[h].stream
      BY DEF EventAt
    <3>2. QED
      BY <1>2, <1>3, <2>6, <3>1
  <2>8. Cardinality(own) = n
    <3> HIDE DEF own, s
    <3>1. QED
      BY <1>1, <1>4, <2>5, <2>7, StreamTo, SMTT(30) DEF s
  <2>9. QED
    BY <1>4, <2>5, <2>8
<1>8. QED
  BY <1>4, <1>6, <1>7 DEF Fits, before

\* Open finds the log and makes the index of it anew.
LEMMA OpenFinds ==
  ASSUME NEW G, NEW idx, NEW bs, Found(G, idx, bs), EsOpen
  PROVE  global' = G /\ streamIdx' = idx /\ batchStarts' = bs
<1>1. Log(kv, G, idx, bs) /\ kv \in Database /\ G \in 0..MaxEvents /\ G \in Nat
  BY LogIs DEF Found, Log
<1>2. Keys = KeysTo(kv, G)
  BY <1>1, KeysAre DEF Found
<1>3. Scanned = KeysTo(kv, G)
  BY <1>2, AllFit DEF Scanned
<1> DEFINE found == UNION {ToSet(Events(kv[h])) : h \in Scanned}
<1>4. \A e : e \in found <=> \E h \in KeysTo(kv, G) : \E o \in Offsets(kv, h) : e = EventAt(kv, h, o)
  BY <1>1, <1>3, EventsUnder
<1>5. /\ global' = Cardinality(found)
      /\ streamIdx' = [s \in Stream |-> Sorted({e.global : e \in {f \in found : f.stream = s}})]
      /\ batchStarts' = Sorted(Scanned)
  BY DEF EsOpen
<1> HIDE DEF found
<1>6. global' = G
  <2>1. G \in 0..G
    BY <1>1
  <2>2. \A h \in KeysTo(kv, G) : \A o \in Offsets(kv, h) : h + o <= G
    BY <1>1, LogIs
  <2>3. \A e : e \in found <=> \E h \in KeysTo(kv, G) : \E o \in Offsets(kv, h) :
                                 h + o <= G /\ e = EventAt(kv, h, o)
    BY <1>4, <2>2
  <2>4. QED
    BY <1>1, <1>5, <2>1, <2>3, NumberedTo
<1>7. Global \subseteq Nat
  BY DEF Global
<1>8. batchStarts' = bs
  <2>1. bs \in Seq(Nat) /\ Ascending(bs)
    BY <1>1, <1>7, SeqMonotonic DEF Log, Listed
  <2>2. \A x : x \in Scanned <=> \E j \in 1..Len(bs) : bs[j] = x
    BY <1>1, <1>3 DEF Log, Listed
  <2>3. QED
    BY <1>5, <2>1, <2>2, SortedIs
<1>9. \A s \in Stream : Sorted({e.global : e \in {f \in found : f.stream = s}}) = idx[s]
  <2>1. TAKE s \in Stream
  <2> DEFINE S == {e.global : e \in {f \in found : f.stream = s}}
  <2>2. idx[s] \in Seq(Nat) /\ Ascending(idx[s])
    <3>1. idx[s] \in Seq(Global)
      BY <1>1 DEF Log
    <3>2. QED
      BY <1>1, <1>7, <3>1, SeqMonotonic DEF Log, Indexed
  <2>3. \A h, o : EventAt(kv, h, o).stream = kv[h].stream /\ EventAt(kv, h, o).global = h + o
    BY DEF EventAt
  <2>4. \A x : x \in S <=> \E h \in KeysTo(kv, G) : \E o \in Offsets(kv, h) :
                             kv[h].stream = s /\ h + o = x
    BY <1>4, <2>3
  <2> HIDE DEF S
  <2>5. /\ \A h \in KeysTo(kv, G) : \A o \in Offsets(kv, h) :
             /\ kv[h].firstSeq + o <= Len(idx[kv[h].stream])
             /\ idx[kv[h].stream][kv[h].firstSeq + o] = h + o
        /\ \A i \in 1..Len(idx[s]) :
             \E h \in KeysTo(kv, G) : \E o \in Offsets(kv, h) :
               kv[h].stream = s /\ kv[h].firstSeq + o = i
    BY <1>1 DEF Log, Indexed
  <2>6. ASSUME NEW x \in S
        PROVE  \E i \in 1..Len(idx[s]) : idx[s][i] = x
    <3>1. PICK h \in KeysTo(kv, G) : \E o \in Offsets(kv, h) : kv[h].stream = s /\ h + o = x
      BY <2>4, <2>6
    <3>2. PICK o \in Offsets(kv, h) : kv[h].stream = s /\ h + o = x
      BY <3>1
    <3>3. kv[h].firstSeq \in Nat \ {0} /\ o \in Nat /\ Len(idx[s]) \in Nat
      BY <1>1, KeyIs, LogIs
    <3>4. kv[h].firstSeq + o \in 1..Len(idx[s]) /\ idx[s][kv[h].firstSeq + o] = x
      BY <2>5, <3>2, <3>3
    <3>5. QED
      BY <3>4
  <2>7. ASSUME NEW i \in 1..Len(idx[s])
        PROVE  idx[s][i] \in S
    <3>1. PICK h \in KeysTo(kv, G) : \E o \in Offsets(kv, h) :
                                       kv[h].stream = s /\ kv[h].firstSeq + o = i
      BY <2>5
    <3>2. PICK o \in Offsets(kv, h) : kv[h].stream = s /\ kv[h].firstSeq + o = i
      BY <3>1
    <3>3. idx[s][i] = h + o
      BY <2>5, <3>2
    <3>4. QED
      BY <2>4, <3>2, <3>3
  <2>8. \A x : x \in S <=> \E i \in 1..Len(idx[s]) : idx[s][i] = x
    BY <2>6, <2>7
  <2>9. Sorted(S) = idx[s]
    BY <2>2, <2>8, SortedIs
  <2>10. QED
    BY <2>9 DEF S
<1>10. streamIdx' = idx
  <2>1. idx = [s \in Stream |-> idx[s]]
    BY <1>1 DEF Log
  <2>2. QED
    BY <1>5, <1>9, <2>1
<1>11. QED
  BY <1>6, <1>8, <1>10

-----------------------------------------------------------------------------
(* The steps of the store.                                                 *)

LEMMA StoreStarts == EsInit => StoreInv
<1> SUFFICES ASSUME EsInit
             PROVE  StoreInv
  OBVIOUS
<1>1. /\ kv = [g \in Global |-> NoBatch] /\ up = TRUE /\ global = 0
      /\ streamIdx = [s \in Stream |-> <<>>] /\ batchStarts = <<>>
      /\ pending = NoBatch /\ acked = {} /\ tags = 0 /\ faults = 0 /\ crashes = 0
  BY DEF EsInit
<1>2. <<>> \in Seq(Global)
  BY EmptySeq
<1>3. 0 \in 0..MaxEvents
  BY EventStoreAssumption
<1>4. EsTypeOK
  BY <1>1, <1>2, <1>3 DEF EsTypeOK
<1>5. kv \in Database
  BY <1>1 DEF Database
<1>6. Log(kv, 0, streamIdx, <<>>) /\ Written(kv, 0) = {}
  BY <1>1, <1>5, EmptyLog
<1>7. UpInv
  BY <1>1, <1>6 DEF UpInv, Continues
<1>8. QED
  BY <1>1, <1>4, <1>7 DEF StoreInv

LEMMA UpIs ==
  ASSUME StoreInv, up
  PROVE  /\ UpInv /\ Log(kv, global, streamIdx, batchStarts)
         /\ global \in Nat /\ MaxEvents \in Nat /\ global <= MaxEvents
         /\ kv \in Database /\ streamIdx \in [Stream -> Seq(Global)] /\ batchStarts \in Seq(Global)
  BY EventStoreAssumption DEF StoreInv, EsTypeOK, UpInv, Database

\* A Put writes beyond the end of the log, and continues it.
LEMMA PutKeeps ==
  ASSUME StoreInv, NEW s \in Stream, NEW v, NEW n \in 1..MaxBatch, Put(s, v, n),
         UNCHANGED <<up, global, streamIdx, batchStarts, acked, crashes>>,
         pending' \in {NoBatch, kv'[global + 1]}, faults' \in Nat
  PROVE  /\ StoreInv' /\ kv'[global + 1] # NoBatch
         /\ \A h \in Global : h # global + 1 => kv'[h] = kv[h]
         /\ \A h \in Global : h <= global => kv'[h] = kv[h]
<1>1. /\ up /\ global + n <= MaxEvents /\ tags' = tags + 1
      /\ kv' = [kv EXCEPT ![global + 1] =
                  [stream |-> s, firstSeq |-> Version(s) + 1,
                   firstGlobal |-> global + 1, len |-> n, tag |-> tags']]
  BY DEF Put
<1>2. /\ UpInv /\ Log(kv, global, streamIdx, batchStarts)
      /\ global \in Nat /\ MaxEvents \in Nat /\ kv \in Database
  BY <1>1, UpIs
<1>3. n \in Nat \ {0} /\ MaxBatch \in Nat
  BY EventStoreAssumption
<1>4. global + 1 \in Global /\ global + 1 \in Nat
  BY <1>1, <1>2, <1>3 DEF Global
<1>5. Version(s) + 1 \in Global
  <2>1. Version(s) \in 0..global
    BY <1>2, LogIs DEF Version
  <2>2. QED
    BY <1>2, <1>4, <2>1 DEF Global
<1> DEFINE b == [stream |-> s, firstSeq |-> Version(s) + 1, firstGlobal |-> global + 1,
                 len |-> n, tag |-> tags']
<1>6. b \in Batch
  <2>1. tags' \in Nat
    BY <1>1 DEF StoreInv, EsTypeOK
  <2>2. QED
    BY <1>4, <1>5, <2>1 DEF Batch
<1>7. /\ b.stream = s /\ b.firstSeq = Version(s) + 1 /\ b.firstGlobal = global + 1 /\ b.len = n
  OBVIOUS
<1>8. /\ kv' \in Database /\ kv'[global + 1] = b
      /\ \A h \in Global : h # global + 1 => kv'[h] = kv[h]
  <2>1. kv' = [kv EXCEPT ![global + 1] = b]
    BY <1>1
  <2> HIDE DEF b
  <2>2. QED
    BY <1>2, <1>4, <1>6, <2>1 DEF Database
<1> HIDE DEF b
<1>9. \A h \in Global : h <= global => kv'[h] = kv[h]
  BY <1>2, <1>8 DEF Global
<1>10. \A h \in 1..global : kv'[h] = kv[h]
  BY <1>2, <1>4, <1>9 DEF Global
<1>11. PICK L : L = kv'
  OBVIOUS
<1>12. Log(L, global, streamIdx, batchStarts) /\ Written(L, global) = Written(kv, global)
  BY <1>2, <1>8, <1>10, <1>11, LogKept
<1>13. Continues(L, global, streamIdx)
  BY <1>1, <1>7, <1>8, <1>11 DEF Continues, Version
<1>14. \A h \in Global : L[h] # NoBatch => h <= global + 1
  <2>1. \A h \in Global : h # global + 1 /\ kv[h] # NoBatch => h <= global + 1
    BY <1>2 DEF UpInv
  <2>2. QED
    BY <1>4, <1>8, <1>11, <2>1
<1>15. UpInv'
  <2>1. Log(kv, global, streamIdx, batchStarts)'
    BY <1>11, <1>12
  <2>2. Continues(kv, global, streamIdx)'
    BY <1>11, <1>13
  <2>3. (\A h \in Global : kv[h] # NoBatch => h <= global + 1)'
    BY <1>11, <1>14
  <2>4. (pending # NoBatch => global + 1 \in Global /\ pending = kv[global + 1])'
    BY <1>4
  <2>5. (acked \subseteq Written(kv, global))'
    BY <1>2, <1>11, <1>12 DEF UpInv
  <2>6. QED
    BY <2>1, <2>2, <2>3, <2>4, <2>5 DEF UpInv
<1>16. EsTypeOK'
  <2>1. pending' \in Batch \cup {NoBatch}
    BY <1>6, <1>8
  <2>2. tags' \in Nat
    BY <1>1 DEF StoreInv, EsTypeOK
  <2>3. QED
    BY <1>8, <2>1, <2>2 DEF StoreInv, EsTypeOK, Database
<1>17. kv'[global + 1] # NoBatch
  BY <1>6, <1>8, BatchIs
<1>18. QED
  BY <1>1, <1>8, <1>9, <1>15, <1>16, <1>17 DEF StoreInv

\* The index takes in what was Put.
LEMMA ReturnKeeps ==
  ASSUME StoreInv, AppendReturns
  PROVE  StoreInv' /\ global <= global' /\ kv' = kv /\ up' = up /\ global + 1 <= global'
<1>1. /\ up /\ pending # NoBatch
      /\ batchStarts' = Append(batchStarts, pending.firstGlobal)
      /\ global' = global + pending.len
      /\ streamIdx' = [streamIdx EXCEPT ![pending.stream] =
                         @ \o [i \in 1..pending.len |-> global + i]]
      /\ acked' = acked \cup ToSet(Events(pending))
      /\ pending' = NoBatch
      /\ UNCHANGED <<kv, up, tags, faults, crashes>>
  BY DEF AppendReturns, counters
<1>2. /\ UpInv /\ Log(kv, global, streamIdx, batchStarts) /\ global \in Nat
      /\ Continues(kv, global, streamIdx)
      /\ \A h \in Global : kv[h] # NoBatch => h <= global + 1
      /\ global + 1 \in Global /\ pending = kv[global + 1]
      /\ acked \subseteq Written(kv, global)
  BY <1>1, UpIs DEF UpInv
<1>3. pending \in Batch /\ pending.len \in Nat \ {0} /\ pending.firstGlobal = global + 1
  <2>1. pending \in Batch
    BY <1>1 DEF StoreInv, EsTypeOK
  <2>2. QED
    BY <1>1, <1>2, <2>1, BatchIs DEF Continues
<1>4. /\ streamIdx' = [streamIdx EXCEPT ![pending.stream] = @ \o After(global, pending.len)]
      /\ batchStarts' = Append(batchStarts, global + 1)
  BY <1>1, <1>3 DEF After
<1>5. /\ Log(kv, global', streamIdx', batchStarts')
      /\ Written(kv, global) \subseteq Written(kv, global')
      /\ ToSet(Events(pending)) \subseteq Written(kv, global')
  <2>1. PICK b : b = kv[global + 1] /\ b = pending
    BY <1>2
  <2>2. PICK G : G = global + b.len
    OBVIOUS
  <2>3. PICK idx : idx = [streamIdx EXCEPT ![b.stream] = @ \o After(global, b.len)]
    OBVIOUS
  <2>4. PICK bs : bs = Append(batchStarts, global + 1)
    OBVIOUS
  <2>5. kv[global + 1] # NoBatch
    BY <1>1, <1>2
  <2>6. /\ Log(kv, G, idx, bs) /\ Written(kv, global) \subseteq Written(kv, G)
        /\ ToSet(Events(b)) \subseteq Written(kv, G)
    BY <1>2, <2>1, <2>2, <2>3, <2>4, <2>5, LogGrows
  <2>7. global' = G /\ streamIdx' = idx /\ batchStarts' = bs
    BY <1>1, <1>4, <2>1, <2>2, <2>3, <2>4
  <2>8. QED
    BY <2>1, <2>6, <2>7
<1>6. global' \in Nat /\ global' > global
  BY <1>1, <1>2, <1>3
<1>7. UpInv'
  <2>1. Log(kv, global, streamIdx, batchStarts)'
    BY <1>1, <1>5
  <2>2. \A h \in Global : kv'[h] # NoBatch => h <= global' /\ h <= global' + 1
    BY <1>1, <1>2, <1>6 DEF Global
  <2>3. Continues(kv, global, streamIdx)'
    <3>1. global' + 1 \in Global => kv'[global' + 1] = NoBatch
      BY <1>6, <2>2
    <3>2. QED
      BY <3>1 DEF Continues
  <2>4. (acked \subseteq Written(kv, global))'
    <3>1. acked' \subseteq Written(kv, global')
      BY <1>1, <1>2, <1>5
    <3>2. QED
      BY <1>1, <3>1
  <2>5. QED
    BY <1>1, <2>1, <2>2, <2>3, <2>4 DEF UpInv
<1>8. EsTypeOK'
  <2>1. /\ global' \in 0..MaxEvents /\ streamIdx' \in [Stream -> Seq(Global)]
        /\ batchStarts' \in Seq(Global)
    BY <1>5 DEF Log
  <2>2. acked' \subseteq Event
    BY <1>1, <1>2, <1>5 DEF Written
  <2>3. QED
    BY <1>1, <2>1, <2>2 DEF StoreInv, EsTypeOK
<1>9. global + 1 <= global'
  BY <1>1, <1>2, <1>3
<1>10. QED
  BY <1>1, <1>2, <1>6, <1>7, <1>8, <1>9 DEF StoreInv

\* What is on disk is a log: with the record that an Append has Put, if there is
\* one, and else without.
LEMMA WholeLog ==
  ASSUME StoreInv, up
  PROVE  \E G \in 0..MaxEvents, idx \in [Stream -> Seq(Global)], bs \in Seq(Global) : Found(G, idx, bs)
<1>1. /\ Log(kv, global, streamIdx, batchStarts) /\ global \in Nat
      /\ Continues(kv, global, streamIdx)
      /\ \A h \in Global : kv[h] # NoBatch => h <= global + 1
      /\ acked \subseteq Written(kv, global)
  BY UpIs DEF UpInv
<1>2. CASE global + 1 \in Global /\ kv[global + 1] # NoBatch
  <2>1. PICK b : b = kv[global + 1]
    OBVIOUS
  <2>2. PICK G : G = global + b.len
    OBVIOUS
  <2>3. PICK idx : idx = [streamIdx EXCEPT ![b.stream] = @ \o After(global, b.len)]
    OBVIOUS
  <2>4. PICK bs : bs = Append(batchStarts, global + 1)
    OBVIOUS
  <2>5. Log(kv, G, idx, bs) /\ Written(kv, global) \subseteq Written(kv, G)
    BY <1>1, <1>2, <2>1, <2>2, <2>3, <2>4, LogGrows
  <2>6. global + 1 <= G
    <3>1. b \in Batch
      BY <1>2, <2>1 DEF StoreInv, EsTypeOK
    <3>2. b.len \in Nat \ {0}
      BY <3>1, BatchIs
    <3>3. QED
      BY <1>1, <2>2, <3>2
  <2>7. \A h \in Global : kv[h] # NoBatch => h <= G
    <3>1. G \in Nat
      BY <2>5, LogIs
    <3>2. QED
      BY <1>1, <2>6, <3>1 DEF Global
  <2>8. Found(G, idx, bs)
    BY <1>1, <2>5, <2>7 DEF Found
  <2>9. QED
    BY <2>5, <2>8 DEF Log
<1>3. CASE ~(global + 1 \in Global /\ kv[global + 1] # NoBatch)
  <2>1. \A h \in Global : kv[h] # NoBatch => h <= global
    BY <1>1, <1>3 DEF Global
  <2>2. Found(global, streamIdx, batchStarts)
    BY <1>1, <2>1 DEF Found
  <2>3. QED
    BY <1>1, <2>2 DEF Log
<1>4. QED
  BY <1>2, <1>3

LEMMA CrashKeeps ==
  ASSUME StoreInv, EsCrash
  PROVE  StoreInv' /\ kv' = kv /\ up' = FALSE
<1>1. /\ up /\ up' = FALSE /\ crashes' = crashes + 1
      /\ global' = 0 /\ streamIdx' = [s \in Stream |-> <<>>] /\ batchStarts' = <<>>
      /\ pending' = NoBatch
      /\ UNCHANGED <<kv, acked, tags, faults>>
  BY DEF EsCrash
<1>2. PICK G \in 0..MaxEvents, idx \in [Stream -> Seq(Global)], bs \in Seq(Global) : Found(G, idx, bs)
  BY <1>1, WholeLog
<1>3. Found(G, idx, bs)'
  BY <1>1, <1>2 DEF Found
<1>4. DownInv'
  BY <1>1, <1>3 DEF DownInv
<1>5. EsTypeOK'
  <2>1. <<>> \in Seq(Global)
    BY EmptySeq
  <2>2. 0 \in 0..MaxEvents
    BY EventStoreAssumption
  <2>3. streamIdx' \in [Stream -> Seq(Global)]
    BY <1>1, <2>1
  <2>4. /\ kv' \in [Global -> Batch \cup {NoBatch}] /\ acked' \subseteq Event
        /\ tags' \in Nat /\ faults' \in Nat /\ crashes' \in Nat
    BY <1>1 DEF StoreInv, EsTypeOK
  <2>5. QED
    BY <1>1, <2>1, <2>2, <2>3, <2>4 DEF EsTypeOK
<1>6. QED
  BY <1>1, <1>4, <1>5 DEF StoreInv

LEMMA OpenKeeps ==
  ASSUME StoreInv, EsOpen
  PROVE  StoreInv' /\ kv' = kv /\ up' = TRUE
<1>1. ~up /\ up' = TRUE /\ UNCHANGED <<kv, pending, acked, tags, faults, crashes>>
  BY DEF EsOpen, counters
<1>2. DownInv /\ pending = NoBatch
  BY <1>1 DEF StoreInv, DownInv
<1>3. PICK G \in 0..MaxEvents, idx \in [Stream -> Seq(Global)], bs \in Seq(Global) : Found(G, idx, bs)
  BY <1>2 DEF DownInv
<1>4. global' = G /\ streamIdx' = idx /\ batchStarts' = bs
  BY <1>3, OpenFinds
<1>5. /\ Log(kv, G, idx, bs) /\ G \in Nat
      /\ \A h \in Global : kv[h] # NoBatch => h <= G
      /\ acked \subseteq Written(kv, G)
  BY <1>3, LogIs DEF Found
<1>6. UpInv'
  <2>1. Log(kv, global, streamIdx, batchStarts)'
    BY <1>1, <1>4, <1>5
  <2>2. Continues(kv, global, streamIdx)'
    BY <1>1, <1>4, <1>5 DEF Continues
  <2>3. (\A h \in Global : kv[h] # NoBatch => h <= global + 1)'
    BY <1>1, <1>4, <1>5 DEF Global
  <2>4. (acked \subseteq Written(kv, global))'
    BY <1>1, <1>4, <1>5
  <2>5. QED
    BY <1>1, <1>2, <2>1, <2>2, <2>3, <2>4 DEF UpInv
<1>7. EsTypeOK'
  BY <1>1, <1>3, <1>4 DEF StoreInv, EsTypeOK
<1>8. QED
  BY <1>1, <1>6, <1>7 DEF StoreInv

LEMMA StoreKept ==
  ASSUME StoreInv, UNCHANGED esVars
  PROVE  StoreInv'
<1>1. /\ kv' = kv /\ up' = up /\ global' = global /\ streamIdx' = streamIdx
      /\ batchStarts' = batchStarts /\ pending' = pending /\ acked' = acked
      /\ tags' = tags /\ faults' = faults /\ crashes' = crashes
  BY DEF esVars
<1>2. EsTypeOK'
  BY <1>1 DEF StoreInv, EsTypeOK
<1>3. up => UpInv'
  BY <1>1 DEF StoreInv, UpInv
<1>4. ~up => DownInv'
  BY <1>1 DEF StoreInv, DownInv, Found
<1>5. QED
  BY <1>1, <1>2, <1>3, <1>4 DEF StoreInv

\* What was acknowledged is in the log, and the index knows where.
LEMMA StoreAnswers ==
  ASSUME StoreInv
  PROVE  AckedForever
<1>1. ASSUME NEW G, NEW idx, NEW bs, Log(kv, G, idx, bs), NEW e \in Written(kv, G)
      PROVE  e \in Recorded /\ e.global <= G /\ idx[e.stream][e.seq] = e.global
  <2>1. PICK h \in KeysTo(kv, G) : \E o \in Offsets(kv, h) : e = EventAt(kv, h, o)
    BY <1>1 DEF Written
  <2>2. PICK o \in Offsets(kv, h) : e = EventAt(kv, h, o)
    BY <2>1
  <2>3. e.global = h + o /\ e.stream = kv[h].stream /\ e.seq = kv[h].firstSeq + o
    BY <2>2 DEF EventAt
  <2>4. h + o \in 1..G /\ G \in Nat
    BY <1>1, LogIs
  <2>5. idx[kv[h].stream][kv[h].firstSeq + o] = h + o
    BY <1>1 DEF Log, Indexed
  <2>6. e \in UNION {ToSet(Events(kv[k])) : k \in {h}}
    <3>1. PICK T \in SUBSET KeysTo(kv, G) : T = {h}
      OBVIOUS
    <3>2. \A x : x \in UNION {ToSet(Events(kv[k])) : k \in T}
                  <=> \E k \in T : \E p \in Offsets(kv, k) : x = EventAt(kv, k, p)
      BY <1>1, EventsFrom
    <3>3. \E k \in T : \E p \in Offsets(kv, k) : e = EventAt(kv, k, p)
      BY <2>2, <3>1
    <3>4. e \in UNION {ToSet(Events(kv[k])) : k \in T}
      BY <3>2, <3>3
    <3>5. QED
      BY <3>1, <3>4
  <2>7. h \in Keys
    <3>1. kv \in Database /\ G \in 0..MaxEvents
      BY <1>1 DEF Log
    <3>2. QED
      BY <3>1, KeyIs DEF Keys
  <2>8. QED
    BY <2>3, <2>4, <2>5, <2>6, <2>7 DEF Recorded
<1>2. CASE up
  <2>1. Log(kv, global, streamIdx, batchStarts) /\ acked \subseteq Written(kv, global)
    BY <1>2, UpIs DEF UpInv
  <2>2. QED
    BY <1>1, <2>1 DEF AckedForever
<1>3. CASE ~up
  <2>1. PICK G \in 0..MaxEvents, idx \in [Stream -> Seq(Global)], bs \in Seq(Global) :
          Found(G, idx, bs)
    BY <1>3 DEF StoreInv, DownInv
  <2>2. QED
    BY <1>1, <1>3, <2>1 DEF AckedForever, Found
<1>4. QED
  BY <1>2, <1>3

-----------------------------------------------------------------------------
(* What ReadAll reads.                                                     *)

\* The scan starts at the batch of the first event it is after, or the last batch.
LEMMA StartIs ==
  ASSUME StoreInv, up, batchStarts # <<>>, NEW c \in Nat
  PROVE  Scans(kv, global, batchStartFor(c + 1), c) /\ batchStartFor(c + 1) \in 0..MaxEvents
<1>1. /\ Log(kv, global, streamIdx, batchStarts) /\ global \in Nat /\ kv \in Database
      /\ global \in 0..MaxEvents /\ MaxEvents \in Nat /\ batchStarts \in Seq(Global)
      /\ \A h \in Global : kv[h] # NoBatch => h <= global + 1
  BY UpIs DEF UpInv, Log
<1> DEFINE S == {h \in ToSet(batchStarts) : h <= c + 1}
<1>2. \A h : h \in ToSet(batchStarts) <=> h \in KeysTo(kv, global)
  <2>1. \A h : h \in ToSet(batchStarts) <=> \E i \in 1..Len(batchStarts) : batchStarts[i] = h
    BY <1>1, LenProperties DEF ToSet
  <2>2. QED
    BY <1>1, <2>1 DEF Log, Listed
<1>3. global >= 1
  <2>1. 1 \in 1..Len(batchStarts)
    BY <1>1, EmptySeq
  <2>2. batchStarts[1] \in KeysTo(kv, global)
    BY <1>1, <2>1 DEF Log, Listed
  <2>3. QED
    BY <1>1, <2>2 DEF KeysTo
<1>4. PICK g \in 1..global : g <= c + 1 /\ (g = c + 1 \/ g = global)
  <2>1. c + 1 \in 1..global \/ (global \in 1..global /\ global <= c + 1)
    BY <1>1, <1>3
  <2>2. QED
    BY <2>1
<1>5. PICK h \in KeysTo(kv, global) : \E o \in Offsets(kv, h) : g = h + o
  BY <1>1 DEF Log, Laid
<1>6. PICK o \in Offsets(kv, h) : g = h + o
  BY <1>5
<1>7. /\ h \in 1..global /\ h \in Global /\ h \in Nat /\ o \in Nat /\ g \in Nat
      /\ kv[h].len \in Nat /\ o < kv[h].len
  BY <1>1, KeyIs
<1>8. /\ \A k \in KeysTo(kv, global) : k \in Nat /\ k <= global /\ kv[k].len \in Nat
      /\ \A k, l \in KeysTo(kv, global) : k < l => k + kv[k].len <= l
  <2>1. \A k \in KeysTo(kv, global) : k \in 1..global /\ k \in Nat /\ kv[k].len \in Nat
    BY <1>1, KeyIs
  <2>2. \A k, l \in KeysTo(kv, global) : k < l => k + kv[k].len <= l
    BY <1>1 DEF Log, Laid
  <2>3. QED
    BY <1>1, <2>1, <2>2
<1>9. h \in S /\ \A k \in S : k <= h
  <2>1. h <= c + 1
    BY <1>4, <1>6, <1>7
  <2>2. ASSUME NEW k \in KeysTo(kv, global), k <= c + 1
        PROVE  k <= h
    <3>1. k \in Nat /\ k <= global /\ (h < k => h + kv[h].len <= k)
      BY <1>8
    <3>2. h < k => g < k
      BY <1>6, <1>7, <3>1
    <3>3. QED
      BY <1>1, <1>4, <1>7, <2>2, <3>1, <3>2
  <2>3. QED
    BY <1>2, <2>1, <2>2
<1>10. batchStartFor(c + 1) = h
  <2>1. S \subseteq Nat
    BY <1>2, <1>8
  <2>2. Max(S) \in S /\ \A k \in S : Max(S) >= k
    BY <1>7, <1>9, <2>1 DEF Max
  <2>3. Max(S) = h
    BY <1>7, <1>9, <2>1, <2>2
  <2>4. QED
    BY <1>9, <2>3 DEF batchStartFor
<1>11. ASSUME NEW k \in Global, kv[k] # NoBatch, k < h
       PROVE  k + kv[k].len <= c + 1
  <2>1. k \in KeysTo(kv, global)
    BY <1>1, <1>7, <1>11 DEF Global, KeysTo
  <2>2. k + kv[k].len <= h /\ k \in Nat /\ kv[k].len \in Nat
    BY <1>8, <1>11, <2>1
  <2>3. QED
    BY <1>4, <1>6, <1>7, <2>2
<1>12. h <= global /\ h \in 0..MaxEvents
  BY <1>1, <1>7
<1>13. QED
  BY <1>10, <1>11, <1>12 DEF Scans

LEMMA ByNumberFollows ==
  ASSUME NEW E, NEW N, N = Sorted({e.global : e \in E})
  PROVE  ByNumber(E) = [i \in DOMAIN N |-> CHOOSE e \in E : e.global = N[i]]
  BY DEF ByNumber

\* ByNumber lists events with the numbers from c + 1 to c + n.
LEMMA ByNumberIs ==
  ASSUME NEW c \in Nat, NEW n \in Nat, c + n <= MaxEvents,
         NEW E \in SUBSET Event,
         \A x : (\E e \in E : e.global = x) <=> x \in (c + 1)..(c + n)
  PROVE  /\ ByNumber(E) \in Seq(Event) /\ Len(ByNumber(E)) = n
         /\ \A i \in 1..n : ByNumber(E)[i] \in E /\ ByNumber(E)[i].global = c + i
<1> DEFINE S == {e.global : e \in E}
           a == After(c, n)
<1>1. /\ a \in Seq(Nat) /\ Len(a) = n /\ \A i \in 1..n : a[i] = c + i
      /\ DOMAIN a = 1..n
  BY AfterIs, LenProperties
<1> HIDE DEF a
<1>2. Ascending(a)
  BY <1>1 DEF Ascending
<1>3. \A x : x \in S <=> \E i \in 1..Len(a) : a[i] = x
  <2>1. \A x : x \in S <=> x \in (c + 1)..(c + n)
    OBVIOUS
  <2>2. ASSUME NEW x \in (c + 1)..(c + n)
        PROVE  \E i \in 1..Len(a) : a[i] = x
    <3>1. x - c \in 1..n /\ c + (x - c) = x
      OBVIOUS
    <3>2. QED
      BY <1>1, <3>1
  <2>3. \A i \in 1..Len(a) : a[i] \in (c + 1)..(c + n)
    BY <1>1
  <2> HIDE DEF S
  <2>4. QED
    BY <2>1, <2>2, <2>3
<1>4. Sorted(S) = a
  <2> HIDE DEF S
  <2>1. QED
    BY <1>1, <1>2, <1>3, SortedIs
<1>5. ByNumber(E) = [i \in 1..n |-> CHOOSE e \in E : e.global = a[i]]
  <2>1. PICK N : N = Sorted({e.global : e \in E})
    OBVIOUS
  <2>2. ByNumber(E) = [i \in DOMAIN N |-> CHOOSE e \in E : e.global = N[i]]
    BY <2>1, ByNumberFollows
  <2>3. N = a
    BY <1>4, <2>1
  <2>4. QED
    BY <1>1, <2>2, <2>3
<1>6. \A i \in 1..n : ByNumber(E)[i] \in E /\ ByNumber(E)[i].global = c + i
  <2>1. TAKE i \in 1..n
  <2>2. c + i \in (c + 1)..(c + n)
    OBVIOUS
  <2>3. \E e \in E : e.global = a[i]
    BY <1>1, <2>2
  <2>4. QED
    BY <1>1, <1>5, <2>3
<1>7. ByNumber(E) \in [1..n -> Event]
  BY <1>5, <1>6
<1>8. QED
  BY <1>6, <1>7, FunctionIsSeq

\* What a scan finds are the events from c + 1 on, without a hole.
LEMMA ScanIs ==
  ASSUME StoreInv, up, NEW c \in 0..MaxEvents, NEW b \in Nat, Scans(kv, global, b, c),
         NEW limit \in Nat \ {0}, NEW q, q = ScanFrom(b, c + 1, limit)
  PROVE  /\ q \in Seq(Event) /\ Len(q) \in Nat
         /\ \A i \in 1..Len(q) : q[i] \in Recorded /\ q[i].global = c + i
<1>1. PICK G \in 0..MaxEvents, idx \in [Stream -> Seq(Global)], bs \in Seq(Global) : Found(G, idx, bs)
  BY WholeLog
<1>2. /\ Log(kv, G, idx, bs) /\ G \in Nat /\ kv \in Database /\ MaxEvents \in Nat /\ G <= MaxEvents
      /\ c \in Nat /\ c <= MaxEvents
  BY <1>1, LogIs, EventStoreAssumption DEF Found, Log
<1>3. Keys = KeysTo(kv, G)
  BY <1>1, KeysAre DEF Found
<1> DEFINE T == {k \in Keys : k >= b}
           found == {e \in UNION {ToSet(Events(kv[h])) : h \in T} : e.global >= c + 1}
<1>4. q = SubSeq(ByNumber(found), 1, Min({limit, Len(ByNumber(found))}))
  BY DEF ScanFrom
<1>5. \A e : e \in found <=> \E h \in KeysTo(kv, G) : \E o \in Offsets(kv, h) :
                               h + o >= c + 1 /\ e = EventAt(kv, h, o)
  <2>1. T \subseteq KeysTo(kv, G)
    BY <1>3
  <2>2. ASSUME NEW h \in KeysTo(kv, G), NEW o \in Offsets(kv, h), h + o >= c + 1
        PROVE  h \in T
    <3>1. h \in Nat /\ h \in Global /\ kv[h] # NoBatch /\ kv[h].len \in Nat /\ o \in Nat /\ o < kv[h].len
      BY <1>2, KeyIs
    <3>2. h + kv[h].len > c + 1
      BY <1>2, <2>2, <3>1, SMTT(30)
    <3>3. ~(h < b)
      BY <1>2, <3>1, <3>2 DEF Scans
    <3>4. h >= b
      BY <3>1, <3>3
    <3>5. QED
      BY <1>3, <3>4
  <2> DEFINE U == UNION {ToSet(Events(kv[h])) : h \in T}
  <2>3. \A e : e \in U <=> \E h \in T : \E o \in Offsets(kv, h) : e = EventAt(kv, h, o)
    <3>1. PICK V : V = T
      OBVIOUS
    <3>2. \A e : e \in UNION {ToSet(Events(kv[h])) : h \in V}
                   <=> \E h \in V : \E o \in Offsets(kv, h) : e = EventAt(kv, h, o)
      <4>1. V \subseteq KeysTo(kv, G)
        BY <2>1, <3>1
      <4>2. Log(kv, G, idx, bs)
        BY <1>2
      <4>3. QED
        BY <4>1, <4>2, EventsFrom
    <3>3. QED
      BY Zenon, <3>1, <3>2
  <2>4. \A h, o : EventAt(kv, h, o).global = h + o
    BY DEF EventAt
  <2>5. \A e : e \in found <=> e \in U /\ e.global >= c + 1
    OBVIOUS
  <2> HIDE DEF U, found, T
  <2>6. QED
    BY <2>1, <2>2, <2>3, <2>4, <2>5
<1>15. found \subseteq Recorded
  BY DEF Recorded
<1> HIDE DEF found
<1>6. PICK n \in Nat : c + n <= MaxEvents /\ \A x \in Int : x \in (c + 1)..(c + n) <=> x \in (c + 1)..G
  <2>1. CASE c < G
    <3>1. PICK n \in Nat : n = G - c
      BY <1>2, <2>1
    <3>2. c + n = G
      BY <1>2, <3>1
    <3>3. QED
      BY <1>2, <3>2
  <2>2. CASE ~(c < G)
    <3>1. c + 0 = c /\ \A x \in Int : x \notin (c + 1)..c /\ x \notin (c + 1)..G
      BY <1>2, <2>2
    <3>2. QED
      BY <1>2, <3>1
  <2>3. QED
    BY <2>1, <2>2
<1>7. found \in SUBSET Event
  BY <1>2, <1>5, LogIs
<1>8. \A x : (\E e \in found : e.global = x) <=> x \in (c + 1)..(c + n)
  <2>1. \A h, o : EventAt(kv, h, o).global = h + o
    BY DEF EventAt
  <2>2. ASSUME NEW x, NEW e \in found, e.global = x
        PROVE  x \in (c + 1)..(c + n)
    <3>1. PICK h \in KeysTo(kv, G) : \E o \in Offsets(kv, h) : h + o >= c + 1 /\ e = EventAt(kv, h, o)
      BY <1>5
    <3>2. PICK o \in Offsets(kv, h) : h + o >= c + 1 /\ e = EventAt(kv, h, o)
      BY <3>1
    <3>3. h + o \in 1..G /\ x = h + o
      BY <1>2, <2>1, <2>2, <3>2, LogIs
    <3>4. x \in Int /\ x \in (c + 1)..G
      BY <1>2, <3>2, <3>3
    <3>5. QED
      BY <1>6, <3>4
  <2>3. ASSUME NEW x \in (c + 1)..(c + n)
        PROVE  \E e \in found : e.global = x
    <3>1. x \in (c + 1)..G
      <4>1. x \in Int
        BY <1>2, <2>3
      <4>2. QED
        BY <1>6, <2>3, <4>1
    <3>2. x \in 1..G /\ x >= c + 1
      BY <1>2, <3>1
    <3>3. PICK h \in KeysTo(kv, G) : \E o \in Offsets(kv, h) : x = h + o
      BY <1>2, <3>2 DEF Log, Laid
    <3>4. PICK o \in Offsets(kv, h) : x = h + o
      BY <3>3
    <3>5. EventAt(kv, h, o) \in found
      BY <1>5, <3>2, <3>4
    <3>6. QED
      BY <2>1, <3>4, <3>5
  <2>4. QED
    BY <2>2, <2>3
<1>9. PICK all : all = ByNumber(found)
  OBVIOUS
<1>10. all \in Seq(Event) /\ Len(all) = n /\ \A i \in 1..n : all[i] \in Recorded /\ all[i].global = c + i
  <2>1. PICK F \in SUBSET Event : F = found
    BY <1>7
  <2>2. \A x : (\E e \in F : e.global = x) <=> x \in (c + 1)..(c + n)
    BY <1>8, <2>1
  <2>3. c \in Nat /\ n \in Nat /\ c + n <= MaxEvents
    BY <1>2, <1>6
  <2>4. ByNumber(F) \in Seq(Event) /\ Len(ByNumber(F)) = n
       /\ \A i \in 1..n : ByNumber(F)[i] \in F /\ ByNumber(F)[i].global = c + i
    BY <2>2, <2>3, ByNumberIs
  <2>5. QED
    BY <1>9, <1>15, <2>1, <2>4
<1>11. PICK m \in 0..n : m = Min({limit, n})
  <2>1. \E m \in {limit, n} : \A y \in {limit, n} : m <= y
    OBVIOUS
  <2>2. Min({limit, n}) \in {limit, n} /\ \A y \in {limit, n} : Min({limit, n}) <= y
    BY <2>1 DEF Min
  <2>3. QED
    BY <2>2
<1>12. q = SubSeq(all, 1, m)
  BY <1>4, <1>9, <1>10, <1>11
<1>13. \A i \in 1..m : all[i] \in Event
  BY <1>10, ElementOfSeq
<1>14. /\ q \in Seq(Event) /\ Len(q) = m /\ \A i \in 1..m : q[i] = all[i]
  <2>1. 1 \in Int /\ m \in Int
    OBVIOUS
  <2>2. /\ SubSeq(all, 1, m) \in Seq(Event)
        /\ Len(SubSeq(all, 1, m)) = IF 1 <= m THEN m - 1 + 1 ELSE 0
        /\ \A i \in 1..(m - 1 + 1) : SubSeq(all, 1, m)[i] = all[1 + i - 1]
    BY <1>13, <2>1, SubSeqProperties
  <2>3. m - 1 + 1 = m /\ \A i \in 1..m : 1 + i - 1 = i
    OBVIOUS
  <2>4. PICK r : r = SubSeq(all, 1, m)
    OBVIOUS
  <2>5. r \in Seq(Event) /\ Len(r) = m /\ \A i \in 1..m : r[i] = all[i]
    BY <2>2, <2>3, <2>4
  <2>6. QED
    BY <1>12, <2>4, <2>5
<1>16. QED
  BY <1>10, <1>14

-----------------------------------------------------------------------------
(* Streams of messages.                                                    *)

\* N is M and what came after it.
Extends(M, N) == Len(M) <= Len(N) /\ \A i \in 1..Len(M) : N[i] = M[i]

LEMMA EventIs ==
  ASSUME NEW e \in Event
  PROVE  e.global \in Global /\ e.global \in Nat \ {0} /\ e.global \in 1..MaxEvents
  BY EventStoreAssumption DEF Event, Global

LEMMA ElementIs ==
  ASSUME NEW M \in Seq(Event), NEW i \in 1..Len(M)
  PROVE  M[i] \in Event /\ M[i].global \in Nat \ {0} /\ M[i].global \in 1..MaxEvents
  BY ElementOfSeq, EventIs

LEMMA HoldsStill ==
  ASSUME NEW M \in Seq(Event), NEW N \in Seq(Event), Extends(M, N)
  PROVE  /\ \A g : Holds(M, g) => Holds(N, g)
         /\ \A n : Published(M, n) => Published(N, n)
         /\ \A q, n : Ready(M, q, n) => Ready(N, q, n)
<1>1. Len(M) \in Nat /\ Len(N) \in Nat
  BY LenProperties
<1>2. \A g : Holds(M, g) => Holds(N, g)
  BY <1>1 DEF Holds, Extends
<1>3. \A n : Published(M, n) => Published(N, n)
  BY <1>2 DEF Published
<1>4. \A q, n : Ready(M, q, n) => Ready(N, q, n)
  BY <1>3 DEF Ready
<1>5. QED
  BY <1>2, <1>3, <1>4

LEMMA AppendIs ==
  ASSUME NEW M \in Seq(Event), NEW e \in Event
  PROVE  /\ Append(M, e) \in Seq(Event) /\ Len(Append(M, e)) = Len(M) + 1 /\ Len(M) \in Nat
         /\ \A i \in 1..Len(M) : Append(M, e)[i] = M[i]
         /\ Append(M, e)[Len(M) + 1] = e
         /\ Extends(M, Append(M, e)) /\ Holds(Append(M, e), e.global)
<1>1. /\ Append(M, e) \in Seq(Event) /\ Len(Append(M, e)) = Len(M) + 1 /\ Len(M) \in Nat
      /\ \A i \in 1..Len(M) : Append(M, e)[i] = M[i]
      /\ Append(M, e)[Len(M) + 1] = e
  BY AppendProperties, LenProperties
<1>2. Len(M) + 1 \in 1..Len(Append(M, e))
  BY <1>1
<1>3. QED
  BY <1>1, <1>2 DEF Extends, Holds

\* What Store leaves of a stream M with memory W.
LEMMA StoreAdds ==
  ASSUME NEW M \in Seq(Event), NEW W \in SUBSET Global, NEW e \in Event,
         Gapless(M), Remembered(M, W), Published(M, e.global - 1),
         NEW N, N = IF e.global \in W THEN M ELSE Append(M, e)
  PROVE  /\ N \in Seq(Event) /\ Extends(M, N) /\ Gapless(N)
         /\ Remembered(N, W \cup {e.global}) /\ Published(N, e.global)
<1>1. e.global \in Nat \ {0}
  BY EventIs
<1>2. CASE e.global \in W
  <2>1. N = M /\ Holds(M, e.global) /\ Len(M) \in Nat
    BY <1>2, LenProperties DEF Remembered
  <2>2. \A g \in 1..e.global : g = e.global \/ g \in 1..(e.global - 1)
    BY <1>1
  <2>3. Published(M, e.global)
    BY <2>1, <2>2 DEF Published
  <2>4. QED
    BY <2>1, <2>3 DEF Extends, Remembered
<1>3. CASE e.global \notin W
  <2>1. /\ N \in Seq(Event) /\ Len(N) = Len(M) + 1 /\ Len(M) \in Nat
        /\ \A i \in 1..Len(M) : N[i] = M[i]
        /\ N[Len(M) + 1] = e
        /\ Extends(M, N) /\ Holds(N, e.global)
    BY <1>3, AppendIs
  <2>2. \A g : Holds(M, g) => Holds(N, g)
    BY <2>1, HoldsStill
  <2>3. Published(N, e.global)
    <3>1. \A g \in 1..e.global : g = e.global \/ g \in 1..(e.global - 1)
      BY <1>1
    <3>2. QED
      BY <2>1, <2>2, <3>1 DEF Published
  <2>4. Remembered(N, W \cup {e.global})
    BY <2>1, <2>2 DEF Remembered
  <2>5. ASSUME NEW j \in 1..Len(N), NEW g \in 1..N[j].global
        PROVE  \E i \in 1..j : N[i].global = g
    <3>1. CASE j \in 1..Len(M)
      <4>1. g \in 1..M[j].global
        BY <2>1, <3>1
      <4>2. PICK i \in 1..j : M[i].global = g
        BY <3>1, <4>1 DEF Gapless
      <4>3. i \in 1..Len(M)
        BY <2>1, <3>1, <4>2
      <4>4. QED
        BY <2>1, <4>2, <4>3
    <3>2. CASE j = Len(N)
      <4>1. g \in 1..e.global
        BY <2>1, <3>2
      <4>2. Holds(N, g)
        BY <2>3, <4>1 DEF Published
      <4>3. QED
        BY <3>2, <4>2 DEF Holds
    <3>3. j \in 1..Len(M) \/ j = Len(N)
      BY <2>1
    <3>4. QED
      BY <3>1, <3>2, <3>3
  <2>6. QED
    BY <2>1, <2>3, <2>4, <2>5 DEF Gapless
<1>4. QED
  BY <1>2, <1>3

LEMMA SeenStill ==
  ASSUME NEW M \in Seq(Event), NEW N \in Seq(Event), Extends(M, N),
         NEW p \in 1..(Len(M) + 1), NEW n, NEW A, NEW D, Seen(M, p, n, A, D)
  PROVE  Seen(N, p, n, A, D)
<1>1. Len(M) \in Nat
  BY LenProperties
<1>2. \A i \in 1..(p - 1) : N[i] = M[i]
  BY <1>1 DEF Extends
<1>3. QED
  BY <1>2 DEF Seen

-----------------------------------------------------------------------------
(* The steps of the relay.                                                 *)

LEMMA Constants ==
  /\ MaxEvents \in Nat /\ ReadLimits \subseteq Nat \ {0} /\ MaxDeliver \in Nat \ {0}
  /\ MaxErrors \in Nat
  BY EventStoreAssumption, OutboxAssumption

\* Types and read model while only the relay and the bus move.
LEMMA ReadKept ==
  ASSUME Types, ReadInv, UNCHANGED <<readVars, dead, dlqErrs>>,
         msgs' \in Seq(Event), Extends(msgs, msgs')
  PROVE  ReadInv' /\ pos' \in 1..(Len(msgs') + 1)
<1>1. /\ pos' = pos /\ lastApplied' = lastApplied /\ applied' = applied
      /\ dead' = dead /\ dlqErrs' = dlqErrs
  BY DEF readVars
<1>2. PICK N : N = msgs'
  OBVIOUS
<1>3. dlqErrs = 0 => Seen(N, pos, lastApplied, applied, dead)
  BY <1>2, SeenStill DEF Types, ReadInv
<1>4. AppliedOnceInOrder'
  BY <1>1 DEF ReadInv, AppliedOnceInOrder
<1>5. pos' \in 1..(Len(msgs') + 1)
  BY <1>1, LenProperties DEF Types, Extends
<1>6. QED
  BY <1>1, <1>2, <1>3, <1>4, <1>5 DEF ReadInv

LEMMA ReadStartKeeps ==
  ASSUME OutboxInv, ReadStart
  PROVE  OutboxInv'
<1>1. /\ up /\ relay = "idle" /\ batchStarts # <<>> /\ relay' = "scan"
      /\ start' = batchStartFor(checkpoint + 1)
      /\ UNCHANGED <<esVars, batch, evs, last, checkpoint, saved, busVars, readVars, dead, errVars>>
  BY DEF ReadStart
<1>2. StoreInv /\ StoreInv'
  BY <1>1, StoreKept DEF OutboxInv
<1>3. checkpoint \in Nat
  BY Constants DEF OutboxInv, Types
<1>4. Scans(kv, global, start', checkpoint) /\ start' \in 0..MaxEvents
  BY <1>1, <1>2, <1>3, StartIs
<1>5. kv' = kv /\ up' = up /\ global' = global /\ msgs' = msgs /\ window' = window
  BY <1>1 DEF esVars, busVars
<1>6. Types'
  BY <1>1, <1>4, <1>5 DEF OutboxInv, Types, readVars, errVars
<1>7. RelayInv'
  BY <1>1, <1>4, <1>5 DEF OutboxInv, RelayInv
<1>8. BusInv'
  BY <1>5 DEF OutboxInv, BusInv
<1>9. ReadInv'
  BY <1>1, <1>5 DEF OutboxInv, ReadInv, AppliedOnceInOrder, readVars, errVars
<1>10. QED
  BY <1>2, <1>6, <1>7, <1>8, <1>9 DEF OutboxInv

LEMMA ReadScanKeeps ==
  ASSUME OutboxInv, ReadScan
  PROVE  OutboxInv'
<1>1. PICK q : q = ScanFrom(start, checkpoint + 1, batch)
  OBVIOUS
<1>2. /\ up /\ relay = "scan"
      /\ IF q = <<>> THEN relay' = "idle" /\ UNCHANGED <<evs, last>>
         ELSE relay' = "publish" /\ evs' = q /\ last' = Last(q).global
      /\ UNCHANGED <<esVars, batch, start, checkpoint, saved, busVars, readVars, dead, errVars>>
  BY <1>1 DEF ReadScan
<1>3. StoreInv /\ StoreInv'
  BY <1>2, StoreKept DEF OutboxInv
<1>4. /\ checkpoint \in 0..MaxEvents /\ checkpoint \in Nat /\ start \in Nat /\ batch \in Nat \ {0}
      /\ Scans(kv, global, start, checkpoint)
      /\ Published(msgs, checkpoint)
  BY <1>2, Constants DEF OutboxInv, Types, RelayInv
<1>5. /\ q \in Seq(Event) /\ Len(q) \in Nat
      /\ \A i \in 1..Len(q) : q[i].global = checkpoint + i
  <2>1. PICK c \in 0..MaxEvents : c = checkpoint
    BY <1>4
  <2>2. PICK b \in Nat : b = start
    BY <1>4
  <2>3. PICK l \in Nat \ {0} : l = batch
    BY <1>4
  <2>4. q = ScanFrom(b, c + 1, l) /\ Scans(kv, global, b, c)
    BY <1>1, <1>4, <2>1, <2>2, <2>3
  <2>5. /\ q \in Seq(Event) /\ Len(q) \in Nat
        /\ \A i \in 1..Len(q) : q[i] \in Recorded /\ q[i].global = c + i
    BY <1>2, <1>3, <2>4, ScanIs
  <2>6. QED
    BY <2>1, <2>5
<1>6. kv' = kv /\ up' = up /\ global' = global /\ msgs' = msgs /\ window' = window
  BY <1>2 DEF esVars, busVars
<1>7. ASSUME q = <<>>
      PROVE  Types' /\ RelayInv'
  <2>1. Types'
    BY <1>2, <1>6, <1>7 DEF OutboxInv, Types, readVars, errVars
  <2>2. relay' = "idle" /\ checkpoint' = checkpoint /\ saved' = saved
    BY <1>2, <1>7
  <2>3. RelayInv'
    <3>1. Published(msgs', checkpoint') /\ Published(msgs', saved')
      BY <1>6, <2>2 DEF OutboxInv, RelayInv
    <3>2. QED
      BY <2>2, <3>1 DEF RelayInv
  <2>4. QED
    BY <2>1, <2>3
<1>8. ASSUME q # <<>>
      PROVE  Types' /\ RelayInv'
  <2>1. Len(q) \in 1..Len(q) /\ 1 \in 1..Len(q)
    BY <1>5, <1>8, EmptySeq
  <2>2. Last(q) = q[Len(q)]
    BY DEF Last
  <2>3. q[1].global = checkpoint + 1 /\ q[1].global - 1 = checkpoint
    BY <1>4, <1>5, <2>1
  <2>4. \A i \in 1..Len(q) : q[i].global = q[1].global + i - 1
    BY <1>4, <1>5, <2>3
  <2>5. Ready(msgs, q, last')
    BY <1>2, <1>4, <1>8, <2>2, <2>3, <2>4 DEF Ready
  <2>6. last' \in 0..MaxEvents
    <3>1. last' \in 1..MaxEvents
      BY <1>2, <1>5, <1>8, <2>1, <2>2, ElementIs
    <3>2. QED
      BY <3>1, Constants
  <2>7. Types'
    BY <1>2, <1>5, <1>6, <1>8, <2>6 DEF OutboxInv, Types, readVars, errVars
  <2>8. RelayInv'
    <3>1. relay' = "publish" /\ checkpoint' = checkpoint /\ saved' = saved /\ up' = TRUE
      BY <1>2, <1>6, <1>8 DEF OutboxInv, StoreInv, EsTypeOK
    <3>2. Published(msgs', checkpoint') /\ Published(msgs', saved')
      BY <1>6, <3>1 DEF OutboxInv, RelayInv
    <3>3. evs' = q
      BY <1>2, <1>8
    <3>4. Ready(msgs', evs', last')
      BY <1>6, <2>5, <3>3
    <3>5. QED
      BY <3>1, <3>2, <3>4 DEF RelayInv
  <2>9. QED
    BY <2>7, <2>8
<1>9. BusInv'
  BY <1>6 DEF OutboxInv, BusInv
<1>10. ReadInv'
  BY <1>2, <1>6 DEF OutboxInv, ReadInv, AppliedOnceInOrder, readVars, errVars
<1>11. QED
  BY <1>3, <1>7, <1>8, <1>9, <1>10 DEF OutboxInv

\* The event to publish next follows what is published.
LEMMA NextIs ==
  ASSUME NEW M \in Seq(Event), NEW q \in Seq(Event), NEW n, Ready(M, q, n)
  PROVE  /\ Head(q) \in Event /\ Published(M, Head(q).global - 1)
         /\ Tail(q) \in Seq(Event)
         /\ \A N : Published(N, Head(q).global) =>
                     IF Tail(q) = <<>> THEN Published(N, n) ELSE Ready(N, Tail(q), n)
<1>1. q # <<>> /\ \A i \in 1..Len(q) : q[i].global = q[1].global + i - 1
  BY DEF Ready
<1>2. /\ Head(q) \in Event /\ Tail(q) \in Seq(Event) /\ Len(Tail(q)) = Len(q) - 1
      /\ \A i \in 1..Len(Tail(q)) : Tail(q)[i] = q[i + 1]
      /\ Len(q) \in Nat \ {0} /\ Len(Tail(q)) \in Nat
  BY <1>1, HeadTailProperties, EmptySeq, LenProperties
<1>3. Head(q) = q[1] /\ q[1].global \in Nat \ {0}
  <2>1. 1 \in 1..Len(q)
    BY <1>2
  <2>2. QED
    BY <1>1, <2>1, ElementIs
<1>4. ASSUME NEW N, Published(N, Head(q).global), Tail(q) = <<>>
      PROVE  Published(N, n)
  <2>1. Len(Tail(q)) = 0
    BY <1>4, EmptySeq
  <2>2. Len(q) = 1
    <3>1. PICK n1 \in Nat : n1 = Len(q)
      BY <1>2
    <3>2. n1 \in Int /\ n1 - 1 = 0
      BY <1>2, <2>1, <3>1
    <3>3. n1 = 1
      BY <3>2
    <3>4. QED
      BY <3>1, <3>3
  <2>3. QED
    BY <1>3, <1>4, <2>2 DEF Ready
<1>5. ASSUME NEW N, Published(N, Head(q).global), Tail(q) # <<>>
      PROVE  Ready(N, Tail(q), n)
  <2>1. PICK t \in Seq(Event) : t = Tail(q)
    BY <1>2
  <2>2. Len(t) \in Nat \ {0} /\ Len(q) = Len(t) + 1 /\ \A i \in 1..Len(t) : t[i] = q[i + 1]
    <3>1. Len(t) \in Nat \ {0}
      BY <1>5, <2>1, EmptySeq
    <3>2. QED
      BY <1>2, <2>1, <3>1
  <2>3. \A i \in 1..Len(t) : t[i].global = q[1].global + i
    <3>1. TAKE i \in 1..Len(t)
    <3>2. i + 1 \in 1..Len(q) /\ (i + 1) - 1 = i
      BY <2>2
    <3>3. t[i] = q[i + 1] /\ q[i + 1].global = q[1].global + (i + 1) - 1
      BY <1>1, <2>2, <3>2
    <3>4. QED
      BY <1>3, <3>3
  <2>4. t[1].global = q[1].global + 1
    BY <2>2, <2>3
  <2>5. \A i \in 1..Len(t) : t[i].global = t[1].global + i - 1
    BY <1>3, <2>3, <2>4, SMTT(30)
  <2>6. Published(N, t[1].global - 1)
    BY <1>3, <1>5, <2>4
  <2>7. n = t[Len(t)].global
    <3>1. Len(t) \in 1..Len(t)
      BY <2>2
    <3>2. t[Len(t)] = q[Len(t) + 1]
      BY <2>2, <3>1
    <3>3. QED
      BY <2>2, <3>2 DEF Ready
  <2>8. QED
    BY <1>5, <2>1, <2>5, <2>6, <2>7 DEF Ready
<1>6. QED
  BY <1>2, <1>3, <1>4, <1>5 DEF Ready

\* The bus while an event is stored.
LEMMA StoreGives ==
  ASSUME Types, RelayInv, BusInv, relay = "publish", Store(Head(evs))
  PROVE  /\ msgs' \in Seq(Event) /\ Extends(msgs, msgs') /\ window' \subseteq Global
         /\ BusInv' /\ Published(msgs', Head(evs).global)
<1>1. /\ msgs \in Seq(Event) /\ evs \in Seq(Event) /\ window \in SUBSET Global
      /\ Ready(msgs, evs, last) /\ Gapless(msgs) /\ Remembered(msgs, window)
  BY DEF Types, RelayInv, BusInv
<1>2. PICK e \in Event : e = Head(evs) /\ Published(msgs, e.global - 1)
  BY <1>1, NextIs
<1>3. PICK N : N = msgs'
  OBVIOUS
<1>4. N = (IF e.global \in window THEN msgs ELSE Append(msgs, e)) /\ window' = window \cup {e.global}
  BY <1>2, <1>3 DEF Store
<1>5. /\ N \in Seq(Event) /\ Extends(msgs, N) /\ Gapless(N)
      /\ Remembered(N, window \cup {e.global}) /\ Published(N, e.global)
  BY <1>1, <1>2, <1>4, StoreAdds
<1>6. window' \subseteq Global
  BY <1>1, <1>4, EventIs
<1>7. QED
  BY <1>2, <1>3, <1>4, <1>5, <1>6 DEF BusInv

LEMMA publishNextKeeps ==
  ASSUME OutboxInv, publishNext
  PROVE  OutboxInv'
<1>1. /\ up /\ relay = "publish" /\ Store(Head(evs)) /\ evs' = Tail(evs)
      /\ relay' = IF Tail(evs) = <<>> THEN "save" ELSE "publish"
      /\ UNCHANGED <<esVars, batch, start, last, checkpoint, saved, readVars, dead, errVars>>
  BY DEF publishNext
<1>2. StoreInv' /\ up' = up
  BY <1>1, StoreKept DEF OutboxInv, esVars
<1>3. /\ msgs' \in Seq(Event) /\ Extends(msgs, msgs') /\ window' \subseteq Global
      /\ BusInv' /\ Published(msgs', Head(evs).global)
  BY <1>1, StoreGives DEF OutboxInv
<1>4. PICK N \in Seq(Event) : N = msgs'
  BY <1>3
<1>5. /\ evs' \in Seq(Event)
      /\ IF Tail(evs) = <<>> THEN Published(N, last) ELSE Ready(N, Tail(evs), last)
  <2>1. msgs \in Seq(Event) /\ evs \in Seq(Event) /\ Ready(msgs, evs, last)
    BY <1>1 DEF OutboxInv, Types, RelayInv
  <2>2. QED
    BY <1>1, <1>3, <1>4, <2>1, NextIs
<1>6. Published(N, checkpoint) /\ Published(N, saved)
  BY <1>3, <1>4, HoldsStill DEF OutboxInv, Types, RelayInv
<1>7. RelayInv'
  BY <1>1, <1>2, <1>4, <1>5, <1>6 DEF RelayInv
<1>8. ReadInv' /\ pos' \in 1..(Len(msgs') + 1)
  BY <1>1, <1>3, ReadKept DEF OutboxInv, errVars
<1>9. Types'
  BY <1>1, <1>3, <1>5, <1>8 DEF OutboxInv, Types, readVars, errVars
<1>10. QED
  BY <1>2, <1>3, <1>7, <1>8, <1>9 DEF OutboxInv

LEMMA publishFailsKeeps ==
  ASSUME OutboxInv, publishFails
  PROVE  OutboxInv'
<1>1. /\ up /\ relay = "publish" /\ errors < MaxErrors /\ errors' = errors + 1
      /\ Store(Head(evs)) \/ UNCHANGED busVars
      /\ relay' = "idle" /\ evs' = <<>>
      /\ UNCHANGED <<esVars, batch, start, last, checkpoint, saved, readVars, dead, applyErrs, dlqErrs>>
  BY DEF publishFails
<1>2. StoreInv' /\ up' = up
  BY <1>1, StoreKept DEF OutboxInv, esVars
<1>3. /\ msgs' \in Seq(Event) /\ Extends(msgs, msgs') /\ window' \subseteq Global /\ BusInv'
  <2>1. CASE Store(Head(evs))
    BY <1>1, <2>1, StoreGives DEF OutboxInv
  <2>2. CASE UNCHANGED busVars
    <3>1. msgs' = msgs /\ window' = window
      BY <2>2 DEF busVars
    <3>2. msgs \in Seq(Event) /\ Len(msgs) \in Nat
      BY LenProperties DEF OutboxInv, Types
    <3>3. Extends(msgs, msgs')
      BY <3>1, <3>2 DEF Extends
    <3>4. QED
      BY <3>1, <3>2, <3>3 DEF OutboxInv, BusInv, Types
  <2>3. QED
    BY <1>1, <2>1, <2>2
<1>4. PICK N \in Seq(Event) : N = msgs'
  BY <1>3
<1>5. Published(N, checkpoint) /\ Published(N, saved)
  BY <1>3, <1>4, HoldsStill DEF OutboxInv, Types, RelayInv
<1>6. RelayInv'
  BY <1>1, <1>2, <1>4, <1>5 DEF RelayInv
<1>7. ReadInv' /\ pos' \in 1..(Len(msgs') + 1)
  BY <1>1, <1>3, ReadKept DEF OutboxInv
<1>8. Types'
  <2>1. errors' \in 0..MaxErrors /\ deliveries <= MaxDeliver + errors'
    BY <1>1, Constants DEF OutboxInv, Types
  <2>2. <<>> \in Seq(Event)
    BY EmptySeq
  <2>3. QED
    BY <1>1, <1>3, <1>7, <2>1, <2>2 DEF OutboxInv, Types, readVars
<1>9. QED
  BY <1>2, <1>3, <1>6, <1>7, <1>8 DEF OutboxInv

LEMMA saveCheckpointKeeps ==
  ASSUME OutboxInv, saveCheckpoint \/ saveCheckpointFails
  PROVE  OutboxInv'
<1>1. /\ up /\ relay = "save" /\ saved' \in {saved, last} /\ checkpoint' \in {checkpoint, last}
      /\ relay' = "idle" /\ errors' \in {errors, errors + 1}
      /\ errors' # errors => errors < MaxErrors
      /\ UNCHANGED <<esVars, batch, start, evs, last, busVars, readVars, dead, applyErrs, dlqErrs>>
  BY DEF saveCheckpoint, saveCheckpointFails, errVars
<1>2. StoreInv' /\ up' = up
  BY <1>1, StoreKept DEF OutboxInv, esVars
<1>3. msgs' = msgs /\ window' = window
  BY <1>1 DEF busVars
<1>4. Published(msgs, checkpoint') /\ Published(msgs, saved')
  BY <1>1 DEF OutboxInv, RelayInv
<1>5. RelayInv'
  BY <1>1, <1>2, <1>3, <1>4 DEF RelayInv
<1>6. BusInv'
  BY <1>3 DEF OutboxInv, BusInv
<1>7. ReadInv'
  BY <1>1, <1>3 DEF OutboxInv, ReadInv, AppliedOnceInOrder, readVars
<1>8. Types'
  <2>1. errors \in 0..MaxErrors /\ deliveries \in Nat /\ deliveries <= MaxDeliver + errors
    BY DEF OutboxInv, Types
  <2>2. errors' \in 0..MaxErrors
    BY <1>1, <2>1, Constants
  <2>3. errors <= errors' /\ errors \in Nat /\ errors' \in Nat
    BY <1>1, <2>1, Constants
  <2>4. deliveries <= MaxDeliver + errors'
    <3>1. PICK d \in Nat, x \in Nat, y \in Nat : d = deliveries /\ x = errors /\ y = errors'
      BY <2>1, <2>3
    <3>2. PICK k \in Nat : k = MaxDeliver
      BY Constants
    <3>3. d <= k + x /\ x <= y
      BY <2>1, <2>3, <3>1, <3>2
    <3>4. d <= k + y
      BY <3>3
    <3>5. QED
      BY <3>1, <3>2, <3>4
  <2>5. checkpoint' \in 0..MaxEvents /\ saved' \in 0..MaxEvents
    BY <1>1 DEF OutboxInv, Types
  <2>6. QED
    BY <1>1, <1>3, <2>2, <2>4, <2>5 DEF OutboxInv, Types, readVars
<1>9. QED
  BY <1>2, <1>5, <1>6, <1>7, <1>8 DEF OutboxInv

LEMMA WindowKeeps ==
  ASSUME OutboxInv, WindowExpires
  PROVE  OutboxInv'
<1>1. /\ window' \subseteq window
      /\ UNCHANGED <<esVars, relayVars, saved, msgs, readVars, dead, errVars>>
  BY DEF WindowExpires
<1>2. StoreInv' /\ up' = up /\ kv' = kv /\ global' = global
  BY <1>1, StoreKept DEF OutboxInv, esVars
<1>3. RelayInv'
  BY <1>1, <1>2 DEF OutboxInv, RelayInv, relayVars
<1>4. BusInv'
  BY <1>1 DEF OutboxInv, BusInv, Remembered
<1>5. ReadInv'
  BY <1>1 DEF OutboxInv, ReadInv, AppliedOnceInOrder, readVars, errVars
<1>6. Types'
  BY <1>1 DEF OutboxInv, Types, relayVars, readVars, errVars
<1>7. QED
  BY <1>2, <1>3, <1>4, <1>5, <1>6 DEF OutboxInv


-----------------------------------------------------------------------------
(* The steps of the event store, of the consumer and of the process.       *)

\* A step of the store leaves a scan that is going on what it needs.
LEMMA ScansStill ==
  ASSUME NEW K \in Database, NEW G \in Nat, NEW b \in Nat, NEW c, Scans(K, G, b, c),
         NEW L \in Database, NEW H \in Nat, G <= H, \A h \in Global : h <= G => L[h] = K[h]
  PROVE  Scans(L, H, b, c)
<1>1. b <= G /\ \A h \in Global : h \in Nat
  BY EventStoreAssumption DEF Scans, Global
<1>2. b <= H
  BY <1>1
<1>3. ASSUME NEW h \in Global, L[h] # NoBatch, h < b
      PROVE  h + L[h].len <= c + 1
  <2>1. h <= G
    BY <1>1, <1>3
  <2>2. L[h] = K[h]
    BY <2>1
  <2>3. QED
    BY <1>3, <2>2 DEF Scans
<1>4. QED
  BY <1>2, <1>3 DEF Scans

LEMMA StoreStepIs ==
  ASSUME StoreInv, StoreStep
  PROVE  /\ StoreInv' /\ up /\ up' /\ global \in Nat /\ global' \in Nat /\ global <= global'
         /\ kv \in Database /\ kv' \in Database
         /\ \A h \in Global : h <= global => kv'[h] = kv[h]
<1>1. \/ \E s \in Stream, v \in {AnyVersion} \cup 0..MaxEvents, n \in 1..MaxBatch :
            AppendPut(s, v, n) \/ AppendPutFails(s, v, n)
      \/ AppendReturns
  BY DEF StoreStep
<1>2. ASSUME NEW s \in Stream, NEW v \in {AnyVersion} \cup 0..MaxEvents, NEW n \in 1..MaxBatch,
             AppendPut(s, v, n) \/ AppendPutFails(s, v, n)
      PROVE  /\ StoreInv' /\ up /\ up' = up /\ global' = global
             /\ \A h \in Global : h <= global => kv'[h] = kv[h]
  <2>1. /\ Put(s, v, n) /\ UNCHANGED <<up, global, streamIdx, batchStarts, acked, crashes>>
        /\ pending' \in {NoBatch, kv'[global + 1]} /\ faults' \in Nat
    <3>1. CASE AppendPut(s, v, n)
      BY <3>1 DEF AppendPut, StoreInv, EsTypeOK
    <3>2. CASE AppendPutFails(s, v, n)
      <4>1. pending = NoBatch
        BY <3>2 DEF AppendPutFails, Put
      <4>2. QED
        BY <3>2, <4>1 DEF AppendPutFails, StoreInv, EsTypeOK
    <3>3. QED
      BY <1>2, <3>1, <3>2
  <2>2. StoreInv' /\ \A h \in Global : h <= global => kv'[h] = kv[h]
    BY <2>1, PutKeeps
  <2>3. QED
    BY <2>1, <2>2 DEF Put
<1>3. CASE AppendReturns
  <2>1. StoreInv' /\ global <= global' /\ kv' = kv /\ up' = up /\ up
    BY <1>3, ReturnKeeps DEF AppendReturns
  <2>2. global \in Nat /\ global' \in Nat /\ kv \in Database
    BY <2>1, EventStoreAssumption DEF StoreInv, EsTypeOK, Database
  <2>3. QED
    BY <2>1, <2>2
<1>4. CASE ~AppendReturns
  <2>1. /\ StoreInv' /\ up /\ up' = up /\ global' = global
        /\ \A h \in Global : h <= global => kv'[h] = kv[h]
    BY <1>1, <1>2, <1>4
  <2>2. global \in Nat /\ kv \in Database /\ kv' \in Database
    BY <2>1, EventStoreAssumption DEF StoreInv, EsTypeOK, Database
  <2>3. QED
    BY <2>1, <2>2
<1>5. QED
  BY <1>3, <1>4

LEMMA StoreStepKeeps ==
  ASSUME OutboxInv, StoreStep
  PROVE  OutboxInv'
<1>1. UNCHANGED <<relayVars, saved, busVars, readVars, dead, errVars>>
  BY DEF StoreStep
<1>2. /\ StoreInv' /\ up /\ up' /\ global \in Nat /\ global' \in Nat /\ global <= global'
      /\ kv \in Database /\ kv' \in Database
      /\ \A h \in Global : h <= global => kv'[h] = kv[h]
  BY StoreStepIs DEF OutboxInv
<1>3. RelayInv'
  <2>1. /\ relay' = relay /\ start' = start /\ evs' = evs /\ last' = last
        /\ checkpoint' = checkpoint /\ saved' = saved /\ msgs' = msgs
    BY <1>1 DEF relayVars, busVars
  <2>2. relay = "scan" => Scans(kv', global', start, checkpoint)
    <3>1. PICK L \in Database, H \in Nat : L = kv' /\ H = global'
      BY <1>2
    <3>2. start \in Nat
      BY Constants DEF OutboxInv, Types
    <3>3. relay = "scan" => Scans(kv, global, start, checkpoint)
      BY DEF OutboxInv, RelayInv
    <3>4. QED
      BY <1>2, <3>1, <3>2, <3>3, ScansStill
  <2>3. QED
    BY <1>2, <2>1, <2>2 DEF OutboxInv, RelayInv
<1>4. BusInv'
  BY <1>1 DEF OutboxInv, BusInv, busVars
<1>5. ReadInv'
  BY <1>1 DEF OutboxInv, ReadInv, AppliedOnceInOrder, busVars, readVars, errVars
<1>6. Types'
  BY <1>1 DEF OutboxInv, Types, relayVars, busVars, readVars, errVars
<1>7. QED
  BY <1>2, <1>3, <1>4, <1>5, <1>6 DEF OutboxInv

LEMMA CrashStepKeeps ==
  ASSUME OutboxInv, Crash
  PROVE  OutboxInv'
<1>1. /\ EsCrash
      /\ relay' = "idle" /\ start' = 0 /\ evs' = <<>> /\ last' = 0 /\ checkpoint' = 0
      /\ pos' = 1 /\ deliveries' = 0 /\ lastApplied' = 0 /\ applied' = <<>>
      /\ UNCHANGED <<batch, saved, busVars, dead, errVars>>
  BY DEF Crash
<1>2. StoreInv' /\ up' = FALSE
  BY <1>1, CrashKeeps DEF OutboxInv
<1>3. msgs' = msgs /\ window' = window /\ saved' = saved
  BY <1>1 DEF busVars
<1>4. RelayInv'
  <2>1. Published(msgs, 0)
    BY DEF Published
  <2>2. Published(msgs', checkpoint') /\ Published(msgs', saved')
    BY <1>1, <1>3, <2>1 DEF OutboxInv, RelayInv
  <2>3. QED
    BY <1>1, <2>2 DEF RelayInv
<1>5. BusInv'
  BY <1>3 DEF OutboxInv, BusInv
<1>6. ReadInv'
  <2>1. Len(applied') = 0
    BY <1>1, EmptySeq
  <2>2. \A i : i \notin 1..0
    OBVIOUS
  <2>3. AppliedOnceInOrder'
    BY <2>1, <2>2 DEF AppliedOnceInOrder
  <2>4. Seen(msgs', pos', lastApplied', applied', dead')
    BY <1>1, <2>2 DEF Seen
  <2>5. QED
    BY <2>1, <2>2, <2>3, <2>4 DEF ReadInv
<1>7. Types'
  <2>1. <<>> \in Seq(Event) /\ Len(msgs) \in Nat
    BY EmptySeq, LenProperties DEF OutboxInv, Types
  <2>2. pos' \in 1..(Len(msgs') + 1)
    BY <1>1, <1>3, <2>1
  <2>3. /\ deliveries' \in Nat /\ deliveries' <= MaxDeliver + errors' /\ errors' \in 0..MaxErrors
        /\ 0 \in 0..MaxEvents
    BY <1>1, Constants DEF OutboxInv, Types, errVars
  <2>4. QED
    BY <1>1, <1>3, <2>1, <2>2, <2>3 DEF OutboxInv, Types, errVars
<1>8. QED
  BY <1>2, <1>4, <1>5, <1>6, <1>7 DEF OutboxInv

LEMMA OpenStepKeeps ==
  ASSUME OutboxInv, Open
  PROVE  OutboxInv'
<1>1. /\ EsOpen /\ checkpoint' = saved
      /\ UNCHANGED <<batch, relay, start, evs, last, saved, busVars, readVars, dead, errVars>>
  BY DEF Open
<1>2. StoreInv' /\ up' = TRUE
  BY <1>1, OpenKeeps DEF OutboxInv
<1>3. relay = "idle"
  BY <1>1 DEF OutboxInv, RelayInv, EsOpen
<1>4. RelayInv'
  <2>1. relay' = "idle" /\ msgs' = msgs /\ saved' = saved
    BY <1>1, <1>3 DEF busVars
  <2>2. Published(msgs', checkpoint') /\ Published(msgs', saved')
    BY <1>1, <2>1 DEF OutboxInv, RelayInv
  <2>3. QED
    BY <2>1, <2>2 DEF RelayInv
<1>5. BusInv'
  BY <1>1 DEF OutboxInv, BusInv, busVars
<1>6. ReadInv'
  BY <1>1 DEF OutboxInv, ReadInv, AppliedOnceInOrder, busVars, readVars, errVars
<1>7. Types'
  BY <1>1 DEF OutboxInv, Types, busVars, readVars, errVars
<1>8. QED
  BY <1>2, <1>4, <1>5, <1>6, <1>7 DEF OutboxInv

\* What has been dealt with stays so.
LEMMA DoneStill ==
  ASSUME NEW A \in Seq(Event), NEW B \in Seq(Event), Extends(A, B), NEW D, NEW C, D \subseteq C
  PROVE  /\ \A g : Done(A, D, g) => Done(B, C, g)
         /\ \A M, p, n : Seen(M, p, n, A, D) => Seen(M, p, n, B, C)
<1>1. \A g : Done(A, D, g) => Done(B, C, g)
  BY HoldsStill DEF Done
<1>2. QED
  BY <1>1 DEF Seen

\* The consumer is past one message more.
LEMMA SeenNext ==
  ASSUME NEW M, NEW p \in Nat, NEW n, NEW A, NEW D, Seen(M, p, n, A, D),
         Done(A, D, M[p].global)
  PROVE  Seen(M, p + 1, n, A, D)
<1>1. \A i \in 1..((p + 1) - 1) : i \in 1..(p - 1) \/ i = p
  OBVIOUS
<1>2. QED
  BY <1>1 DEF Seen

\* The numbers below that of the message at hand belong to messages before it.
LEMMA SeenBelow ==
  ASSUME NEW M \in Seq(Event), Gapless(M), NEW p \in 1..Len(M), NEW n, NEW A, NEW D,
         Seen(M, p, n, A, D), Done(A, D, M[p].global)
  PROVE  \A g \in 1..M[p].global : Done(A, D, g)
<1>1. Len(M) \in Nat
  BY LenProperties
<1>2. TAKE g \in 1..M[p].global
<1>3. PICK i \in 1..p : M[i].global = g
  BY <1>2 DEF Gapless
<1>4. CASE i = p
  BY <1>3, <1>4
<1>5. CASE i # p
  <2>1. i \in 1..(p - 1)
    BY <1>1, <1>5
  <2>2. QED
    BY <1>3, <2>1 DEF Seen
<1>6. QED
  BY <1>4, <1>5

\* The message at hand.
LEMMA HandIs ==
  ASSUME Types, BusInv, ReadInv, pos <= Len(msgs)
  PROVE  /\ pos \in 1..Len(msgs) /\ pos \in Nat \ {0} /\ Len(msgs) \in Nat
         /\ msgs \in Seq(Event) /\ Gapless(msgs) /\ applied \in Seq(Event)
         /\ msgs[pos] \in Event /\ msgs[pos].global \in 1..MaxEvents
         /\ msgs[pos].global \in Nat \ {0} /\ lastApplied \in Nat
         /\ dlqErrs = 0 => Seen(msgs, pos, lastApplied, applied, dead)
<1>1. msgs \in Seq(Event) /\ Len(msgs) \in Nat /\ applied \in Seq(Event) /\ lastApplied \in Nat
  BY Constants, LenProperties DEF Types
<1>2. pos \in 1..Len(msgs) /\ pos \in Nat \ {0}
  BY <1>1 DEF Types
<1>3. QED
  BY <1>1, <1>2, ElementIs DEF BusInv, ReadInv

\* The handler has returned nil: what it leaves of the read model.
LEMMA AppliedIs ==
  ASSUME Types, BusInv, ReadInv, pos <= Len(msgs),
         IF Duplicate(msgs[pos]) THEN UNCHANGED <<lastApplied, applied>>
         ELSE /\ applied' = Append(applied, msgs[pos])
              /\ lastApplied' = msgs[pos].global
  PROVE  /\ applied' \in Seq(Event) /\ lastApplied' \in 0..MaxEvents
         /\ AppliedOnceInOrder'
         /\ \A i \in 1..Len(applied') : applied'[i].global <= lastApplied'
         /\ dlqErrs = 0 => /\ Seen(msgs, pos, lastApplied', applied', dead)
                           /\ Seen(msgs, pos + 1, lastApplied', applied', dead)
<1>1. /\ pos \in 1..Len(msgs) /\ pos \in Nat \ {0} /\ Len(msgs) \in Nat
      /\ msgs \in Seq(Event) /\ Gapless(msgs) /\ applied \in Seq(Event)
      /\ msgs[pos] \in Event /\ msgs[pos].global \in 1..MaxEvents
      /\ msgs[pos].global \in Nat \ {0} /\ lastApplied \in Nat
      /\ dlqErrs = 0 => Seen(msgs, pos, lastApplied, applied, dead)
  BY HandIs
<1>2. PICK e \in Event : e = msgs[pos]
  BY <1>1
<1>3. CASE Duplicate(msgs[pos])
  <2>1. lastApplied' = lastApplied /\ applied' = applied /\ e.global <= lastApplied
    BY <1>2, <1>3 DEF Duplicate
  <2>2. ASSUME dlqErrs = 0
        PROVE  Seen(msgs, pos + 1, lastApplied, applied, dead)
    <3>1. Seen(msgs, pos, lastApplied, applied, dead)
      BY <1>1, <2>2
    <3>2. e.global \in 1..lastApplied
      BY <1>1, <1>2, <2>1
    <3>3. Done(applied, dead, msgs[pos].global)
      BY <1>2, <3>1, <3>2 DEF Seen
    <3>4. QED
      BY <1>1, <3>1, <3>3, SeenNext
  <2>3. AppliedOnceInOrder'
    BY <2>1 DEF ReadInv, AppliedOnceInOrder
  <2>4. \A i \in 1..Len(applied') : applied'[i].global <= lastApplied'
    BY <2>1 DEF ReadInv
  <2>5. applied' \in Seq(Event) /\ lastApplied' \in 0..MaxEvents
    BY <2>1 DEF Types
  <2>6. QED
    BY <1>1, <2>1, <2>2, <2>3, <2>4, <2>5
<1>4. CASE ~Duplicate(msgs[pos])
  <2>1. PICK B : B = applied'
    OBVIOUS
  <2>2. B = Append(applied, e) /\ lastApplied' = e.global /\ ~(e.global <= lastApplied)
    BY <1>2, <1>4, <2>1 DEF Duplicate
  <2>3. /\ B \in Seq(Event) /\ Len(B) = Len(applied) + 1 /\ Len(applied) \in Nat
        /\ \A i \in 1..Len(applied) : B[i] = applied[i]
        /\ B[Len(applied) + 1] = e
        /\ Extends(applied, B) /\ Holds(B, e.global)
    BY <1>1, <2>2, AppendIs
  <2>4. \A i \in 1..Len(applied) : B[i].global \in Nat /\ B[i].global < e.global
    <3>1. TAKE i \in 1..Len(applied)
    <3>2. applied[i].global <= lastApplied
      BY DEF ReadInv
    <3>3. B[i].global = applied[i].global /\ applied[i].global \in Nat /\ e.global \in Nat
      BY <1>1, <1>2, <2>3, ElementIs
    <3>4. QED
      BY <1>1, <2>2, <3>2, <3>3
  <2>5. \A i \in 1..Len(B) : i \in 1..Len(applied) \/ i = Len(B)
    BY <2>3
  <2>6. \A i \in 1..Len(B) : B[i].global <= e.global
    <3>1. B[Len(B)].global = e.global /\ e.global \in Nat
      BY <1>1, <1>2, <2>3
    <3>2. QED
      BY <2>4, <2>5, <3>1
  <2>7. ASSUME NEW i \in 1..Len(B), NEW j \in 1..Len(B), i < j
        PROVE  B[i].global < B[j].global
    <3>1. i \in 1..Len(applied)
      BY <2>3, <2>7
    <3>2. CASE j \in 1..Len(applied)
      <4>1. applied[i].global < applied[j].global
        BY <2>7, <3>1, <3>2 DEF ReadInv, AppliedOnceInOrder
      <4>2. QED
        BY <2>3, <3>1, <3>2, <4>1
    <3>3. CASE j = Len(B)
      BY <2>3, <2>4, <3>1, <3>3
    <3>4. QED
      BY <2>5, <3>2, <3>3
  <2>8. AppliedOnceInOrder'
    BY <2>1, <2>7 DEF AppliedOnceInOrder
  <2>9. ASSUME dlqErrs = 0
        PROVE  /\ Seen(msgs, pos, lastApplied', applied', dead)
               /\ Seen(msgs, pos + 1, lastApplied', applied', dead)
    <3>1. Seen(msgs, pos, lastApplied, B, dead)
      BY <1>1, <2>3, <2>9, DoneStill
    <3>2. Done(B, dead, msgs[pos].global)
      BY <1>2, <2>3 DEF Done
    <3>3. \A g \in 1..msgs[pos].global : Done(B, dead, g)
      BY <1>1, <3>1, <3>2, SeenBelow
    <3>4. Seen(msgs, pos, e.global, B, dead)
      BY <1>2, <3>1, <3>3 DEF Seen
    <3>5. Seen(msgs, pos + 1, e.global, B, dead)
      BY <1>1, <3>2, <3>4, SeenNext
    <3>6. QED
      BY <2>1, <2>2, <3>4, <3>5
  <2>10. lastApplied' \in 0..MaxEvents
    BY <1>1, <1>2, <2>2
  <2>11. QED
    BY <2>1, <2>2, <2>3, <2>6, <2>8, <2>9, <2>10
<1>5. QED
  BY <1>3, <1>4

LEMMA HandleKeeps ==
  ASSUME OutboxInv, Handle
  PROVE  OutboxInv'
<1>1. /\ up /\ pos <= Len(msgs)
      /\ IF Duplicate(msgs[pos]) THEN UNCHANGED <<lastApplied, applied>>
         ELSE /\ applied' = Append(applied, msgs[pos])
              /\ lastApplied' = msgs[pos].global
      /\ \/ pos' = pos + 1 /\ deliveries' = 0 /\ errors' = errors
         \/ /\ errors < MaxErrors /\ errors' = errors + 1
            /\ deliveries' = deliveries + 1 /\ pos' = pos
      /\ UNCHANGED <<esVars, relayVars, saved, busVars, dead, applyErrs, dlqErrs>>
  BY DEF Handle, Ack
<1>2. StoreInv' /\ up' = up /\ kv' = kv /\ global' = global
  BY <1>1, StoreKept DEF OutboxInv, esVars
<1>3. msgs' = msgs /\ window' = window /\ dead' = dead /\ dlqErrs' = dlqErrs
  BY <1>1 DEF busVars
<1>4. RelayInv'
  BY <1>1, <1>2, <1>3 DEF OutboxInv, RelayInv, relayVars
<1>5. BusInv'
  BY <1>3 DEF OutboxInv, BusInv
<1>6. /\ applied' \in Seq(Event) /\ lastApplied' \in 0..MaxEvents
      /\ AppliedOnceInOrder'
      /\ \A i \in 1..Len(applied') : applied'[i].global <= lastApplied'
      /\ dlqErrs = 0 => /\ Seen(msgs, pos, lastApplied', applied', dead)
                        /\ Seen(msgs, pos + 1, lastApplied', applied', dead)
  BY <1>1, AppliedIs DEF OutboxInv
<1>7. pos' \in {pos, pos + 1}
  BY <1>1
<1>8. ReadInv'
  <2>1. dlqErrs' = 0 => Seen(msgs', pos', lastApplied', applied', dead')
    BY <1>3, <1>6, <1>7
  <2>2. QED
    BY <1>6, <2>1 DEF ReadInv
<1>9. pos' \in 1..(Len(msgs') + 1)
  <2>1. pos \in 1..Len(msgs) /\ Len(msgs) \in Nat
    BY <1>1, HandIs DEF OutboxInv
  <2>2. QED
    BY <1>3, <1>7, <2>1
<1>10. deliveries' \in Nat /\ errors' \in 0..MaxErrors /\ deliveries' <= MaxDeliver + errors'
  <2>1. PICK d \in Nat, x \in Nat, y \in Nat, k \in Nat :
          d = deliveries /\ x = errors /\ y = MaxErrors /\ k = MaxDeliver
    BY Constants DEF OutboxInv, Types
  <2>2. d <= k + x /\ x <= y
    BY <2>1 DEF OutboxInv, Types
  <2>3. CASE deliveries' = 0 /\ errors' = errors
    BY <2>1, <2>2, <2>3
  <2>4. CASE errors < MaxErrors /\ errors' = errors + 1 /\ deliveries' = deliveries + 1
    <3>1. d + 1 <= k + (x + 1) /\ x + 1 \in 0..y /\ d + 1 \in Nat
      BY <2>1, <2>2, <2>4
    <3>2. QED
      BY <2>1, <2>4, <3>1
  <2>5. QED
    BY <1>1, <2>3, <2>4
<1>11. Types'
  BY <1>1, <1>3, <1>6, <1>9, <1>10 DEF OutboxInv, Types, relayVars
<1>12. QED
  BY <1>2, <1>4, <1>5, <1>8, <1>11 DEF OutboxInv

LEMMA HandleFailsKeeps ==
  ASSUME OutboxInv, HandleFails
  PROVE  OutboxInv'
<1>1. /\ up /\ pos <= Len(msgs) /\ applyErrs' = applyErrs + 1
      /\ IF deliveries + 1 >= MaxDeliver THEN GiveUp(msgs[pos])
         ELSE deliveries' = deliveries + 1 /\ UNCHANGED <<pos, dead, dlqErrs>>
      /\ UNCHANGED <<esVars, relayVars, saved, busVars, lastApplied, applied, errors>>
  BY DEF HandleFails
<1>2. StoreInv' /\ up' = up /\ kv' = kv /\ global' = global
  BY <1>1, StoreKept DEF OutboxInv, esVars
<1>3. /\ msgs' = msgs /\ window' = window
      /\ lastApplied' = lastApplied /\ applied' = applied /\ errors' = errors
  BY <1>1 DEF busVars
<1>4. RelayInv'
  BY <1>1, <1>2, <1>3 DEF OutboxInv, RelayInv, relayVars
<1>5. BusInv'
  BY <1>3 DEF OutboxInv, BusInv
<1>6. /\ pos \in 1..Len(msgs) /\ pos \in Nat \ {0} /\ Len(msgs) \in Nat
      /\ applied \in Seq(Event) /\ msgs[pos] \in Event
      /\ dlqErrs = 0 => Seen(msgs, pos, lastApplied, applied, dead)
  BY <1>1, HandIs DEF OutboxInv
<1>7. AppliedOnceInOrder' /\ \A i \in 1..Len(applied') : applied'[i].global <= lastApplied'
  BY <1>3 DEF OutboxInv, ReadInv, AppliedOnceInOrder
<1>8. CASE deliveries + 1 >= MaxDeliver
  <2>1. /\ pos' = pos + 1 /\ deliveries' = 0
        /\ \/ dead' = dead \cup {msgs[pos]} /\ dlqErrs' = dlqErrs
           \/ dlqErrs' = dlqErrs + 1 /\ dead' = dead
    BY <1>1, <1>8 DEF GiveUp, Ack
  <2>2. dead \subseteq dead' /\ dead' \subseteq Event /\ dlqErrs' \in Nat
    BY <1>6, <2>1, SMTT(30) DEF OutboxInv, Types
  <2>3. ASSUME dlqErrs' = 0
        PROVE  Seen(msgs, pos + 1, lastApplied, applied, dead')
    <3>1. dead' = dead \cup {msgs[pos]} /\ dlqErrs = 0
      BY <2>1, <2>3 DEF OutboxInv, Types
    <3>2. PICK D : D = dead'
      OBVIOUS
    <3>3. Extends(applied, applied)
      BY <1>6, LenProperties DEF Extends
    <3>4. Seen(msgs, pos, lastApplied, applied, D)
      BY <1>6, <3>1, <3>2, <3>3, <2>2, DoneStill
    <3>5. Done(applied, D, msgs[pos].global)
      BY <3>1, <3>2 DEF Done
    <3>6. QED
      BY <1>6, <3>2, <3>4, <3>5, SeenNext
  <2>4. ReadInv'
    BY <1>3, <1>7, <2>1, <2>3 DEF ReadInv
  <2>5. deliveries' \in Nat /\ deliveries' <= MaxDeliver + errors'
    BY <1>3, <2>1, Constants DEF OutboxInv, Types
  <2>6. pos' \in 1..(Len(msgs') + 1)
    BY <1>3, <1>6, <2>1
  <2>7. Types'
    BY <1>1, <1>3, <2>2, <2>5, <2>6, SMTT(30) DEF OutboxInv, Types, relayVars
  <2>8. QED
    BY <1>2, <1>4, <1>5, <2>4, <2>7 DEF OutboxInv
<1>9. CASE ~(deliveries + 1 >= MaxDeliver)
  <2>1. deliveries' = deliveries + 1 /\ pos' = pos /\ dead' = dead /\ dlqErrs' = dlqErrs
    BY <1>1, <1>9
  <2>2. ReadInv'
    BY <1>3, <1>7, <2>1 DEF OutboxInv, ReadInv
  <2>3. deliveries' \in Nat /\ deliveries' <= MaxDeliver + errors'
    <3>1. PICK d \in Nat, x \in Nat, k \in Nat : d = deliveries /\ x = errors /\ k = MaxDeliver
      BY Constants DEF OutboxInv, Types
    <3>2. d + 1 \in Nat /\ d + 1 <= k + x
      BY <1>9, <3>1
    <3>3. QED
      BY <1>3, <2>1, <3>1, <3>2
  <2>4. Types'
    BY <1>1, <1>3, <2>1, <2>3 DEF OutboxInv, Types, relayVars
  <2>5. QED
    BY <1>2, <1>4, <1>5, <2>2, <2>4 DEF OutboxInv
<1>10. QED
  BY <1>8, <1>9

-----------------------------------------------------------------------------
(* The theorems.                                                           *)

LEMMA InitHolds == Init => OutboxInv
<1>1. SUFFICES ASSUME Init
               PROVE  OutboxInv
  OBVIOUS
<1>2. /\ EsInit
      /\ batch \in ReadLimits /\ relay = "idle" /\ start = 0 /\ evs = <<>> /\ last = 0
      /\ checkpoint = 0 /\ saved = 0
      /\ msgs = <<>> /\ window = {}
      /\ pos = 1 /\ deliveries = 0 /\ lastApplied = 0 /\ applied = <<>>
      /\ dead = {}
      /\ errors = 0 /\ applyErrs = 0 /\ dlqErrs = 0
  BY <1>1 DEF Init
<1>3. StoreInv /\ up
  BY <1>2, StoreStarts DEF EsInit
<1>4. Len(msgs) = 0 /\ Len(applied) = 0 /\ <<>> \in Seq(Event) /\ \A i : i \notin 1..0
  BY <1>2, EmptySeq
<1>5. RelayInv
  BY <1>2, <1>3, <1>4 DEF RelayInv, Published
<1>6. BusInv
  BY <1>2, <1>4 DEF BusInv, Gapless, Remembered
<1>7. ReadInv
  <2>1. AppliedOnceInOrder
    BY <1>4 DEF AppliedOnceInOrder
  <2>2. Seen(msgs, pos, lastApplied, applied, dead)
    BY <1>2, <1>4 DEF Seen
  <2>3. QED
    BY <1>4, <2>1, <2>2 DEF ReadInv
<1>8. Types
  <2>1. pos \in 1..(Len(msgs) + 1)
    BY <1>2, <1>4
  <2>2. 0 \in 0..MaxEvents /\ 0 \in 0..MaxErrors /\ 0 <= MaxDeliver + 0 /\ 0 \in Nat
    BY Constants
  <2>3. QED
    BY <1>2, <1>4, <2>1, <2>2 DEF Types
<1>9. QED
  BY <1>3, <1>5, <1>6, <1>7, <1>8 DEF OutboxInv

LEMMA NextHolds == OutboxInv /\ [Next]_vars => OutboxInv'
<1>1. SUFFICES ASSUME OutboxInv, [Next]_vars
               PROVE  OutboxInv'
  OBVIOUS
<1>2. CASE StoreStep
  BY <1>1, <1>2, StoreStepKeeps
<1>3. CASE ReadStart
  BY <1>1, <1>3, ReadStartKeeps
<1>4. CASE ReadScan
  BY <1>1, <1>4, ReadScanKeeps
<1>5. CASE publishNext
  BY <1>1, <1>5, publishNextKeeps
<1>6. CASE publishFails
  BY <1>1, <1>6, publishFailsKeeps
<1>7. CASE saveCheckpoint \/ saveCheckpointFails
  BY <1>1, <1>7, saveCheckpointKeeps
<1>8. CASE WindowExpires
  BY <1>1, <1>8, WindowKeeps
<1>9. CASE Handle
  BY <1>1, <1>9, HandleKeeps
<1>10. CASE HandleFails
  BY <1>1, <1>10, HandleFailsKeeps
<1>11. CASE Crash
  BY <1>1, <1>11, CrashStepKeeps
<1>12. CASE Open
  BY <1>1, <1>12, OpenStepKeeps
<1>13. CASE UNCHANGED vars
  <2>1. UNCHANGED <<esVars, relayVars, saved, busVars, readVars, dead, errVars>>
    BY <1>13 DEF vars
  <2>2. StoreInv' /\ up' = up /\ kv' = kv /\ global' = global
    BY <1>1, <2>1, StoreKept DEF OutboxInv, esVars
  <2>3. RelayInv'
    BY <1>1, <2>1, <2>2 DEF OutboxInv, RelayInv, relayVars, busVars
  <2>4. BusInv'
    BY <1>1, <2>1 DEF OutboxInv, BusInv, busVars
  <2>5. ReadInv'
    BY <1>1, <2>1 DEF OutboxInv, ReadInv, AppliedOnceInOrder, busVars, readVars, errVars
  <2>6. Types'
    BY <1>1, <2>1 DEF OutboxInv, Types, relayVars, busVars, readVars, errVars
  <2>7. QED
    BY <2>2, <2>3, <2>4, <2>5, <2>6 DEF OutboxInv
<1>14. QED
  BY <1>1, <1>2, <1>3, <1>4, <1>5, <1>6, <1>7, <1>8, <1>9, <1>10, <1>11, <1>12, <1>13 DEF Next

\* The inductive invariant holds in every state: what the store, the relay, the
\* stream and the read model may rely on of each other.
THEOREM OutboxInvariant == Spec => []OutboxInv
<1>1. Init => OutboxInv
  BY InitHolds
<1>2. OutboxInv /\ [Next]_vars => OutboxInv'
  BY NextHolds
<1>3. QED
  BY <1>1, <1>2, PTL DEF Spec

\* Every variable of the event store, the relay, the bus and the read model has
\* its type; a message is delivered at most once more than MaxDeliver for each
\* acknowledgement that was lost.
THEOREM OutboxTypeCorrect == Spec => []TypeOK
<1>1. OutboxInv => TypeOK
  <2>1. SUFFICES ASSUME OutboxInv
                 PROVE  TypeOK
    OBVIOUS
  <2>2. deliveries \in 0..(MaxDeliver + MaxErrors)
    <3>1. PICK d \in Nat, x \in Nat, y \in Nat, k \in Nat :
            d = deliveries /\ x = errors /\ y = MaxErrors /\ k = MaxDeliver
      BY <2>1, Constants DEF OutboxInv, Types
    <3>2. d <= k + x /\ x <= y
      BY <2>1, <3>1 DEF OutboxInv, Types
    <3>3. d \in 0..(k + y)
      BY <3>2
    <3>4. QED
      BY <3>1, <3>3
  <2>3. errors \in Nat
    BY <2>1, Constants DEF OutboxInv, Types
  <2>4. EsTypeOK
    BY <2>1 DEF OutboxInv, StoreInv
  <2>5. QED
    BY <2>1, <2>2, <2>3, <2>4 DEF OutboxInv, Types, TypeOK
<1>2. QED
  BY <1>1, OutboxInvariant, PTL

\* What Append has returned stays: its record is in the database under the
\* number Append gave it, and whenever the store is open, after any number of
\* crashes, of Puts that fail behind a durable record and of Appends over such a
\* record, the index has it at its stream position.
THEOREM AckedStay == Spec => []AckedForever
<1>1. OutboxInv => AckedForever
  BY StoreAnswers DEF OutboxInv
<1>2. QED
  BY <1>1, OutboxInvariant, PTL

\* Consume gives every event to apply at most once and in the order of the
\* global numbers, with the stream's duplicates and redeliveries.
THEOREM AppliedInOrder == Spec => []AppliedOnceInOrder
<1>1. OutboxInv => AppliedOnceInOrder
  BY DEF OutboxInv, ReadInv
<1>2. QED
  BY <1>1, OutboxInvariant, PTL

-----------------------------------------------------------------------------
(* Which event it is.  The above goes by numbers; as long as no Put has    *)
(* failed behind a durable record no number is given twice, and the events *)
(* on their way are those of the database.                                 *)

\* The messages of M are events of the database.
Genuine(M) == \A i \in 1..Len(M) : M[i] \in Recorded

\* The place of the next batch is free.
Free == up /\ pending = NoBatch => \A h \in Global : kv[h] # NoBatch => h <= global

RealInv ==
  faults = 0 => Free /\ Genuine(msgs) /\ Genuine(evs) /\ Genuine(applied) /\ dead \subseteq Recorded

SureInv == OutboxInv /\ RealInv

\* The database has one event of a number.
LEMMA RecordedOnce ==
  ASSUME StoreInv, NEW e \in Recorded, NEW f \in Recorded, e.global = f.global
  PROVE  e = f
<1>1. PICK G \in 0..MaxEvents, idx \in [Stream -> Seq(Global)], bs \in Seq(Global) : Found(G, idx, bs)
  BY WholeLog DEF StoreInv, DownInv
<1>2. Log(kv, G, idx, bs) /\ Keys = KeysTo(kv, G)
  BY <1>1, KeysAre DEF Found
<1>3. ASSUME NEW x \in Recorded
      PROVE  \E h \in KeysTo(kv, G) : \E o \in Offsets(kv, h) : x = EventAt(kv, h, o)
  <2>1. PICK T \in SUBSET KeysTo(kv, G) : T = Keys
    BY <1>2
  <2>2. x \in UNION {ToSet(Events(kv[h])) : h \in T}
    BY <1>3, <2>1 DEF Recorded
  <2>3. QED
    BY <1>2, <2>1, <2>2, EventsFrom
<1>4. PICK h \in KeysTo(kv, G) : \E o \in Offsets(kv, h) : e = EventAt(kv, h, o)
  BY <1>3
<1>5. PICK o \in Offsets(kv, h) : e = EventAt(kv, h, o)
  BY <1>4
<1>6. PICK k \in KeysTo(kv, G) : \E r \in Offsets(kv, k) : f = EventAt(kv, k, r)
  BY <1>3
<1>7. PICK r \in Offsets(kv, k) : f = EventAt(kv, k, r)
  BY <1>6
<1>8. h + o = k + r
  BY <1>5, <1>7 DEF EventAt
<1>9. h = k /\ o = r
  BY <1>2, <1>8, LogIs
<1>10. QED
  BY <1>5, <1>7, <1>9

\* While no Put fails, no record is written over.
LEMMA PutStays ==
  ASSUME StoreInv, Free, faults = 0, faults' = 0, StoreStep
  PROVE  Free' /\ \A h \in Global : kv[h] # NoBatch => kv'[h] = kv[h]
<1>1. CASE \E s \in Stream, v \in {AnyVersion} \cup 0..MaxEvents, n \in 1..MaxBatch :
             AppendPut(s, v, n)
  <2>1. PICK s \in Stream, v \in {AnyVersion} \cup 0..MaxEvents, n \in 1..MaxBatch :
               AppendPut(s, v, n)
    BY <1>1
  <2>2. /\ Put(s, v, n) /\ pending' = kv'[global + 1]
        /\ UNCHANGED <<up, global, streamIdx, batchStarts, acked, faults, crashes>>
    BY <2>1 DEF AppendPut
  <2>3. up /\ pending = NoBatch /\ faults' \in Nat
    BY <2>2 DEF Put, StoreInv, EsTypeOK
  <2>4. /\ kv'[global + 1] # NoBatch
        /\ \A h \in Global : h <= global => kv'[h] = kv[h]
    <3>1. pending' \in {NoBatch, kv'[global + 1]}
      BY <2>2
    <3>2. UNCHANGED <<up, global, streamIdx, batchStarts, acked, crashes>>
      BY <2>2
    <3>3. QED
      BY <2>2, <2>3, <3>1, <3>2, PutKeeps
  <2>5. \A h \in Global : kv[h] # NoBatch => h <= global
    BY <2>3 DEF Free
  <2>6. pending' # NoBatch
    BY <2>2, <2>4
  <2>7. QED
    BY <2>4, <2>5, <2>6 DEF Free
<1>2. CASE AppendReturns
  <2>1. kv' = kv /\ up' = up /\ up /\ global + 1 <= global'
    BY <1>2, ReturnKeeps DEF AppendReturns
  <2>2. global \in Nat /\ global' \in Nat /\ \A h \in Global : kv[h] # NoBatch => h <= global + 1
    <3>1. UpInv /\ global \in Nat
      BY <2>1, UpIs
    <3>2. StoreInv'
      BY <1>2, ReturnKeeps
    <3>3. global' \in Nat
      BY <3>2, EventStoreAssumption DEF StoreInv, EsTypeOK
    <3>4. QED
      BY <3>1, <3>3 DEF UpInv
  <2>3. \A h \in Global : kv[h] # NoBatch => h <= global'
    BY <2>1, <2>2, EventStoreAssumption DEF Global
  <2>4. QED
    BY <2>1, <2>3 DEF Free
<1>3. ASSUME NEW s \in Stream, NEW v \in {AnyVersion} \cup 0..MaxEvents, NEW n \in 1..MaxBatch,
             AppendPutFails(s, v, n)
      PROVE  FALSE
  <2>1. faults' = faults + 1
    BY <1>3 DEF AppendPutFails
  <2>2. QED
    BY <2>1
<1>4. QED
  BY <1>1, <1>2, <1>3 DEF StoreStep

LEMMA StoreStays ==
  ASSUME SureInv, [Next]_vars, faults' = 0
  PROVE  /\ faults = 0 /\ Free'
         /\ \A h \in Global : kv[h] # NoBatch => kv'[h] = kv[h]
<1>1. StoreInv /\ faults \in Nat
  BY DEF SureInv, OutboxInv, StoreInv, EsTypeOK
<1>2. CASE StoreStep
  <2>1. faults = 0
    BY <1>1, <1>2 DEF StoreStep, AppendPut, AppendPutFails, AppendReturns, counters
  <2>2. Free
    BY <2>1 DEF SureInv, RealInv
  <2>3. QED
    BY <1>1, <1>2, <2>1, <2>2, PutStays
<1>3. CASE UNCHANGED esVars
  <2>1. faults' = faults /\ kv' = kv /\ up' = up /\ pending' = pending /\ global' = global
    BY <1>3 DEF esVars
  <2>2. QED
    BY <2>1 DEF SureInv, RealInv, Free
<1>4. CASE EsCrash
  BY <1>4 DEF EsCrash, Free
<1>5. CASE EsOpen
  <2>1. ~up /\ kv' = kv /\ faults' = faults
    BY <1>5 DEF EsOpen, counters
  <2>2. PICK G \in 0..MaxEvents, idx \in [Stream -> Seq(Global)], bs \in Seq(Global) : Found(G, idx, bs)
    BY <1>1, <2>1 DEF StoreInv, DownInv
  <2>3. global' = G
    BY <1>5, <2>2, OpenFinds
  <2>4. QED
    BY <2>1, <2>2, <2>3 DEF Found, Free
<1>6. QED
  BY <1>2, <1>3, <1>4, <1>5 DEF Next, ReadStart, ReadScan, publishNext, publishFails, saveCheckpoint,
     saveCheckpointFails, WindowExpires, Handle, HandleFails, Crash, Open, vars

\* What is in the database then stays there.
LEMMA RecordsStay ==
  ASSUME SureInv, [Next]_vars, faults' = 0
  PROVE  Recorded \subseteq Recorded'
<1>1. \A h \in Global : kv[h] # NoBatch => kv'[h] = kv[h]
  BY StoreStays
<1>2. Keys \subseteq Keys' /\ \A h \in Keys : kv'[h] = kv[h]
  BY <1>1 DEF Keys
<1>3. QED
  BY <1>2 DEF Recorded

\* Genuine messages stay so, and so does the queue of them when one is added.
LEMMA GenuineStill ==
  ASSUME NEW M \in Seq(Event), NEW R, NEW S, R \subseteq S, \A i \in 1..Len(M) : M[i] \in R
  PROVE  /\ \A i \in 1..Len(M) : M[i] \in S
         /\ \A e \in Event : e \in S => \A i \in 1..Len(Append(M, e)) : Append(M, e)[i] \in S
         /\ M # <<>> => Head(M) \in S /\ \A i \in 1..Len(Tail(M)) : Tail(M)[i] \in S
<1>1. ASSUME NEW e \in Event, e \in S
      PROVE  \A i \in 1..Len(Append(M, e)) : Append(M, e)[i] \in S
  <2>1. PICK N : N = Append(M, e)
    OBVIOUS
  <2>2. /\ Len(N) = Len(M) + 1 /\ Len(M) \in Nat /\ N[Len(M) + 1] = e
        /\ \A i \in 1..Len(M) : N[i] = M[i]
    BY <1>1, <2>1, AppendIs
  <2>3. \A i \in 1..Len(N) : i \in 1..Len(M) \/ i = Len(M) + 1
    BY <2>2
  <2>4. QED
    BY <1>1, <2>1, <2>2, <2>3
<1>2. ASSUME M # <<>>
      PROVE  Head(M) \in S /\ \A i \in 1..Len(Tail(M)) : Tail(M)[i] \in S
  <2>1. /\ Len(Tail(M)) = Len(M) - 1 /\ Len(M) \in Nat \ {0} /\ Head(M) = M[1]
        /\ \A i \in 1..Len(Tail(M)) : Tail(M)[i] = M[i + 1]
    BY <1>2, HeadTailProperties, EmptySeq, LenProperties
  <2>2. \A i \in 1..(Len(M) - 1) : i + 1 \in 1..Len(M)
    BY <2>1
  <2>3. QED
    BY <2>1, <2>2
<1>3. QED
  BY <1>1, <1>2

\* Every step of the relay and the read model passes on events of the database.
LEMMA RealStays == SureInv /\ [Next]_vars => RealInv'
<1>1. SUFFICES ASSUME SureInv, [Next]_vars, faults' = 0
               PROVE  /\ Genuine(msgs)' /\ Genuine(evs)' /\ Genuine(applied)'
                      /\ (dead \subseteq Recorded)'
  BY StoreStays DEF RealInv
<1>2. PICK R, S : R = Recorded /\ S = Recorded' /\ R \subseteq S
  BY <1>1, RecordsStay
<1>3. /\ \A i \in 1..Len(msgs) : msgs[i] \in R
      /\ \A i \in 1..Len(evs) : evs[i] \in R
      /\ \A i \in 1..Len(applied) : applied[i] \in R
      /\ dead \subseteq R
  <2>1. faults = 0
    BY <1>1, StoreStays
  <2>2. QED
    BY <1>1, <1>2, <2>1 DEF SureInv, RealInv, Genuine
<1>4. /\ msgs \in Seq(Event) /\ evs \in Seq(Event) /\ applied \in Seq(Event)
      /\ pos \in 1..(Len(msgs) + 1) /\ Len(msgs) \in Nat
  BY <1>1, LenProperties DEF SureInv, OutboxInv, Types
<1>5. /\ \A i \in 1..Len(msgs) : msgs[i] \in S
      /\ \A i \in 1..Len(evs) : evs[i] \in S
      /\ \A i \in 1..Len(applied) : applied[i] \in S
      /\ dead \subseteq S
  BY <1>2, <1>3
<1>6. ASSUME UNCHANGED <<evs, msgs, applied, dead>>
      PROVE  Genuine(msgs)' /\ Genuine(evs)' /\ Genuine(applied)' /\ (dead \subseteq Recorded)'
  BY <1>2, <1>5, <1>6 DEF Genuine
<1>7. CASE ReadScan
  <2>1. PICK q : q = ScanFrom(start, checkpoint + 1, batch)
    OBVIOUS
  <2>2. UNCHANGED <<msgs, applied, dead>> /\ evs' \in {evs, q} /\ up /\ relay = "scan"
    BY <1>7, <2>1 DEF ReadScan, busVars, readVars
  <2>3. \A i \in 1..Len(q) : q[i] \in R
    <3>1. PICK c \in 0..MaxEvents, b \in Nat, l \in Nat \ {0} :
            c = checkpoint /\ b = start /\ l = batch
      BY <1>1, Constants DEF SureInv, OutboxInv, Types
    <3>2. Scans(kv, global, b, c) /\ StoreInv
      BY <1>1, <2>2, <3>1 DEF SureInv, OutboxInv, RelayInv
    <3>3. q = ScanFrom(b, c + 1, l)
      BY <2>1, <3>1
    <3>4. QED
      BY <1>2, <2>2, <3>2, <3>3, ScanIs
  <2>4. \A i \in 1..Len(evs') : evs'[i] \in S
    BY <1>2, <1>5, <2>2, <2>3
  <2>5. QED
    BY <1>2, <1>5, <2>2, <2>4 DEF Genuine
<1>8. CASE publishNext \/ publishFails
  <2>1. relay = "publish" /\ UNCHANGED <<applied, dead>>
    BY <1>8 DEF publishNext, publishFails, readVars
  <2>2. evs # <<>> /\ Head(evs) \in Event
    <3>1. Ready(msgs, evs, last)
      BY <1>1, <2>1 DEF SureInv, OutboxInv, RelayInv
    <3>2. QED
      BY <1>4, <3>1, NextIs DEF Ready
  <2>3. msgs' = msgs \/ msgs' = Append(msgs, Head(evs))
    BY <1>8 DEF publishNext, publishFails, Store, busVars
  <2>4. evs' = Tail(evs) \/ evs' = <<>>
    BY <1>8 DEF publishNext, publishFails
  <2>5. Head(evs) \in S /\ \A i \in 1..Len(Tail(evs)) : Tail(evs)[i] \in S
    BY <1>2, <1>3, <1>4, <2>2, GenuineStill
  <2>6. \A i \in 1..Len(msgs') : msgs'[i] \in S
    <3>1. \A i \in 1..Len(Append(msgs, Head(evs))) : Append(msgs, Head(evs))[i] \in S
      BY <1>2, <1>3, <1>4, <2>2, <2>5, GenuineStill
    <3>2. QED
      BY <1>5, <2>3, <3>1
  <2>7. \A i \in 1..Len(evs') : evs'[i] \in S
    <3>1. \A i \in 1..Len(<<>>) : FALSE
      BY EmptySeq
    <3>2. QED
      BY <2>4, <2>5, <3>1
  <2>8. QED
    BY <1>2, <1>5, <2>1, <2>6, <2>7 DEF Genuine
<1>9. CASE Handle \/ HandleFails
  <2>1. pos \in 1..Len(msgs) /\ UNCHANGED <<evs, msgs>>
    BY <1>4, <1>9 DEF Handle, HandleFails, relayVars, busVars
  <2>2. msgs[pos] \in Event /\ msgs[pos] \in S
    BY <1>4, <1>5, <2>1, ElementIs
  <2>3. applied' = applied \/ applied' = Append(applied, msgs[pos])
    BY <1>9 DEF Handle, HandleFails
  <2>4. dead' = dead \/ dead' = dead \cup {msgs[pos]}
    BY <1>9 DEF Handle, HandleFails, GiveUp
  <2>5. \A i \in 1..Len(applied') : applied'[i] \in S
    <3>1. \A i \in 1..Len(Append(applied, msgs[pos])) : Append(applied, msgs[pos])[i] \in S
      BY <1>2, <1>3, <1>4, <2>2, GenuineStill
    <3>2. QED
      BY <1>5, <2>3, <3>1
  <2>6. dead' \subseteq S
    BY <1>5, <2>2, <2>4
  <2>7. QED
    BY <1>2, <1>5, <2>1, <2>5, <2>6 DEF Genuine
<1>10. CASE Crash
  <2>1. evs' = <<>> /\ applied' = <<>> /\ UNCHANGED <<msgs, dead>>
    BY <1>10 DEF Crash, busVars
  <2>2. Len(<<>>) = 0
    BY EmptySeq
  <2>3. QED
    BY <1>2, <1>5, <2>1, <2>2 DEF Genuine
<1>11. ASSUME ~ReadScan, ~publishNext, ~publishFails, ~Handle, ~HandleFails, ~Crash
       PROVE  UNCHANGED <<evs, msgs, applied, dead>>
  BY <1>1, <1>11 DEF Next, StoreStep, ReadStart, saveCheckpoint, saveCheckpointFails, WindowExpires, Open,
     relayVars, busVars, readVars, vars
<1>12. QED
  BY <1>6, <1>7, <1>8, <1>9, <1>10, <1>11

LEMMA Sure == Spec => []SureInv
<1>1. Init => SureInv
  <2>1. SUFFICES ASSUME Init PROVE SureInv
    OBVIOUS
  <2>2. msgs = <<>> /\ evs = <<>> /\ applied = <<>> /\ dead = {} /\ Len(<<>>) = 0
    BY <2>1, EmptySeq DEF Init
  <2>3. Free
    BY <2>1 DEF Init, EsInit, Free
  <2>4. QED
    BY <2>1, <2>2, <2>3, InitHolds DEF SureInv, RealInv, Genuine
<1>2. SureInv /\ [Next]_vars => SureInv'
  BY NextHolds, RealStays DEF SureInv
<1>3. QED
  BY <1>1, <1>2, PTL DEF Spec

\* The checkpoint on disk passes no acknowledged event that is not in the stream,
\* that very event, with no Put failed behind a durable record: the relay may start
\* again from it after any failure or crash.
THEOREM CheckpointSkipsNothing == Spec => []NeverSkipped
<1>1. ASSUME SureInv, faults = 0, NEW e \in acked, e.global <= saved
      PROVE  e \in ToSet(msgs)
  <2>1. e \in Recorded /\ e.global \in Nat \ {0} /\ StoreInv /\ Genuine(msgs)
    <3>1. StoreInv /\ e \in Event
      BY <1>1 DEF SureInv, OutboxInv, StoreInv, EsTypeOK
    <3>2. QED
      BY <1>1, <3>1, StoreAnswers, EventIs DEF AckedForever, SureInv, RealInv
  <2>2. saved \in Nat /\ Published(msgs, saved)
    BY <1>1, Constants DEF SureInv, OutboxInv, Types, RelayInv
  <2>3. e.global \in 1..saved
    BY <1>1, <2>1, <2>2
  <2>4. PICK j \in 1..Len(msgs) : msgs[j].global = e.global
    BY <2>2, <2>3 DEF Published, Holds
  <2>5. msgs[j] = e
    BY <2>1, <2>4, RecordedOnce DEF Genuine
  <2>6. msgs \in Seq(Event)
    BY <1>1 DEF SureInv, OutboxInv, Types
  <2>7. QED
    BY <2>5, <2>6, LenProperties DEF ToSet
<1>2. SureInv => NeverSkipped
  BY <1>1 DEF NeverSkipped, NothingSkipped
<1>3. QED
  BY <1>2, Sure, PTL

\* A message the consumer is past has been applied, that very event, or is in the
\* DLQ, with no Put failed behind a durable record and no publish to the DLQ failed:
\* the comparison with lastApplied takes nothing for a duplicate that is none.
THEOREM NothingDropped == Spec => []NeverDropped
<1>1. ASSUME SureInv, dlqErrs = 0, faults = 0, NEW i \in 1..(pos - 1)
      PROVE  msgs[i] \in ToSet(applied) \cup dead
  <2>1. Done(applied, dead, msgs[i].global)
    BY <1>1 DEF SureInv, OutboxInv, ReadInv, Seen
  <2>2. StoreInv /\ Genuine(msgs) /\ Genuine(applied) /\ dead \subseteq Recorded
    BY <1>1 DEF SureInv, OutboxInv, RealInv
  <2>3. msgs[i] \in Recorded
    <3>1. pos \in 1..(Len(msgs) + 1) /\ Len(msgs) \in Nat
      BY <1>1, LenProperties DEF SureInv, OutboxInv, Types
    <3>2. i \in 1..Len(msgs)
      BY <3>1
    <3>3. QED
      BY <2>2, <3>2 DEF Genuine
  <2>4. CASE Holds(applied, msgs[i].global)
    <3>1. PICK j \in 1..Len(applied) : applied[j].global = msgs[i].global
      BY <2>4 DEF Holds
    <3>2. applied[j] = msgs[i]
      BY <2>2, <2>3, <3>1, RecordedOnce DEF Genuine
    <3>3. applied \in Seq(Event)
      BY <1>1 DEF SureInv, OutboxInv, Types
    <3>4. QED
      BY <3>2, <3>3, LenProperties DEF ToSet
  <2>5. CASE \E e \in dead : e.global = msgs[i].global
    BY <2>2, <2>3, <2>5, RecordedOnce
  <2>6. QED
    BY <2>1, <2>4, <2>5 DEF Done
<1>2. SureInv => NeverDropped
  BY <1>1 DEF NeverDropped, MovedToDlq
<1>3. QED
  BY <1>2, Sure, PTL
=============================================================================
