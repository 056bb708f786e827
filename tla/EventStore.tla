----------------------------- MODULE EventStore -----------------------------
(***************************************************************************)
(* pkg/es: the event store over the LSM engine.                            *)
(*                                                                         *)
(* One Append is one batch record under the key of its first global        *)
(* number.  The index (stream -> globals, batch starts, last global) lives *)
(* in memory and is rebuilt by Open.  Append holds Store.mu throughout,    *)
(* but readers scan the database without it, so the Put and the index      *)
(* update are two steps.  The engine is a map from keys to batches; its    *)
(* own behaviour is Storage.tla, from which one thing is taken over: a Put *)
(* whose flush fails returns an error although the record is in the WAL    *)
(* and in the memtable.                                                    *)
(*                                                                         *)
(* An event stands for the call that wrote it (tag); type, payload and     *)
(* time stamp are left out.                                                *)
(***************************************************************************)
EXTENDS Integers, Sequences, FiniteSets, SequencesExt

CONSTANTS Stream,     \* stream names
          AnyVersion, \* no optimistic concurrency check
          NoBatch,    \* no record under this key; no Append in progress
          MaxEvents,  \* bound on global numbers
          MaxBatch,   \* bound on the events of one Append
          MaxCalls,   \* bound on Append calls
          MaxFaults,  \* bound on Puts that fail after taking effect
          MaxCrashes  \* bound on crashes of the process

ASSUME EventStoreAssumption ==
  /\ MaxEvents \in Nat /\ MaxBatch \in Nat \ {0} /\ MaxCalls \in Nat
  /\ MaxFaults \in Nat /\ MaxCrashes \in Nat
  /\ AnyVersion \notin Nat

VARIABLES
  kv,          \* kv[g]: the batch under gkey(g)
  up,          \* the process runs and the store is open
  global,      \* Store.global
  streamIdx,   \* Store.streamIdx; its lengths are Store.versions
  batchStarts, \* Store.batchStarts
  pending,     \* the batch an Append has Put and not yet indexed
  acked,       \* history: the events Append has returned to its callers
  tags, faults, crashes

esVars == <<kv, up, global, streamIdx, batchStarts, pending, acked, tags, faults, crashes>>
counters == <<tags, faults, crashes>>

Global == 1..MaxEvents
Batch == [stream : Stream, firstSeq : Global, firstGlobal : Global,
          len : 1..MaxBatch, tag : Nat]
ASSUME NoBatchAssumption == NoBatch \notin Batch

Event == [global : Global, stream : Stream, seq : Global, tag : Nat]

EsTypeOK ==
  /\ kv \in [Global -> Batch \cup {NoBatch}]
  /\ up \in BOOLEAN
  /\ global \in 0..MaxEvents
  /\ streamIdx \in [Stream -> Seq(Global)]
  /\ batchStarts \in Seq(Global)
  /\ pending \in Batch \cup {NoBatch}
  /\ acked \subseteq Event
  /\ tags \in Nat /\ faults \in Nat /\ crashes \in Nat

Version(s) == Len(streamIdx[s])

\* The events of batch b, in order.
Events(b) ==
  [i \in 1..b.len |-> [global |-> b.firstGlobal + i - 1, stream |-> b.stream,
                       seq |-> b.firstSeq + i - 1, tag |-> b.tag]]

Keys == {g \in Global : kv[g] # NoBatch}
Recorded == UNION {ToSet(Events(kv[g])) : g \in Keys}

\* The numbers of S, ascending.
Sorted(S) ==
  [i \in 1..Cardinality(S) |-> CHOOSE x \in S : Cardinality({y \in S : y < x}) = i - 1]

\* The events of E in the order of their numbers, of which each has its own.
ByNumber(E) ==
  LET numbers == Sorted({e.global : e \in E})
  IN  [i \in DOMAIN numbers |-> CHOOSE e \in E : e.global = numbers[i]]

EsInit ==
  /\ kv = [g \in Global |-> NoBatch]
  /\ up = TRUE /\ global = 0
  /\ streamIdx = [s \in Stream |-> <<>>]
  /\ batchStarts = <<>>
  /\ pending = NoBatch
  /\ acked = {} /\ tags = 0 /\ faults = 0 /\ crashes = 0

-----------------------------------------------------------------------------
(* Append. *)

\* The call gets to its Put.  With another version than the expected one it
\* returns ErrVersionConflict instead and changes nothing.
Put(s, expected, n) ==
  /\ up /\ pending = NoBatch
  /\ expected \in {AnyVersion, Version(s)}
  /\ tags < MaxCalls /\ global + n <= MaxEvents
  /\ tags' = tags + 1
  /\ kv' = [kv EXCEPT ![global + 1] =
              [stream |-> s, firstSeq |-> Version(s) + 1,
               firstGlobal |-> global + 1, len |-> n, tag |-> tags']]

\* Put has returned without an error.
AppendPut(s, expected, n) ==
  /\ Put(s, expected, n)
  /\ pending' = kv'[global + 1]
  /\ UNCHANGED <<up, global, streamIdx, batchStarts, acked, faults, crashes>>

\* Put has returned an error and the record is there all the same (the flush
\* behind it failed): Append returns, the index is left as it was.  A Put
\* that fails without any effect changes nothing and is no step.
AppendPutFails(s, expected, n) ==
  /\ faults < MaxFaults
  /\ Put(s, expected, n)
  /\ faults' = faults + 1
  /\ UNCHANGED <<up, global, streamIdx, batchStarts, pending, acked, crashes>>

\* Mutant: every batch is counted as one event.
MutAppendReturns ==
  /\ up /\ pending # NoBatch
  /\ batchStarts' = Append(batchStarts, pending.firstGlobal)
  /\ global' = global + 1
  /\ streamIdx' = [streamIdx EXCEPT ![pending.stream] = Append(@, global + 1)]
  /\ acked' = acked \cup ToSet(Events(pending))
  /\ pending' = NoBatch
  /\ UNCHANGED <<kv, up, counters>>

\* The index is updated and the call returns the events.
AppendReturns ==
  /\ up /\ pending # NoBatch
  /\ batchStarts' = Append(batchStarts, pending.firstGlobal)
  /\ global' = global + pending.len
  /\ streamIdx' = [streamIdx EXCEPT ![pending.stream] =
                     @ \o [i \in 1..pending.len |-> global + i]]
  /\ acked' = acked \cup ToSet(Events(pending))
  /\ pending' = NoBatch
  /\ UNCHANGED <<kv, up, counters>>

-----------------------------------------------------------------------------
(* Reading. *)

\* The batch that holds global g; the last one when g is beyond the end.
batchStartFor(g) ==
  LET S == {h \in ToSet(batchStarts) : h <= g}
  IN  IF batchStarts = <<>> THEN 0
      ELSE IF S = {} THEN batchStarts[1] ELSE Max(S)

\* Mutant: a batch that begins before from is not looked at.
MutScanFrom(start, from, limit) ==
  LET all == ByNumber(UNION {ToSet(Events(kv[h])) : h \in {k \in Keys : k >= start /\ k >= from}})
  IN  SubSeq(all, 1, Min({limit, Len(all)}))

\* The scan of ReadAll: everything under the keys from start on, from the
\* event numbered from, cut at limit.
ScanFrom(start, from, limit) ==
  LET found == {e \in UNION {ToSet(Events(kv[h])) : h \in {k \in Keys : k >= start}} :
                  e.global >= from}
      all == ByNumber(found)
  IN  SubSeq(all, 1, Min({limit, Len(all)}))

\* ReadStream from the beginning; the code numbers the events itself.
ReadStream(s) ==
  [i \in 1..Version(s) |->
     LET g == streamIdx[s][i]
         b == kv[batchStartFor(g)]
     IN  [batch |-> b, off |-> g - b.firstGlobal, seq |-> i]]

-----------------------------------------------------------------------------
(* Crash and Open. *)

\* The memory of the store is gone.
EsCrash ==
  /\ up /\ crashes < MaxCrashes
  /\ up' = FALSE
  /\ crashes' = crashes + 1
  /\ global' = 0 /\ streamIdx' = [s \in Stream |-> <<>>] /\ batchStarts' = <<>>
  /\ pending' = NoBatch
  /\ UNCHANGED <<kv, acked, tags, faults>>

\* The check Open makes of the batch under key g: it continues the numbering
\* of the batches before it.
Fits(g) ==
  LET before == UNION {ToSet(Events(kv[h])) : h \in {k \in Keys : k < g}}
  IN  /\ kv[g].firstGlobal = Cardinality(before) + 1
      /\ kv[g].firstSeq = Cardinality({e \in before : e.stream = kv[g].stream}) + 1

\* The scan stops at the first batch that does not fit.  Its error is lost
\* (Scan itself returns nil), so Open succeeds with what it has.
Scanned == {g \in Keys : \A h \in Keys : h <= g => Fits(h)}

EsOpen ==
  LET found == UNION {ToSet(Events(kv[g])) : g \in Scanned}
  IN  /\ ~up
      /\ up' = TRUE
      /\ global' = Cardinality(found)
      /\ streamIdx' = [s \in Stream |->
                         Sorted({e.global : e \in {f \in found : f.stream = s}})]
      /\ batchStarts' = Sorted(Scanned)
      /\ UNCHANGED <<kv, pending, acked, counters>>

-----------------------------------------------------------------------------
(* Properties. *)

\* What Append has returned stays in the log under its number and its stream
\* position for ever, and Open finds all of it again.
AckedForever ==
  /\ acked \subseteq Recorded
  /\ up => \A e \in acked : e.global <= global /\ streamIdx[e.stream][e.seq] = e.global
=============================================================================
