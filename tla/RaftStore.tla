----------------------------- MODULE RaftStore ------------------------------
(***************************************************************************)
(* pkg/raftstore: raft.Storage kept in the LSM engine, one key per log     *)
(* entry and one for (term, votedFor).                                     *)
(*                                                                         *)
(* persistLocked calls Save with the whole HardState and waits; Save turns *)
(* it into separate writes (delete the surplus tail, put the changed       *)
(* suffix, put the meta record), each one atomic and durable on its own.   *)
(* A crash may fall between any two of them, and so may a failing write:   *)
(* Save returns the error and persistLocked panics.  An entry stands for   *)
(* its term: Raft never writes two entries of one term at one index.       *)
(***************************************************************************)
EXTENDS Integers, Sequences, FiniteSets, SequencesExt

CONSTANTS Candidate,  \* ids votedFor may hold
          Nil,        \* the empty VotedFor
          Absent,     \* no record under this key
          MaxTerm,    \* bound on terms
          MaxLog      \* bound on the length of a log

ASSUME StoreAssumption == /\ MaxTerm \in Nat /\ MaxLog \in Nat
                          /\ Nil \notin Candidate /\ Absent \notin Nat

VARIABLES
  phase,       \* "idle", "saving", "down" (crashed) or "failed" (Load refused)
  meta,     \* the record under "m"
  ents,     \* ents[i]: the record under "e/"+i
  mirror,   \* Store.persisted
  todo,     \* writes the running Save has left
  target,   \* the HardState of the running (or interrupted) Save
  acked     \* the last HardState the node has durably: saved, or loaded

storeVars == <<phase, meta, ents, mirror, todo, target, acked>>

Term == 0..MaxTerm
Index == 1..MaxLog
Log == UNION {[1..n -> 1..MaxTerm] : n \in 0..MaxLog}
Meta == [term : Term, votedFor : Candidate \cup {Nil}]
HardState == [meta : Meta, log : Log]

Write == [key : Index, val : (1..MaxTerm) \cup {Absent}] \cup [meta : Meta]

\* Type invariant: the keys and the in-memory mirror hold well-formed records.
StoreTypeOK ==
  /\ phase \in {"idle", "saving", "down", "failed"}
  /\ meta \in Meta
  /\ ents \in [Index -> (1..MaxTerm) \cup {Absent}]
  /\ mirror \in Log
  /\ todo \in Seq(Write)
  /\ target \in HardState /\ acked \in HardState

ZeroMeta == [term |-> 0, votedFor |-> Nil]
ZeroHardState == [meta |-> ZeroMeta, log |-> <<>>]

StoreInit ==
  /\ phase = "idle"
  /\ meta = ZeroMeta
  /\ ents = [i \in Index |-> Absent]
  /\ mirror = <<>>
  /\ todo = <<>>
  /\ target = ZeroHardState
  /\ acked = ZeroHardState

-----------------------------------------------------------------------------
(* Save. *)

\* The first index (0-based slice index of the code) where the logs differ.
Diff(a, b) ==
  CHOOSE d \in 0..Len(a) :
    /\ d <= Len(b) /\ SubSeq(a, 1, d) = SubSeq(b, 1, d)
    /\ d = Len(a) \/ d = Len(b) \/ a[d + 1] # b[d + 1]

\* for i := len(hs.Log); i < len(s.persisted); i++ { Delete }
Deletes(old, log) ==
  [k \in 1..(IF Len(old) > Len(log) THEN Len(old) - Len(log) ELSE 0) |->
     [key |-> Len(log) + k, val |-> Absent]]

\* for i := diff; i < len(hs.Log); i++ { Put }
Puts(old, log) ==
  LET d == Diff(old, log)
  IN  [k \in 1..(Len(log) - d) |-> [key |-> d + k, val |-> log[d + k]]]

\* Mutant: the whole log is dropped and written anew.
MutRewrite(old, hs) ==
  Deletes(old, <<>>) \o Puts(<<>>, hs.log) \o <<[meta |-> hs.meta]>>

SaveWrites(old, hs) ==
  Deletes(old, hs.log) \o Puts(old, hs.log) \o <<[meta |-> hs.meta]>>

\* The HardStates a raft node goes through: terms grow, a vote is kept within
\* its term, and the log grows or has its tail replaced by a leader's; terms
\* do not decrease along what is new, nor pass the node's.
Follows(hs, new) ==
  /\ new.meta.term >= hs.meta.term
  /\ new.meta.term = hs.meta.term /\ hs.meta.votedFor # Nil
       => new.meta.votedFor = hs.meta.votedFor
  /\ new.log # hs.log => ~IsPrefix(new.log, hs.log)
  /\ \A i \in (Diff(hs.log, new.log) + 1)..Len(new.log) :
       /\ new.log[i] <= new.meta.term
       /\ i > 1 => new.log[i - 1] <= new.log[i]

Save(hs) ==
  /\ phase = "idle"
  /\ Follows(acked, hs)
  /\ phase' = "saving"
  /\ target' = hs
  /\ todo' = SaveWrites(mirror, hs)
  /\ UNCHANGED <<meta, ents, mirror, acked>>

\* One db.Delete or db.Put of the running Save.
WriteNext ==
  /\ phase = "saving" /\ todo # <<>>
  /\ LET w == Head(todo)
     IN  IF "meta" \in DOMAIN w
         THEN meta' = w.meta /\ UNCHANGED ents
         ELSE ents' = [ents EXCEPT ![w.key] = w.val] /\ UNCHANGED meta
  /\ todo' = Tail(todo)
  /\ UNCHANGED <<phase, mirror, target, acked>>

SaveReturns ==
  /\ phase = "saving" /\ todo = <<>>
  /\ phase' = "idle"
  /\ mirror' = target.log
  /\ acked' = target
  /\ UNCHANGED <<meta, ents, todo, target>>

-----------------------------------------------------------------------------
(* Crash, Open and Load. *)

NodeCrash ==
  /\ phase \in {"idle", "saving"}
  /\ phase' = "down"
  /\ mirror' = <<>>
  /\ todo' = <<>>
  /\ UNCHANGED <<meta, ents, target, acked>>

Stored == {i \in Index : ents[i] # Absent}

\* The range scan meets the indexes 1, 2, ... without a hole.
LoadOK == \A i \in Stored : \A j \in 1..i : j \in Stored

LoadedLog == [i \in 1..Cardinality(Stored) |-> ents[i]]

\* Open builds the mirror from Load; NewNode continues from what it returned.
OpenStore ==
  /\ phase = "down"
  /\ IF LoadOK
     THEN /\ phase' = "idle"
          /\ mirror' = LoadedLog
          /\ acked' = [meta |-> meta, log |-> LoadedLog]
          /\ target' = [meta |-> meta, log |-> LoadedLog]
     ELSE phase' = "failed" /\ UNCHANGED <<mirror, acked, target>>
  /\ UNCHANGED <<meta, ents, todo>>

StoreNext ==
  \/ \E hs \in HardState : Save(hs)
  \/ WriteNext
  \/ SaveReturns
  \/ NodeCrash
  \/ OpenStore

StoreSpec == StoreInit /\ [][StoreNext]_storeVars

-----------------------------------------------------------------------------
(* Properties. *)

\* Every entry the old and the new log share stays, hence every committed one.
SharedPrefixKept ==
  \A i \in 1..Diff(acked.log, target.log) : ents[i] = acked.log[i]

\* While entries are only appended, a restart finds the old log and some of the new
\* entries behind it.
AppendIsPrefix ==
  IsPrefix(acked.log, target.log) =>
    /\ LoadOK
    /\ IsPrefix(acked.log, LoadedLog)
    /\ IsPrefix(LoadedLog, target.log)

\* Save may be cut short between any two of its writes, and a restart follows: what
\* the old and the new log share is kept, and a crashed append is harmless.  (Where a
\* tail is replaced a crash is not: new entries may come to lie before old ones, or
\* before a hole that Load refuses.)
CrashedSaveKeepsLog == SharedPrefixKept /\ AppendIsPrefix
=============================================================================
