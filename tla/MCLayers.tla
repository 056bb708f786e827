------------------------------ MODULE MCLayers ------------------------------
(***************************************************************************)
(* Three layers of the system for TLC: the LSM engine (Storage.tla), the   *)
(* store a raft node keeps in it (RaftStore.tla), and the leases that raft *)
(* replicates with the transfers of a player that rely on them             *)
(* (Handoff.tla).  Each takes what is below it for what it promises: a Put *)
(* or Delete is one durable step, as KVStore.tla has it, and the log of    *)
(* commands is the committed one.  A behaviour is one of a single layer.   *)
(* Keys, candidates and transfers are interchangeable.                     *)
(***************************************************************************)
EXTENDS Storage, RaftStore, Handoff, TLC

VARIABLE layer

MCInit ==
  /\ layer \in {"engine", "store", "transfer"}
  /\ Init /\ StoreInit /\ HandoffInit

MCNext ==
  /\ UNCHANGED layer
  /\ \/ layer = "engine" /\ Next /\ UNCHANGED <<storeVars, handoffVars>>
     \/ layer = "store" /\ StoreNext /\ UNCHANGED <<vars, handoffVars>>
     \/ layer = "transfer" /\ HandoffNext /\ UNCHANGED <<vars, storeVars>>

MCSpec == MCInit /\ [][MCNext]_<<layer, vars, storeVars, handoffVars>>

\* Keys, candidates and transfers are two each, and a behaviour is about one kind of
\* them: all are swapped, or none.
Moves(f, S) == \E x \in S : f[x] # x

Perms ==
  {h \in {f @@ g @@ e : f \in Permutations(Key), g \in Permutations(Candidate),
                       e \in Permutations(Owner)} :
     \A S \in {Candidate, Owner} : Moves(h, S) <=> Moves(h, Key)}
=============================================================================
