------------------------------ MODULE MCWorld -------------------------------
(***************************************************************************)
(* The regions, and the raft group of a shard that says whether its        *)
(* regions are up, for TLC.  World.tla lets a shard go down and up at any  *)
(* moment, which is all Shard.tla can do to it: a behaviour is one of      *)
(* either module.  Players are interchangeable, and so are the regions     *)
(* other than the one players spawn in.                                    *)
(***************************************************************************)
EXTENDS World, Shard, TLC

VARIABLE view

MCInit ==
  /\ view \in {"regions", "group"}
  /\ Init /\ ShardInit

MCNext ==
  /\ UNCHANGED view
  /\ \/ view = "regions" /\ Next /\ UNCHANGED shardVars
     \/ view = "group" /\ ShardNext /\ UNCHANGED vars

MCSpec == MCInit /\ [][MCNext]_<<view, vars, shardVars>>

Symmetry == {f @@ g : f \in Permutations(Player), g \in Permutations(Region \ {Spawn})}
=============================================================================
