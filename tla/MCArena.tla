------------------------------ MODULE MCArena -------------------------------
(***************************************************************************)
(* An arena for TLC, seen from three sides that share no state in the      *)
(* program either: the process with its match (a duel), the ring buffer    *)
(* that holds its commands, and the operator and the saga that start and   *)
(* remove it.  A behaviour is one of a single side.                        *)
(***************************************************************************)
EXTENDS Arena, RingBuf, Operator, TLC

CONSTANTS anna, bora

VARIABLE side

MCTeam == anna :> 0 @@ bora :> 1

MCInit ==
  /\ side \in {"process", "ring", "cluster"}
  /\ ArenaInit /\ RingInit /\ OpInit

MCNext ==
  /\ UNCHANGED side
  /\ \/ side = "process" /\ ArenaNext /\ UNCHANGED <<ringVars, opVars>>
     \/ side = "ring" /\ RingNext /\ UNCHANGED <<arenaVars, opVars>>
     \/ side = "cluster" /\ OpNext /\ UNCHANGED <<arenaVars, ringVars>>

\* The goroutines of the process are scheduled; players come and go as they like.
ProcessFairness ==
  /\ WF_arenaVars(side = "process" /\ Loop)
  /\ WF_arenaVars(side = "process" /\ Main)
  /\ \A p \in Player : WF_arenaVars(side = "process" /\ Handler(p))

\* Turns are requeued until they have nothing to do, watches deliver, time passes,
\* and the kubelet and the garbage collector do their work.  A Pod need not start
\* or end by itself, and the server may stop.
ClusterFairness ==
  /\ WF_opVars(side = "cluster" /\ Reconcile)
  /\ WF_opVars(side = "cluster" /\ SeeRec) /\ WF_opVars(side = "cluster" /\ SeePod)
  /\ WF_opVars(side = "cluster" /\ PodGone) /\ WF_opVars(side = "cluster" /\ CollectGarbage)
  /\ WF_opVars(side = "cluster" /\ TimePasses)

MCSpec == MCInit /\ [][MCNext]_<<side, arenaVars, ringVars, opVars>>
          /\ ProcessFairness /\ ClusterFairness

\* The process of an arena ends with its match, as EndsUnlessHeld says.
ArenaEnds == side = "process" => EndsUnlessHeld

\* "When the match is over the process exits with 0" (package comment of cmd/arena), if
\* it does not panic first.
\* The code does not keep it: README, section 3.
ExitsWithTheMatch == result ~> main \in {"exited", "panicked"}
=============================================================================
