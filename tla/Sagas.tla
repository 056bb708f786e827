------------------------------- MODULE Sagas --------------------------------
(***************************************************************************)
(* The two styles of saga that services/trade offers, on the same          *)
(* inventories: a deployment runs the Orchestrator or the Choreographer.   *)
(***************************************************************************)
EXTENDS Trade

CONSTANTS Proposed,   \* Proposed[t]: what choreographed trade t proposes
          MaxAnswers  \* bound on Accept, Reject and Expire per choreographed trade

ASSUME ProposedAssumption ==
  Proposed \in [TradeID -> Offers] /\ MaxAnswers \in Nat

VARIABLES style,                     \* the deployment
          log, checkpoint, handler   \* of the Choreographer

orchVars == <<call, stream, tradeSeq>>
choreoVars == <<log, checkpoint, handler>>
sagaVars == <<vars, style, choreoVars>>

Choreo == INSTANCE Choreography WITH Offers <- Proposed

SagaInit ==
  /\ style \in {"orchestrator", "choreographer"}
  /\ Init /\ Choreo!Init

SagaNext ==
  /\ UNCHANGED style
  /\ \/ style = "orchestrator" /\ Next /\ UNCHANGED choreoVars
     \/ style = "choreographer" /\ Choreo!Next /\ UNCHANGED orchVars

\* The goroutine of Project is scheduled.
SagaSpec == SagaInit /\ [][SagaNext]_sagaVars
            /\ WF_sagaVars(style = "choreographer" /\ Choreo!Work
                           /\ UNCHANGED <<style, orchVars>>)

\* A choreographed trade happens completely or not at all.
ChoreographyAllOrNothing == Choreo!AllOrNothing

\* A replay of the whole log applies no step of a choreographed trade twice.
\* The code does not keep it: README, section 3.
ChoreographySafeToReplay == Choreo!SafeToReplay

\* A choreographed trade that was answered gets its verdict.
EventuallyDecided == Choreo!EventuallyDecided
=============================================================================
