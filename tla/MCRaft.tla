------------------------------- MODULE MCRaft -------------------------------
(***************************************************************************)
(* Raft.tla for TLC: interchangeable servers, and a view that forgets the  *)
(* fields no guard, handler or property reads any more.                    *)
(***************************************************************************)
EXTENDS Raft

Perms == Permutations(Server)

\* votes is read while a candidate only, nextIndex and matchIndex while a
\* leader only; startElection and becomeLeaderLocked overwrite them before
\* they are read again.
LiveFields(n) ==
  <<n.state, n.term, n.votedFor, n.log, n.commitIndex,
    IF n.state = "candidate" THEN n.votes ELSE {},
    IF n.state = "leader" THEN <<n.nextIndex, n.matchIndex>> ELSE <<>> >>

\* A vote is only ever granted in the voter's current term, which never
\* regresses, so the ballots of its earlier terms are settled.
LiveBallots == {b \in ballots : b[2] = node[b[1]].term}

View == <<[i \in Server |-> LiveFields(node[i])], disk, calls,
          LiveBallots, elections, committed, restarts>>
=============================================================================
