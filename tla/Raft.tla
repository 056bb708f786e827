-------------------------------- MODULE Raft --------------------------------
(***************************************************************************)
(* The consensus node of pkg/raft (node.go, storage.go, transport.go).     *)
(*                                                                         *)
(* A node keeps all of its state behind one mutex and releases it while an *)
(* RPC is outstanding, so the atomic steps are the critical sections: the  *)
(* start of an election, the sending half of replicateTo, the two handlers *)
(* and, later and separately, the code that runs when a reply comes back.  *)
(* node[i] is the Go struct; disk[i] is what Storage.Save wrote last, the  *)
(* only thing that survives a restart.                                     *)
(*                                                                         *)
(* The Transport is a set of calls in flight.  A call is first a request,  *)
(* then (once the peer's handler has run) a reply, and may fail at any     *)
(* point: calls are lost, delayed and reordered at will.  Two calls with   *)
(* the same content in flight at once count as one.                        *)
(***************************************************************************)
EXTENDS Integers, Sequences, FiniteSets, SequencesExt

CONSTANTS Server,    \* ids of the nodes of one cluster (Config.ID and Config.Peers)
          Cmd,       \* commands a client may propose
          NoOp,      \* the empty Cmd a new leader appends
          Nil,       \* the empty VotedFor
          MaxTerm,   \* bound on the terms an election may open
          MaxLog,    \* bound on the length of a log
          MaxCalls,  \* bound on the RPCs in flight
          MaxRestarts \* bound on the number of restarts

ASSUME ServerAssumption == IsFiniteSet(Server) /\ Server # {}
ASSUME NilAssumption == Nil \notin Server
ASSUME CmdAssumption == NoOp \notin Cmd
ASSUME BoundAssumption == /\ MaxTerm \in Nat /\ MaxLog \in Nat
                          /\ MaxCalls \in Nat /\ MaxRestarts \in Nat

VARIABLES
  node,        \* node[i]: the Node struct of the running incarnation of i
  disk,        \* disk[i]: the HardState Storage holds for i
  voteReq,     \* RequestVote calls the peer's handler has not seen yet
  voteResp,    \* RequestVote replies the caller's goroutine has not read yet
  appendReq,   \* AppendEntries calls the peer's handler has not seen yet
  appendResp,  \* AppendEntries replies the caller's goroutine has not read yet
  \* history, read by the properties and by no guard
  ballots,     \* every vote ever granted, <<voter, term, candidate>>
  elections,   \* every election ever won, <<term, leader>>
  committed,   \* every log prefix a leader has declared committed
  restarts     \* restarts so far, for MaxRestarts

calls == <<voteReq, voteResp, appendReq, appendResp>>
history == <<ballots, elections, committed>>
vars == <<node, disk, calls, history, restarts>>

-----------------------------------------------------------------------------
(* Types. *)

Entry == [term : Nat, cmd : Cmd \cup {NoOp}]

HardState == [term : Nat, votedFor : Server \cup {Nil}, log : Seq(Entry)]

\* votes is the closure variable of the running election: the peers whose
\* grant was counted, the node itself included.
Node == [state : {"follower", "candidate", "leader"},
         term : Nat, votedFor : Server \cup {Nil}, log : Seq(Entry),
         commitIndex : Nat, votes : SUBSET Server,
         nextIndex : [Server -> Nat], matchIndex : [Server -> Nat]]

VoteReq == [caller : Server, peer : Server, term : Nat,
            lastLogIndex : Nat, lastLogTerm : Nat]
VoteResp == [caller : Server, peer : Server, reqTerm : Nat,
             term : Nat, granted : BOOLEAN]
AppendReq == [caller : Server, peer : Server, term : Nat,
              prevLogIndex : Nat, prevLogTerm : Nat,
              entries : Seq(Entry), leaderCommit : Nat]
AppendResp == [caller : Server, peer : Server, reqTerm : Nat,
               lastNew : Nat, term : Nat, success : BOOLEAN]

\* Type invariant: every field of the Go structs has its Go type and every
\* call is well formed.
TypeOK ==
  /\ node \in [Server -> Node]
  /\ disk \in [Server -> HardState]
  /\ voteReq \subseteq VoteReq
  /\ voteResp \subseteq VoteResp
  /\ appendReq \subseteq AppendReq
  /\ appendResp \subseteq AppendResp
  /\ ballots \subseteq Server \X Nat \X Server
  /\ elections \subseteq Nat \X Server
  /\ committed \subseteq Seq(Entry)
  /\ restarts \in Nat

-----------------------------------------------------------------------------
(* Helpers of node.go, on the Node struct n. *)

termAtLocked(log, idx) ==
  IF idx \in 1..Len(log) THEN log[idx].term ELSE 0

\* Mutant: the majority test lets one vote too few through.
MutMajority(S) == 2 * Cardinality(S) + 1 >= Cardinality(Server)

\* count*2 > len(Peers)+1
Majority(S) == 2 * Cardinality(S) > Cardinality(Server)

\* Mutant: the vote is not part of what is saved.
MutHardStateVote(n) == [term |-> n.term, votedFor |-> Nil, log |-> n.log]

HardStateOf(n) == [term |-> n.term, votedFor |-> n.votedFor, log |-> n.log]

\* i's Node becomes n and the critical section called persistLocked.
Persist(i, n) ==
  /\ node' = [node EXCEPT ![i] = n]
  /\ disk' = [disk EXCEPT ![i] = HardStateOf(n)]

\* Mutant: the handlers answer without persisting.
MutPersistIf(changed, i, n) ==
  node' = [node EXCEPT ![i] = n] /\ UNCHANGED disk

\* i's Node becomes n; persistLocked runs only when changed.
PersistIf(changed, i, n) ==
  IF changed THEN Persist(i, n)
  ELSE node' = [node EXCEPT ![i] = n] /\ UNCHANGED disk

stepDownLocked(n, t) ==
  IF t > n.term
  THEN [n EXCEPT !.state = "follower", !.term = t, !.votedFor = Nil]
  ELSE [n EXCEPT !.state = "follower"]

\* Mutant: nextIndex starts one before the end of the old log, wherever that is.
MutBecomeLeader(n) ==
  LET log == Append(n.log, [term |-> n.term, cmd |-> NoOp])
  IN  [n EXCEPT !.state = "leader", !.log = log,
                !.nextIndex = [p \in Server |-> Len(n.log) - 1],
                !.matchIndex = [p \in Server |-> 0]]

\* The no-op comes first, so nextIndex starts behind it.
becomeLeaderLocked(n) ==
  LET log == Append(n.log, [term |-> n.term, cmd |-> NoOp])
  IN  [n EXCEPT !.state = "leader", !.log = log,
                !.nextIndex = [p \in Server |-> Len(log) + 1],
                !.matchIndex = [p \in Server |-> 0]]

\* The indexes the loop of advanceCommitLocked would accept at i: stored by a
\* majority and reached from the end of the log through entries of the
\* current term only.
Committable(n, i) ==
  {N \in (n.commitIndex + 1)..Len(n.log) :
     /\ \A k \in N..Len(n.log) : termAtLocked(n.log, k) = n.term
     /\ Majority({i} \cup {p \in Server \ {i} : n.matchIndex[p] >= N})}

advanceCommitLocked(n, i) ==
  LET C == Committable(n, i)
  IN  IF C = {} THEN n
      ELSE [n EXCEPT !.commitIndex = CHOOSE N \in C : \A M \in C : M <= N]

\* Mutant: the tail is always cut, as if calls never arrived late.
MutMergeCuts(log, prev, entries) == SubSeq(log, 1, prev) \o entries

\* The log HandleAppendEntries leaves: entries already present are kept, the
\* tail is cut at the first one missing or of another term.
MergeEntries(log, prev, entries) ==
  LET Fresh == {k \in 1..Len(entries) :
                  prev + k > Len(log) \/ log[prev + k].term # entries[k].term}
      first == CHOOSE k \in Fresh : \A m \in Fresh : k <= m
  IN  IF Fresh = {} THEN log
      ELSE SubSeq(log, 1, prev + first - 1) \o SubSeq(entries, first, Len(entries))

NewNode(hs) ==
  [state |-> "follower", term |-> hs.term, votedFor |-> hs.votedFor,
   log |-> hs.log, commitIndex |-> 0, votes |-> {},
   nextIndex |-> [p \in Server |-> 0], matchIndex |-> [p \in Server |-> 0]]

ZeroHardState == [term |-> 0, votedFor |-> Nil, log |-> <<>>]

InFlight == Cardinality(voteReq) + Cardinality(voteResp)
            + Cardinality(appendReq) + Cardinality(appendResp)

Init ==
  /\ node = [i \in Server |-> NewNode(ZeroHardState)]
  /\ disk = [i \in Server |-> ZeroHardState]
  /\ voteReq = {} /\ voteResp = {} /\ appendReq = {} /\ appendResp = {}
  /\ ballots = {} /\ elections = {} /\ committed = {}
  /\ restarts = 0

-----------------------------------------------------------------------------
(* Elections. *)

\* The election timeout of a non-leader elapses.  The RequestVote goroutines
\* to the peers in P reach the network; the others fail at once.
startElection(i, P) ==
  LET n == [node[i] EXCEPT !.state = "candidate", !.term = @ + 1,
                           !.votedFor = i, !.votes = {i}]
      req(p) == [caller |-> i, peer |-> p, term |-> n.term,
                 lastLogIndex |-> Len(n.log),
                 lastLogTerm |-> termAtLocked(n.log, Len(n.log))]
  IN  /\ node[i].state # "leader"
      /\ node[i].term < MaxTerm
      /\ ballots' = ballots \cup {<<i, n.term, i>>}
      /\ IF Majority(n.votes)
         THEN /\ Len(n.log) < MaxLog
              /\ Persist(i, becomeLeaderLocked(n))
              /\ elections' = elections \cup {<<n.term, i>>}
              /\ UNCHANGED voteReq
         ELSE /\ InFlight + Cardinality(P) <= MaxCalls
              /\ Persist(i, n)
              /\ voteReq' = voteReq \cup {req(p) : p \in P}
              /\ UNCHANGED elections
      /\ UNCHANGED <<voteResp, appendReq, appendResp, committed, restarts>>

\* Mutant: any candidate gets the vote, whatever its log.
MutUpToDate(req, log) == TRUE

upToDate(req, log) ==
  LET lastTerm == termAtLocked(log, Len(log))
  IN  \/ req.lastLogTerm > lastTerm
      \/ req.lastLogTerm = lastTerm /\ req.lastLogIndex >= Len(log)

HandleRequestVote(req) ==
  LET i == req.peer
      higher == req.term > node[i].term
      n == IF higher THEN stepDownLocked(node[i], req.term) ELSE node[i]
      granted == /\ req.term = n.term
                 /\ n.votedFor \in {Nil, req.caller}
                 /\ upToDate(req, n.log)
      m == IF granted THEN [n EXCEPT !.votedFor = req.caller] ELSE n
      resp == [caller |-> req.caller, peer |-> i, reqTerm |-> req.term,
               term |-> n.term, granted |-> granted]
  IN  /\ PersistIf(higher \/ granted, i, m)
      /\ voteReq' = voteReq \ {req}
      /\ voteResp' = voteResp \cup {resp}
      /\ ballots' = IF granted THEN ballots \cup {<<i, req.term, req.caller>>}
                               ELSE ballots
      /\ UNCHANGED <<appendReq, appendResp, elections, committed, restarts>>

\* The goroutine of startElection wakes up with the peer's answer.
VoteReply(resp) ==
  LET i == resp.caller
      n == node[i]
      votes == n.votes \cup {resp.peer}
      m == [n EXCEPT !.votes = votes]
  IN  /\ voteResp' = voteResp \ {resp}
      /\ \/ /\ resp.term > n.term
            /\ Persist(i, stepDownLocked(n, resp.term))
            /\ UNCHANGED elections
         \/ /\ resp.term <= n.term
            /\ n.state # "candidate" \/ n.term # resp.reqTerm \/ ~resp.granted
            /\ UNCHANGED <<node, disk, elections>>
         \/ /\ resp.term <= n.term
            /\ n.state = "candidate" /\ n.term = resp.reqTerm /\ resp.granted
            /\ IF Majority(votes)
               THEN /\ Len(n.log) < MaxLog
                    /\ Persist(i, becomeLeaderLocked(m))
                    /\ elections' = elections \cup {<<n.term, i>>}
               ELSE /\ PersistIf(FALSE, i, m)
                    /\ UNCHANGED elections
      /\ UNCHANGED <<voteReq, appendReq, appendResp, ballots, committed, restarts>>

-----------------------------------------------------------------------------
(* Replication. *)

Propose(i, cmd) ==
  LET n == node[i]
  IN  /\ n.state = "leader"
      /\ Len(n.log) < MaxLog
      /\ Persist(i, [n EXCEPT !.log = Append(@, [term |-> n.term, cmd |-> cmd])])
      /\ UNCHANGED <<calls, history, restarts>>

\* The sending half of replicateTo, which the heartbeat, Propose, a won
\* election and a rejected call all start: everything from nextIndex on.
replicateTo(i, p) ==
  LET n == node[i]
      prev == n.nextIndex[p] - 1
  IN  /\ p # i
      /\ n.state = "leader"
      /\ InFlight < MaxCalls
      /\ appendReq' = appendReq \cup
           {[caller |-> i, peer |-> p, term |-> n.term,
             prevLogIndex |-> prev, prevLogTerm |-> termAtLocked(n.log, prev),
             entries |-> SubSeq(n.log, prev + 1, Len(n.log)),
             leaderCommit |-> n.commitIndex]}
      /\ UNCHANGED <<node, disk, voteReq, voteResp, appendResp, history, restarts>>

HandleAppendEntries(req) ==
  LET i == req.peer
      higher == req.term > node[i].term
      n == IF higher THEN stepDownLocked(node[i], req.term) ELSE node[i]
      accepted == req.term = n.term
      lastNew == req.prevLogIndex + Len(req.entries)
      success == /\ accepted
                 /\ req.prevLogIndex <= Len(n.log)
                 /\ termAtLocked(n.log, req.prevLogIndex) = req.prevLogTerm
      merged == MergeEntries(n.log, req.prevLogIndex, req.entries)
      commit == IF req.leaderCommit <= n.commitIndex THEN n.commitIndex
                ELSE IF req.leaderCommit < lastNew THEN req.leaderCommit
                ELSE lastNew
      m == CASE ~accepted -> n
             [] accepted /\ ~success -> [n EXCEPT !.state = "follower"]
             [] success -> [n EXCEPT !.state = "follower", !.log = merged,
                                     !.commitIndex = commit]
      resp == [caller |-> req.caller, peer |-> i, reqTerm |-> req.term,
               lastNew |-> lastNew, term |-> n.term, success |-> success]
  IN  /\ PersistIf(higher \/ (success /\ merged # n.log), i, m)
      /\ appendReq' = appendReq \ {req}
      /\ appendResp' = appendResp \cup {resp}
      /\ UNCHANGED <<voteReq, voteResp, history, restarts>>

\* Mutant: a consistency reject is retried from the same place.
MutWalkBackStuck(n, p) == n

\* A consistency reject moves nextIndex one step back, never below 1.
walkBack(n, p) ==
  IF n.nextIndex[p] > 1 THEN [n EXCEPT !.nextIndex[p] = @ - 1] ELSE n

\* The receiving half of replicateTo.
AppendReply(resp) ==
  LET i == resp.caller
      p == resp.peer
      n == node[i]
      match == IF resp.lastNew > n.matchIndex[p] THEN resp.lastNew
                                                 ELSE n.matchIndex[p]
      acked == advanceCommitLocked([n EXCEPT !.matchIndex[p] = match,
                                             !.nextIndex[p] = match + 1], i)
  IN  /\ appendResp' = appendResp \ {resp}
      /\ \/ /\ resp.term > n.term
            /\ Persist(i, stepDownLocked(n, resp.term))
            /\ UNCHANGED committed
         \/ /\ resp.term <= n.term
            /\ n.state # "leader" \/ n.term # resp.reqTerm
            /\ UNCHANGED <<node, disk, committed>>
         \/ /\ resp.term <= n.term
            /\ n.state = "leader" /\ n.term = resp.reqTerm
            /\ resp.success
            /\ PersistIf(FALSE, i, acked)
            /\ committed' = IF acked.commitIndex = n.commitIndex THEN committed
                            ELSE committed \cup {SubSeq(n.log, 1, acked.commitIndex)}
         \/ /\ resp.term <= n.term
            /\ n.state = "leader" /\ n.term = resp.reqTerm
            /\ ~resp.success
            /\ PersistIf(FALSE, i, walkBack(n, p))
            /\ UNCHANGED committed
      /\ UNCHANGED <<voteReq, voteResp, appendReq, ballots, elections, restarts>>

-----------------------------------------------------------------------------
(* Failures. *)

\* The process of i dies, its goroutines with it, and NewNode runs on the
\* same Storage.
Restart(i) ==
  /\ restarts < MaxRestarts
  /\ restarts' = restarts + 1
  /\ node' = [node EXCEPT ![i] = NewNode(disk[i])]
  /\ voteReq' = {c \in voteReq : c.caller # i}
  /\ voteResp' = {c \in voteResp : c.caller # i}
  /\ appendReq' = {c \in appendReq : c.caller # i}
  /\ appendResp' = {c \in appendResp : c.caller # i}
  /\ UNCHANGED <<disk, history>>

\* ErrUnreachable: the peer is stopped, partitioned away or the reply is lost.
CallFails ==
  /\ \/ /\ \E c \in voteReq : voteReq' = voteReq \ {c}
        /\ UNCHANGED <<voteResp, appendReq, appendResp>>
     \/ /\ \E c \in voteResp : voteResp' = voteResp \ {c}
        /\ UNCHANGED <<voteReq, appendReq, appendResp>>
     \/ /\ \E c \in appendReq : appendReq' = appendReq \ {c}
        /\ UNCHANGED <<voteReq, voteResp, appendResp>>
     \/ /\ \E c \in appendResp : appendResp' = appendResp \ {c}
        /\ UNCHANGED <<voteReq, voteResp, appendReq>>
  /\ UNCHANGED <<node, disk, history, restarts>>

Next ==
  \/ \E i \in Server : \E P \in SUBSET (Server \ {i}) : startElection(i, P)
  \/ \E c \in voteReq : HandleRequestVote(c)
  \/ \E c \in voteResp : VoteReply(c)
  \/ \E i \in Server, cmd \in Cmd : Propose(i, cmd)
  \/ \E i, p \in Server : replicateTo(i, p)
  \/ \E c \in appendReq : HandleAppendEntries(c)
  \/ \E c \in appendResp : AppendReply(c)
  \/ \E i \in Server : Restart(i)
  \/ CallFails

Spec == Init /\ [][Next]_vars

\* Heartbeats and retries keep calling every peer, and a peer called for ever
\* is reached for ever: calls are lost, but not all of them.  Strong fairness
\* also stands for the calls competing for the MaxCalls slots of the model.
Fairness ==
  \A p \in Server :
    /\ SF_vars(\E i \in Server : replicateTo(i, p))
    /\ SF_vars(\E c \in appendReq : c.peer = p /\ HandleAppendEntries(c))
    /\ SF_vars(\E c \in appendResp : c.peer = p /\ AppendReply(c))
    /\ WF_vars(\E c \in voteReq : c.peer = p /\ HandleRequestVote(c))
    /\ WF_vars(\E c \in voteResp : c.peer = p /\ VoteReply(c))

FairSpec == Spec /\ Fairness

-----------------------------------------------------------------------------
(* Properties. *)

\* A node that crashes and restarts on its Storage never votes for two
\* candidates of one term ("persist-then-respond" in HandleRequestVote).
VoteOnce ==
  \A b, c \in ballots : b[1] = c[1] /\ b[2] = c[2] => b[3] = c[3]

\* No term ever has two leaders, not even one after the other: whoever
\* startElection or VoteReply makes leader is alone in its term.
ElectionSafety ==
  \A e, f \in elections : e[1] = f[1] => e[2] = f[2]

\* At every unlock Storage holds exactly the term, the vote and the log the
\* node acts on: no critical section that changes them forgets persistLocked.
Durable == \A i \in Server : disk[i] = HardStateOf(node[i])

\* Whatever two nodes deliver to their state machines agrees, also with what
\* was delivered before a restart: the leaders' committed prefixes are
\* prefixes of one another and every commitIndex stays inside one of them.
StateMachineSafety ==
  /\ \A c, d \in committed : IsPrefix(c, d) \/ IsPrefix(d, c)
  /\ \A i \in Server : node[i].commitIndex > 0 =>
       \E c \in committed :
         IsPrefix(SubSeq(node[i].log, 1, node[i].commitIndex), c)

\* "A committed entry is never cut here" (comment of HandleAppendEntries): no
\* step, a restart included, removes or changes an entry below commitIndex.
CommittedNeverCut ==
  [][\A i \in Server :
       IsPrefix(SubSeq(node[i].log, 1, node[i].commitIndex), node'[i].log)]_vars

\* A leader that is never deposed brings every node to its own log and commits
\* all of it: the walk back of nextIndex ends, rejected and lost calls are
\* retried, and the entries of earlier terms are committed with the no-op.
LeaderConverges ==
  \A i \in Server :
    <>[](node[i].state = "leader") =>
      <>[](\A p \in Server : /\ node[p].log = node[i].log
                             /\ node[p].commitIndex = Len(node[i].log))
=============================================================================
