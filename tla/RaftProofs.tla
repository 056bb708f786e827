----------------------------- MODULE RaftProofs -----------------------------
(***************************************************************************)
(* Proofs about Raft.tla: type correctness, election safety, and that what *)
(* is committed is never cut and agrees, for every cluster size, every set *)
(* of commands and every value of the bounds.                              *)
(***************************************************************************)
EXTENDS Raft, TLAPS, FiniteSetTheorems, SequenceTheorems,
        WellFoundedInduction

-----------------------------------------------------------------------------
(* Facts about the operators. *)

\* A nonempty set of naturals has a least element.
LEMMA NatMin ==
  ASSUME NEW S \in SUBSET Nat, S # {}
  PROVE  \E n \in S : \A m \in S : n <= m
<1> DEFINE R == {ss \in Nat \X Nat : ss[1] < ss[2]}
<1>1. R = OpToRel(<, Nat)
  BY Zenon DEF OpToRel
<1>2. IsWellFoundedOn(R, Nat)
  BY <1>1, NatLessThanWellFounded
<1>3. PICK x \in S : \A y \in S : ~(<<y, x>> \in R)
  BY <1>2, WFMin
<1>4. ASSUME NEW y \in S
      PROVE  x <= y
  <2>1. x \in Nat /\ y \in Nat
    OBVIOUS
  <2>2. ~(<<y, x>> \in R)
    BY <1>3
  <2>3. ~(y < x)
    BY <2>1, <2>2
  <2>4. QED
    BY <2>1, <2>3
<1>5. QED
  BY <1>4

\* A nonempty bounded set of naturals has a greatest element.
LEMMA NatMax ==
  ASSUME NEW S \in SUBSET Nat, S # {}, NEW b \in Nat, \A n \in S : n <= b
  PROVE  \E n \in S : \A m \in S : m <= n
<1> DEFINE T == {b - n : n \in S}
<1>1. T \in SUBSET Nat
  OBVIOUS
<1>2. T # {}
  OBVIOUS
<1> HIDE DEF T
<1>3. PICK t \in T : \A u \in T : t <= u
  BY <1>1, <1>2, NatMin
<1> USE DEF T
<1>4. PICK n \in S : t = b - n
  OBVIOUS
<1>5. ASSUME NEW m \in S
      PROVE  m <= n
  <2>1. b - m \in T
    OBVIOUS
  <2>2. t <= b - m
    BY <2>1, <1>3
  <2>3. QED
    BY <2>2, <1>4
<1>6. QED
  BY <1>5

\* stepDownLocked touches state, term and vote, the last two only for a higher term.
LEMMA StepDownType ==
  ASSUME NEW n \in Node, NEW t \in Nat
  PROVE  /\ stepDownLocked(n, t) \in Node
         /\ stepDownLocked(n, t).state = "follower"
         /\ stepDownLocked(n, t).log = n.log
         /\ stepDownLocked(n, t).nextIndex = n.nextIndex
         /\ t > n.term => /\ stepDownLocked(n, t).term = t
                          /\ stepDownLocked(n, t).votedFor = Nil
BY DEF stepDownLocked, Node

\* A new leader keeps its term and vote and starts with a legal nextIndex.
LEMMA BecomeLeaderType ==
  ASSUME NEW n \in Node
  PROVE  /\ becomeLeaderLocked(n) \in Node
         /\ becomeLeaderLocked(n).state = "leader"
         /\ becomeLeaderLocked(n).term = n.term
         /\ becomeLeaderLocked(n).votedFor = n.votedFor
         /\ \A p \in Server : becomeLeaderLocked(n).nextIndex[p] >= 1
<1> DEFINE log == Append(n.log, [term |-> n.term, cmd |-> NoOp])
           next == [p \in Server |-> Len(log) + 1]
           match == [p \in Server |-> 0]
<1>1. log \in Seq(Entry)
  BY DEF Node, Entry
<1>2. next \in [Server -> Nat] /\ \A p \in Server : next[p] >= 1
  BY <1>1
<1>3. match \in [Server -> Nat]
  OBVIOUS
<1>4. becomeLeaderLocked(n) =
        [n EXCEPT !.state = "leader", !.log = log,
                  !.nextIndex = next, !.matchIndex = match]
  BY DEF becomeLeaderLocked
<1> HIDE DEF log, next, match
<1>5. becomeLeaderLocked(n) \in Node
  BY <1>1, <1>2, <1>3, <1>4 DEF Node
<1>6. /\ becomeLeaderLocked(n).state = "leader"
      /\ becomeLeaderLocked(n).term = n.term
      /\ becomeLeaderLocked(n).votedFor = n.votedFor
      /\ becomeLeaderLocked(n).nextIndex = next
  BY <1>4 DEF Node
<1>7. QED
  BY <1>2, <1>5, <1>6

\* The struct startElection campaigns with.
LEMMA CandidateType ==
  ASSUME NEW a \in Node, NEW i \in Server
  PROVE  LET n == [a EXCEPT !.state = "candidate", !.term = @ + 1,
                            !.votedFor = i, !.votes = {i}]
         IN  n \in Node /\ n.state = "candidate"
<1> DEFINE t == a.term + 1
           v == {i}
           n == [a EXCEPT !.state = "candidate", !.term = t, !.votedFor = i, !.votes = v]
<1>1. t \in Nat /\ v \in SUBSET Server
  BY DEF Node
<1> HIDE DEF t, v
<1>2. n \in Node /\ n.state = "candidate"
  BY <1>1 DEF Node
<1>3. QED
  BY <1>2 DEF t, v

\* termAtLocked answers a term for every index, 0 outside the log.
LEMMA TermAtType ==
  ASSUME NEW log \in Seq(Entry), NEW idx \in Int
  PROVE  termAtLocked(log, idx) \in Nat
<1>1. CASE idx \in 1..Len(log)
  <2>1. log[idx] \in Entry
    BY <1>1
  <2>2. QED
    BY <1>1, <2>1 DEF termAtLocked, Entry
<1>2. CASE idx \notin 1..Len(log)
  BY <1>2 DEF termAtLocked
<1>3. QED
  BY <1>1, <1>2

\* advanceCommitLocked touches commitIndex alone, and only raises it.
LEMMA AdvanceCommitType ==
  ASSUME NEW n \in Node, NEW i \in Server
  PROVE  \E c \in Nat : /\ c = n.commitIndex \/ c \in (n.commitIndex + 1)..Len(n.log)
                        /\ advanceCommitLocked(n, i) = [n EXCEPT !.commitIndex = c]
<1> DEFINE C == Committable(n, i)
<1>1. n.commitIndex \in Nat /\ Len(n.log) \in Nat
  BY DEF Node
<1>2. C \subseteq (n.commitIndex + 1)..Len(n.log)
  BY DEF Committable
<1> HIDE DEF C
<1>3. CASE C = {}
  <2>1. advanceCommitLocked(n, i) = n
    BY <1>3 DEF advanceCommitLocked, C
  <2>2. n = [n EXCEPT !.commitIndex = n.commitIndex]
    BY DEF Node
  <2>3. QED
    BY <1>1, <2>1, <2>2
<1>4. CASE C # {}
  <2> DEFINE c == CHOOSE N \in C : \A M \in C : M <= N
  <2>1. C \in SUBSET Nat /\ \A N \in C : N <= Len(n.log)
    BY <1>1, <1>2
  <2>2. \E N \in C : \A M \in C : M <= N
    BY <1>1, <1>4, <2>1, NatMax
  <2>3. c \in C
    BY <2>2
  <2>4. advanceCommitLocked(n, i) = [n EXCEPT !.commitIndex = c]
    BY <1>4 DEF advanceCommitLocked, C
  <2>5. QED
    BY <1>1, <1>2, <2>1, <2>3, <2>4
<1>5. QED
  BY <1>3, <1>4

\* Under the consistency check of HandleAppendEntries the merged log is a log.
LEMMA MergeType ==
  ASSUME NEW log \in Seq(Entry), NEW entries \in Seq(Entry),
         NEW prev \in Nat, prev <= Len(log)
  PROVE  MergeEntries(log, prev, entries) \in Seq(Entry)
<1> DEFINE Fresh == {k \in 1..Len(entries) :
                       prev + k > Len(log) \/ log[prev + k].term # entries[k].term}
           first == CHOOSE k \in Fresh : \A m \in Fresh : k <= m
<1>1. Len(entries) \in Nat /\ Len(log) \in Nat
  OBVIOUS
<1>2. Fresh \in SUBSET Nat /\ Fresh \subseteq 1..Len(entries)
  BY <1>1
<1>3. \A k \in 1..Len(entries) : k \notin Fresh => prev + k <= Len(log)
  BY <1>1
<1>4. MergeEntries(log, prev, entries) =
        IF Fresh = {} THEN log
        ELSE SubSeq(log, 1, prev + first - 1) \o SubSeq(entries, first, Len(entries))
  BY DEF MergeEntries
<1> HIDE DEF Fresh
<1>5. CASE Fresh # {}
  <2>1. \E k \in Fresh : \A m \in Fresh : k <= m
    BY <1>2, <1>5, NatMin
  <2>2. first \in Fresh /\ \A m \in Fresh : first <= m
    BY <2>1
  <2> HIDE DEF first
  <2>3. first \in 1..Len(entries)
    BY <1>2, <2>2
  <2>4. prev + first - 1 <= Len(log)
    <3>1. CASE first = 1
      BY <3>1
    <3>2. CASE first # 1
      <4>1. first - 1 \in 1..Len(entries) /\ first - 1 \notin Fresh
        BY <1>1, <2>2, <2>3, <3>2
      <4>2. QED
        BY <1>1, <1>3, <2>3, <4>1
    <3>3. QED
      BY <3>1, <3>2
  <2>5. SubSeq(log, 1, prev + first - 1) \in Seq(Entry)
    BY <1>1, <2>3, <2>4
  <2>6. SubSeq(entries, first, Len(entries)) \in Seq(Entry)
    BY <1>1, <2>3
  <2>7. QED
    BY <1>4, <1>5, <2>5, <2>6
<1>6. QED
  BY <1>4, <1>5

\* NewNode is a follower with the term, the vote and the log of its Storage.
LEMMA NewNodeType ==
  ASSUME NEW hs \in HardState
  PROVE  /\ NewNode(hs) \in Node
         /\ NewNode(hs).state = "follower"
         /\ NewNode(hs).term = hs.term
         /\ NewNode(hs).votedFor = hs.votedFor
         /\ NewNode(hs).log = hs.log
<1>1. [p \in Server |-> 0] \in [Server -> Nat]
  OBVIOUS
<1>2. QED
  BY <1>1 DEF NewNode, HardState, Node

\* What persistLocked hands to Storage is a HardState.
LEMMA HardStateType ==
  ASSUME NEW n \in Node
  PROVE  HardStateOf(n) \in HardState
BY DEF HardStateOf, HardState, Node

\* walkBack touches nextIndex alone and keeps it at 1 or above.
LEMMA WalkBackType ==
  ASSUME NEW n \in Node, NEW p \in Server
  PROVE  \E next \in [Server -> Nat] :
           /\ walkBack(n, p) = [n EXCEPT !.nextIndex = next]
           /\ (\A q \in Server : n.nextIndex[q] >= 1) =>
                \A q \in Server : next[q] >= 1
<1>1. n.nextIndex \in [Server -> Nat]
  BY DEF Node
<1>2. CASE n.nextIndex[p] > 1
  <2> DEFINE next == [n.nextIndex EXCEPT ![p] = @ - 1]
  <2>1. walkBack(n, p) = [n EXCEPT !.nextIndex = next]
    BY <1>2 DEF walkBack
  <2>2. next \in [Server -> Nat]
    BY <1>1, <1>2
  <2>3. \A q \in Server : n.nextIndex[q] >= 1 => next[q] >= 1
    BY <1>1, <1>2
  <2>4. QED
    BY <2>1, <2>2, <2>3
<1>3. CASE ~(n.nextIndex[p] > 1)
  <2>1. walkBack(n, p) = n
    BY <1>3 DEF walkBack
  <2>2. n = [n EXCEPT !.nextIndex = n.nextIndex]
    BY DEF Node
  <2>3. QED
    BY <1>1, <2>1, <2>2
<1>4. QED
  BY <1>2, <1>3

-----------------------------------------------------------------------------
(* Type correctness.  replicateTo slices the log from nextIndex - 1 on, so  *)
(* the types need that a leader's nextIndex is at least 1.                  *)

LeaderNext ==
  \A i \in Server : node[i].state = "leader" =>
                      \A p \in Server : node[i].nextIndex[p] >= 1

TypeInv == TypeOK /\ LeaderNext

\* A critical section that ends in Persist or PersistIf keeps both, provided
\* the struct it leaves does.
LEMMA PersistType ==
  ASSUME NEW i \in Server, NEW n \in Node, NEW changed \in BOOLEAN, TypeInv,
         PersistIf(changed, i, n) \/ Persist(i, n),
         n.state = "leader" => \A p \in Server : n.nextIndex[p] >= 1
  PROVE  node' \in [Server -> Node] /\ disk' \in [Server -> HardState] /\ LeaderNext'
<1>1. node \in [Server -> Node] /\ disk \in [Server -> HardState] /\ LeaderNext
  BY DEF TypeInv, TypeOK
<1>2. HardStateOf(n) \in HardState
  BY HardStateType
<1>3. node' = [node EXCEPT ![i] = n]
  BY DEF Persist, PersistIf
<1>4. disk' = [disk EXCEPT ![i] = HardStateOf(n)] \/ disk' = disk
  BY DEF Persist, PersistIf
<1>5. disk' \in [Server -> HardState]
  BY <1>1, <1>2, <1>4
<1>6. LeaderNext'
  BY <1>1, <1>3 DEF LeaderNext
<1>7. QED
  BY <1>1, <1>3, <1>5, <1>6

\* A freshly started cluster is well typed.
LEMMA TypeInit == Init => TypeInv
<1> SUFFICES ASSUME Init PROVE TypeInv
  OBVIOUS
<1>1. ZeroHardState \in HardState
  BY DEF ZeroHardState, HardState
<1>2. NewNode(ZeroHardState) \in Node /\ NewNode(ZeroHardState).state = "follower"
  BY <1>1, NewNodeType
<1>3. QED
  BY <1>1, <1>2 DEF Init, TypeInv, TypeOK, LeaderNext

\* startElection keeps the types.
LEMMA TypeElection ==
  ASSUME TypeInv, NEW i \in Server, NEW P \in SUBSET (Server \ {i}), startElection(i, P)
  PROVE  TypeInv'
<1> DEFINE n == [node[i] EXCEPT !.state = "candidate", !.term = @ + 1,
                                !.votedFor = i, !.votes = {i}]
           req(p) == [caller |-> i, peer |-> p, term |-> n.term,
                      lastLogIndex |-> Len(n.log),
                      lastLogTerm |-> termAtLocked(n.log, Len(n.log))]
<1>1. node[i] \in Node
  BY DEF TypeInv, TypeOK
<1>2. n \in Node /\ n.state = "candidate"
  BY <1>1, CandidateType
<1>3. n.term \in Nat /\ n.log \in Seq(Entry)
  BY <1>2 DEF Node
<1>4. \/ /\ Persist(i, becomeLeaderLocked(n))
         /\ elections' = elections \cup {<<n.term, i>>}
         /\ UNCHANGED voteReq
      \/ /\ Persist(i, n)
         /\ voteReq' = voteReq \cup {req(p) : p \in P}
         /\ UNCHANGED elections
  BY DEF startElection
<1>5. /\ ballots' = ballots \cup {<<i, n.term, i>>}
      /\ UNCHANGED <<voteResp, appendReq, appendResp, committed, restarts>>
  BY DEF startElection
<1>6. \A p \in P : req(p) \in VoteReq
  <2>1. termAtLocked(n.log, Len(n.log)) \in Nat /\ Len(n.log) \in Nat
    BY <1>3, TermAtType
  <2>2. QED
    BY <1>3, <2>1 DEF VoteReq
<1> HIDE DEF n, req
<1>7. node' \in [Server -> Node] /\ disk' \in [Server -> HardState] /\ LeaderNext'
  BY <1>2, <1>4, BecomeLeaderType, PersistType
<1>8. voteReq' \subseteq VoteReq /\ elections' \subseteq Nat \X Server
  BY <1>3, <1>4, <1>6 DEF TypeInv, TypeOK
<1>9. ballots' \subseteq Server \X Nat \X Server
  BY <1>3, <1>5 DEF TypeInv, TypeOK
<1>10. QED
  BY <1>5, <1>7, <1>8, <1>9 DEF TypeInv, TypeOK

\* HandleRequestVote keeps the types.
LEMMA TypeRequestVote ==
  ASSUME TypeInv, NEW req \in voteReq, HandleRequestVote(req)
  PROVE  TypeInv'
<1> DEFINE i == req.peer
           higher == req.term > node[i].term
           n == IF higher THEN stepDownLocked(node[i], req.term) ELSE node[i]
           granted == /\ req.term = n.term
                      /\ n.votedFor \in {Nil, req.caller}
                      /\ upToDate(req, n.log)
           m == IF granted THEN [n EXCEPT !.votedFor = req.caller] ELSE n
           resp == [caller |-> req.caller, peer |-> i, reqTerm |-> req.term,
                    term |-> n.term, granted |-> granted]
<1>1. /\ req \in VoteReq /\ i \in Server /\ req.caller \in Server /\ req.term \in Nat
      /\ node[i] \in Node
  BY DEF TypeInv, TypeOK, VoteReq
<1>2. /\ PersistIf(higher \/ granted, i, m)
      /\ voteReq' = voteReq \ {req}
      /\ voteResp' = voteResp \cup {resp}
      /\ ballots' = IF granted THEN ballots \cup {<<i, req.term, req.caller>>}
                               ELSE ballots
      /\ UNCHANGED <<appendReq, appendResp, elections, committed, restarts>>
  BY DEF HandleRequestVote
<1>3. n \in Node /\ (n.state = "leader" => n = node[i])
  BY <1>1, StepDownType
<1>4. granted \in BOOLEAN /\ higher \in BOOLEAN
  BY DEF upToDate
<1> HIDE DEF i, higher, n, granted
<1>5. m \in Node /\ m.state = n.state /\ m.nextIndex = n.nextIndex
  BY <1>1, <1>3 DEF Node
<1>6. resp \in VoteResp
  BY <1>1, <1>3, <1>4 DEF VoteResp, Node
<1> HIDE DEF m, resp
<1>7. m.state = "leader" => \A p \in Server : m.nextIndex[p] >= 1
  BY <1>1, <1>3, <1>5 DEF TypeInv, LeaderNext
<1>8. node' \in [Server -> Node] /\ disk' \in [Server -> HardState] /\ LeaderNext'
  BY <1>1, <1>2, <1>4, <1>5, <1>7, PersistType
<1>9. ballots' \subseteq Server \X Nat \X Server
  BY <1>1, <1>2 DEF TypeInv, TypeOK
<1>10. QED
  BY <1>2, <1>6, <1>8, <1>9 DEF TypeInv, TypeOK

\* The reply goroutine of startElection keeps the types.
LEMMA TypeVoteReply ==
  ASSUME TypeInv, NEW resp \in voteResp, VoteReply(resp)
  PROVE  TypeInv'
<1> DEFINE i == resp.caller
           n == node[i]
           votes == n.votes \cup {resp.peer}
           m == [n EXCEPT !.votes = votes]
<1>1. /\ i \in Server /\ resp.peer \in Server /\ resp.term \in Nat
      /\ n \in Node
  BY DEF TypeInv, TypeOK, VoteResp
<1>2. \/ /\ Persist(i, stepDownLocked(n, resp.term))
         /\ UNCHANGED elections
      \/ UNCHANGED <<node, disk, elections>>
      \/ /\ n.state = "candidate"
         /\ Persist(i, becomeLeaderLocked(m))
         /\ elections' = elections \cup {<<n.term, i>>}
      \/ /\ n.state = "candidate"
         /\ PersistIf(FALSE, i, m)
         /\ UNCHANGED elections
  BY DEF VoteReply
<1>3. /\ voteResp' = voteResp \ {resp}
      /\ UNCHANGED <<voteReq, appendReq, appendResp, ballots, committed, restarts>>
  BY DEF VoteReply
<1>4. n.term \in Nat
  BY <1>1 DEF Node
<1> HIDE DEF i, n
<1>5. votes \in SUBSET Server
  BY <1>1 DEF Node
<1> HIDE DEF votes
<1>6. m \in Node /\ m.state = n.state
  BY <1>1, <1>5 DEF Node
<1> HIDE DEF m
<1>7. node' \in [Server -> Node] /\ disk' \in [Server -> HardState] /\ LeaderNext'
  <2>1. CASE UNCHANGED <<node, disk, elections>>
    BY <2>1 DEF TypeInv, TypeOK, LeaderNext
  <2>2. CASE Persist(i, stepDownLocked(n, resp.term))
    BY <1>1, <2>2, StepDownType, PersistType
  <2>3. CASE Persist(i, becomeLeaderLocked(m))
    BY <1>1, <1>6, <2>3, BecomeLeaderType, PersistType
  <2>4. CASE n.state = "candidate" /\ PersistIf(FALSE, i, m)
    BY <1>1, <1>6, <2>4, PersistType
  <2>5. QED
    BY <1>2, <2>1, <2>2, <2>3, <2>4
<1>8. elections' \subseteq Nat \X Server
  <2>1. elections' = elections \/ elections' = elections \cup {<<n.term, i>>}
    BY <1>2
  <2>2. elections \subseteq Nat \X Server /\ <<n.term, i>> \in Nat \X Server
    BY <1>1, <1>4 DEF TypeInv, TypeOK
  <2>3. QED
    BY <2>1, <2>2
<1>9. QED
  BY <1>3, <1>7, <1>8 DEF TypeInv, TypeOK

\* Propose keeps the types.
LEMMA TypePropose ==
  ASSUME TypeInv, NEW i \in Server, NEW cmd \in Cmd, Propose(i, cmd)
  PROVE  TypeInv'
<1> DEFINE n == node[i]
           log == Append(n.log, [term |-> n.term, cmd |-> cmd])
           m == [n EXCEPT !.log = log]
<1>1. n \in Node
  BY DEF TypeInv, TypeOK
<1>2. log \in Seq(Entry)
  <2>1. n.log \in Seq(Entry) /\ n.term \in Nat
    BY <1>1 DEF Node
  <2>2. [term |-> n.term, cmd |-> cmd] \in Entry
    BY <2>1 DEF Entry
  <2>3. QED
    BY <2>1, <2>2
<1>3. Persist(i, m) /\ UNCHANGED <<calls, history, restarts>>
  BY DEF Propose
<1> HIDE DEF log
<1>4. m \in Node /\ m.state = n.state /\ m.nextIndex = n.nextIndex
  BY <1>1, <1>2 DEF Node
<1> HIDE DEF m
<1>5. m.state = "leader" => \A p \in Server : m.nextIndex[p] >= 1
  BY <1>4 DEF TypeInv, LeaderNext
<1>6. node' \in [Server -> Node] /\ disk' \in [Server -> HardState] /\ LeaderNext'
  BY <1>3, <1>4, <1>5, PersistType
<1>7. QED
  BY <1>3, <1>6 DEF TypeInv, TypeOK, calls, history

\* replicateTo builds a well formed call.
LEMMA TypeReplicate ==
  ASSUME TypeInv, NEW i \in Server, NEW p \in Server, replicateTo(i, p)
  PROVE  TypeInv'
<1> DEFINE n == node[i]
           prev == n.nextIndex[p] - 1
           req == [caller |-> i, peer |-> p, term |-> n.term,
                   prevLogIndex |-> prev, prevLogTerm |-> termAtLocked(n.log, prev),
                   entries |-> SubSeq(n.log, prev + 1, Len(n.log)),
                   leaderCommit |-> n.commitIndex]
<1>1. n \in Node
  BY DEF TypeInv, TypeOK
<1>2. /\ n.state = "leader"
      /\ appendReq' = appendReq \cup {req}
      /\ UNCHANGED <<node, disk, voteReq, voteResp, appendResp, history, restarts>>
  BY DEF replicateTo
<1>3. n.nextIndex[p] >= 1
  BY <1>2 DEF TypeInv, LeaderNext
<1> HIDE DEF n
<1>4. /\ n.nextIndex[p] \in Nat /\ n.term \in Nat /\ n.log \in Seq(Entry)
      /\ n.commitIndex \in Nat /\ Len(n.log) \in Nat
  BY <1>1 DEF Node
<1>5. prev \in Nat /\ prev \in Int
  BY <1>3, <1>4
<1> HIDE DEF prev
<1>6. termAtLocked(n.log, prev) \in Nat
  BY <1>4, <1>5, TermAtType
<1>7. SubSeq(n.log, prev + 1, Len(n.log)) \in Seq(Entry)
  BY <1>4, <1>5
<1>8. req \in AppendReq
  BY <1>4, <1>5, <1>6, <1>7 DEF AppendReq
<1> HIDE DEF req
<1>9. QED
  BY <1>2, <1>8 DEF TypeInv, TypeOK, LeaderNext, history

\* HandleAppendEntries keeps the types.
LEMMA TypeAppendEntries ==
  ASSUME TypeInv, NEW req \in appendReq, HandleAppendEntries(req)
  PROVE  TypeInv'
<1> DEFINE i == req.peer
           higher == req.term > node[i].term
           n == IF higher THEN stepDownLocked(node[i], req.term) ELSE node[i]
           accepted == req.term = n.term
           lastNew == req.prevLogIndex + Len(req.entries)
           success == /\ accepted
                      /\ req.prevLogIndex <= Len(n.log)
                      /\ termAtLocked(n.log, req.prevLogIndex) = req.prevLogTerm
           merged == MergeEntries(n.log, req.prevLogIndex, req.entries)
           commit == IF req.leaderCommit <= n.commitIndex THEN n.commitIndex
                     ELSE IF req.leaderCommit < lastNew THEN req.leaderCommit
                     ELSE lastNew
           m == CASE ~accepted -> n
                  [] accepted /\ ~success -> [n EXCEPT !.state = "follower"]
                  [] success -> [n EXCEPT !.state = "follower", !.log = merged,
                                          !.commitIndex = commit]
           resp == [caller |-> req.caller, peer |-> i, reqTerm |-> req.term,
                    lastNew |-> lastNew, term |-> n.term, success |-> success]
<1>1. /\ i \in Server /\ req.caller \in Server /\ req.term \in Nat
      /\ req.prevLogIndex \in Nat /\ req.entries \in Seq(Entry)
      /\ req.leaderCommit \in Nat /\ node[i] \in Node
  BY DEF TypeInv, TypeOK, AppendReq
<1>2. /\ PersistIf(higher \/ (success /\ merged # n.log), i, m)
      /\ appendReq' = appendReq \ {req}
      /\ appendResp' = appendResp \cup {resp}
      /\ UNCHANGED <<voteReq, voteResp, history, restarts>>
  BY DEF HandleAppendEntries
<1>3. n \in Node /\ (n.state = "leader" => n = node[i])
  BY <1>1, StepDownType
<1> HIDE DEF i, n, higher
<1>4. n.log \in Seq(Entry) /\ n.commitIndex \in Nat /\ n.term \in Nat
  BY <1>3 DEF Node
<1>5. lastNew \in Nat /\ commit \in Nat
  BY <1>1, <1>4
<1>6. success => merged \in Seq(Entry)
  BY <1>1, <1>4, MergeType
<1>7. accepted \in BOOLEAN /\ success \in BOOLEAN /\ (success => accepted)
  OBVIOUS
<1>8. resp \in AppendResp
  BY <1>1, <1>4, <1>5, <1>7 DEF AppendResp
<1> HIDE DEF lastNew, commit, merged, accepted, success, resp
<1>9. /\ m \in Node
      /\ m.state = "leader" => m = n
  BY <1>3, <1>5, <1>6, <1>7 DEF Node
<1> HIDE DEF m
<1>10. m.state = "leader" => \A p \in Server : m.nextIndex[p] >= 1
  BY <1>1, <1>3, <1>9 DEF TypeInv, LeaderNext
<1>11. node' \in [Server -> Node] /\ disk' \in [Server -> HardState] /\ LeaderNext'
  <2>1. (higher \/ (success /\ merged # n.log)) \in BOOLEAN
    OBVIOUS
  <2>2. QED
    BY <1>1, <1>2, <1>9, <1>10, <2>1, PersistType
<1>12. QED
  BY <1>2, <1>8, <1>11 DEF TypeInv, TypeOK, history

\* The reply half of replicateTo keeps the types.
LEMMA TypeAppendReply ==
  ASSUME TypeInv, NEW resp \in appendResp, AppendReply(resp)
  PROVE  TypeInv'
<1> DEFINE i == resp.caller
           p == resp.peer
           n == node[i]
           match == IF resp.lastNew > n.matchIndex[p] THEN resp.lastNew
                                                      ELSE n.matchIndex[p]
           stored == [n EXCEPT !.matchIndex[p] = match, !.nextIndex[p] = match + 1]
           acked == advanceCommitLocked(stored, i)
<1>1. /\ i \in Server /\ p \in Server /\ resp.term \in Nat /\ resp.lastNew \in Nat
      /\ n \in Node
  BY DEF TypeInv, TypeOK, AppendResp
<1>2. \/ /\ Persist(i, stepDownLocked(n, resp.term))
         /\ UNCHANGED committed
      \/ UNCHANGED <<node, disk, committed>>
      \/ /\ PersistIf(FALSE, i, acked)
         /\ committed' = IF acked.commitIndex = n.commitIndex THEN committed
                         ELSE committed \cup {SubSeq(n.log, 1, acked.commitIndex)}
      \/ /\ PersistIf(FALSE, i, walkBack(n, p))
         /\ UNCHANGED committed
  BY DEF AppendReply
<1>3. /\ appendResp' = appendResp \ {resp}
      /\ UNCHANGED <<voteReq, voteResp, appendReq, ballots, elections, restarts>>
  BY DEF AppendReply
<1>4. n.state = "leader" => \A q \in Server : n.nextIndex[q] >= 1
  BY <1>1 DEF TypeInv, LeaderNext
<1> HIDE DEF i, p, n
<1>5. /\ n.matchIndex \in [Server -> Nat] /\ n.nextIndex \in [Server -> Nat]
      /\ n.log \in Seq(Entry) /\ Len(n.log) \in Nat
  BY <1>1 DEF Node
<1>6. match \in Nat
  BY <1>1, <1>5
<1> HIDE DEF match
<1>7. /\ stored \in Node /\ stored.state = n.state /\ stored.log = n.log
      /\ stored.commitIndex = n.commitIndex
      /\ stored.state = "leader" => \A q \in Server : stored.nextIndex[q] >= 1
  <2> DEFINE mi == [n.matchIndex EXCEPT ![p] = match]
             ni == [n.nextIndex EXCEPT ![p] = match + 1]
  <2>1. mi \in [Server -> Nat] /\ ni \in [Server -> Nat]
    <3>1. match + 1 \in Nat
      BY <1>6
    <3>2. mi \in [Server -> Nat]
      BY <1>5, <1>6
    <3>3. ni \in [Server -> Nat]
      BY <1>5, <3>1
    <3>4. QED
      BY <3>2, <3>3
  <2>2. \A q \in Server : n.nextIndex[q] >= 1 => ni[q] >= 1
    BY <1>5, <1>6
  <2>3. stored = [n EXCEPT !.matchIndex = mi, !.nextIndex = ni]
    OBVIOUS
  <2> HIDE DEF mi, ni, stored
  <2>4. /\ stored \in Node /\ stored.state = n.state /\ stored.log = n.log
        /\ stored.commitIndex = n.commitIndex /\ stored.nextIndex = ni
    BY <1>1, <2>1, <2>3 DEF Node
  <2>5. QED
    BY <1>4, <2>2, <2>4
<1> HIDE DEF stored
<1>8. PICK c \in Nat : /\ c = stored.commitIndex \/ c <= Len(stored.log)
                       /\ acked = [stored EXCEPT !.commitIndex = c]
  BY <1>1, <1>5, <1>7, AdvanceCommitType
<1> HIDE DEF acked
<1>9. /\ acked \in Node /\ acked.state = stored.state
      /\ acked.nextIndex = stored.nextIndex /\ acked.commitIndex = c
  BY <1>7, <1>8 DEF Node
<1>10. node' \in [Server -> Node] /\ disk' \in [Server -> HardState] /\ LeaderNext'
  <2>1. CASE UNCHANGED <<node, disk, committed>>
    BY <2>1 DEF TypeInv, TypeOK, LeaderNext
  <2>2. CASE Persist(i, stepDownLocked(n, resp.term))
    BY <1>1, <2>2, StepDownType, PersistType
  <2>3. CASE PersistIf(FALSE, i, acked)
    BY <1>1, <1>7, <1>9, <2>3, PersistType
  <2>4. CASE PersistIf(FALSE, i, walkBack(n, p))
    <3>1. PICK next \in [Server -> Nat] :
            /\ walkBack(n, p) = [n EXCEPT !.nextIndex = next]
            /\ (\A q \in Server : n.nextIndex[q] >= 1) => \A q \in Server : next[q] >= 1
      BY <1>1, WalkBackType
    <3>2. /\ walkBack(n, p) \in Node /\ walkBack(n, p).state = n.state
          /\ walkBack(n, p).nextIndex = next
      BY <1>1, <3>1 DEF Node
    <3>3. QED
      BY <1>1, <1>4, <2>4, <3>1, <3>2, PersistType
  <2>5. QED
    BY <1>2, <2>1, <2>2, <2>3, <2>4
<1>11. committed' \subseteq Seq(Entry)
  <2>1. CASE UNCHANGED committed
    BY <2>1 DEF TypeInv, TypeOK
  <2>2. CASE /\ acked.commitIndex # n.commitIndex
             /\ committed' = committed \cup {SubSeq(n.log, 1, acked.commitIndex)}
    <3>1. c <= Len(n.log)
      BY <1>7, <1>8, <1>9, <2>2
    <3>2. SubSeq(n.log, 1, c) \in Seq(Entry)
      BY <1>5, <3>1
    <3>3. QED
      BY <1>9, <2>2, <3>2 DEF TypeInv, TypeOK
  <2>3. QED
    BY <1>2, <2>1, <2>2
<1>12. QED
  BY <1>3, <1>10, <1>11 DEF TypeInv, TypeOK

\* A restart from Storage keeps the types.
LEMMA TypeRestart ==
  ASSUME TypeInv, NEW i \in Server, Restart(i)
  PROVE  TypeInv'
<1>1. NewNode(disk[i]) \in Node /\ NewNode(disk[i]).state = "follower"
  BY NewNodeType DEF TypeInv, TypeOK
<1>2. /\ node' = [node EXCEPT ![i] = NewNode(disk[i])]
      /\ UNCHANGED <<disk, history>> /\ restarts' = restarts + 1
      /\ voteReq' \subseteq voteReq /\ voteResp' \subseteq voteResp
      /\ appendReq' \subseteq appendReq /\ appendResp' \subseteq appendResp
  BY DEF Restart
<1>3. node' \in [Server -> Node]
  BY <1>1, <1>2 DEF TypeInv, TypeOK
<1>4. LeaderNext'
  BY <1>1, <1>2 DEF TypeInv, TypeOK, LeaderNext
<1>5. QED
  BY <1>2, <1>3, <1>4 DEF TypeInv, TypeOK, history

\* Every step of the cluster keeps the types.
LEMMA TypeNext == TypeInv /\ [Next]_vars => TypeInv'
<1> SUFFICES ASSUME TypeInv, [Next]_vars PROVE TypeInv'
  OBVIOUS
<1>1. CASE CallFails
  <2>1. /\ voteReq' \subseteq voteReq /\ voteResp' \subseteq voteResp
        /\ appendReq' \subseteq appendReq /\ appendResp' \subseteq appendResp
        /\ UNCHANGED <<node, disk, history, restarts>>
    BY <1>1 DEF CallFails
  <2>2. QED
    BY <2>1 DEF TypeInv, TypeOK, LeaderNext, history
<1>2. CASE UNCHANGED vars
  BY <1>2 DEF vars, calls, history, TypeInv, TypeOK, LeaderNext
<1>3. QED
  BY <1>1, <1>2, TypeElection, TypeRequestVote, TypeVoteReply, TypePropose,
     TypeReplicate, TypeAppendEntries, TypeAppendReply, TypeRestart DEF Next

\* The strengthened type invariant holds in every reachable state.
LEMMA TypeInvariant == Spec => []TypeInv
<1>1. QED
  BY TypeInit, TypeNext, PTL DEF Spec

\* Every reachable state of the node code is well typed: in particular the
\* slice replicateTo takes of the log never starts below the first entry, and
\* the merge of HandleAppendEntries never reads past the end of the log.
THEOREM TypeCorrect == Spec => []TypeOK
<1>1. TypeInv => TypeOK
  BY DEF TypeInv
<1>2. QED
  BY <1>1, TypeInvariant, PTL

-----------------------------------------------------------------------------
(* Election safety.  ElectionSafety is not inductive: it rests on where the *)
(* votes a leader counted come from.  A granted vote stays in ballots, the  *)
(* voter's term and vote remember it (also on disk, so also after a         *)
(* restart), and two majorities share a voter.                              *)

\* No node forgets a vote of its current term.
BallotsRemembered ==
  \A b \in ballots : /\ b[2] <= node[b[1]].term
                     /\ b[2] = node[b[1]].term => node[b[1]].votedFor = b[3]

\* A reply that grants a vote follows a vote really granted.
RepliesHonest ==
  \A r \in voteResp : r.granted => <<r.peer, r.reqTerm, r.caller>> \in ballots

\* A candidate counts only votes granted to it in its current term.
VotesReal ==
  \A i \in Server : node[i].state = "candidate" =>
    \A q \in node[i].votes : <<q, node[i].term, i>> \in ballots

\* A majority granted its vote to every leader there has been.
LeadersElected ==
  \A e \in elections : \E Q \in SUBSET Server :
    Majority(Q) /\ \A q \in Q : <<q, e[1], e[2]>> \in ballots

ElectionInv ==
  /\ Durable /\ VoteOnce
  /\ BallotsRemembered /\ RepliesHonest /\ VotesReal /\ LeadersElected

\* Two majorities of the cluster share a node.
LEMMA MajoritiesMeet ==
  ASSUME NEW Q \in SUBSET Server, NEW R \in SUBSET Server, Majority(Q), Majority(R)
  PROVE  \E q \in Server : q \in Q /\ q \in R
<1>1. IsFiniteSet(Server)
  BY ServerAssumption
<1>2. Cardinality(Q) \in Nat /\ Cardinality(R) \in Nat /\ Cardinality(Server) \in Nat
  BY <1>1, FS_Subset, FS_CardinalityType
<1>3. Cardinality(Q) + Cardinality(R) > Cardinality(Server)
  BY <1>2 DEF Majority
<1>4. Q \cap R # {}
  BY <1>1, <1>3, FS_MajoritiesIntersect
<1>5. QED
  BY <1>4

\* The inductive invariant is strong enough for ElectionSafety.
LEMMA ElectionInvImplies == TypeInv /\ ElectionInv => ElectionSafety
<1> SUFFICES ASSUME TypeInv, ElectionInv, NEW e \in elections, NEW f \in elections,
                    e[1] = f[1]
             PROVE  e[2] = f[2]
  BY DEF ElectionSafety
<1>1. PICK Q \in SUBSET Server : Majority(Q) /\ \A q \in Q : <<q, e[1], e[2]>> \in ballots
  BY DEF ElectionInv, LeadersElected
<1>2. PICK R \in SUBSET Server : Majority(R) /\ \A q \in R : <<q, f[1], f[2]>> \in ballots
  BY DEF ElectionInv, LeadersElected
<1>3. PICK q \in Server : q \in Q /\ q \in R
  BY <1>1, <1>2, MajoritiesMeet
<1>4. <<q, e[1], e[2]>> \in ballots /\ <<q, f[1], f[2]>> \in ballots
  BY <1>1, <1>2, <1>3
<1>5. QED
  BY <1>4 DEF ElectionInv, VoteOnce

\* A step that grants no vote: node i's struct becomes m, whose term does not
\* go back, whose vote changes only with the term, and which is a candidate
\* only if it was, in the same term, and counts granted votes only.
Quiet(i, m) ==
  /\ m \in Node
  /\ node' = [node EXCEPT ![i] = m]
  /\ disk' = [disk EXCEPT ![i] = HardStateOf(m)]
  /\ m.term >= node[i].term
  /\ m.term = node[i].term => m.votedFor = node[i].votedFor
  /\ m.state = "candidate" => \A q \in m.votes : <<q, m.term, i>> \in ballots
  /\ ballots' = ballots
  /\ voteResp' \subseteq voteResp

\* A quiet step keeps every conjunct of ElectionInv about votes.
LEMMA QuietStep ==
  ASSUME TypeInv, ElectionInv, NEW i \in Server, NEW m, Quiet(i, m)
  PROVE  Durable' /\ VoteOnce' /\ BallotsRemembered' /\ RepliesHonest' /\ VotesReal'
<1>1. node \in [Server -> Node] /\ disk \in [Server -> HardState]
  BY DEF TypeInv, TypeOK
<1>2. \A j \in Server : node'[j] = IF j = i THEN m ELSE node[j]
  BY <1>1 DEF Quiet
<1>3. \A j \in Server : disk'[j] = IF j = i THEN HardStateOf(m) ELSE disk[j]
  BY <1>1 DEF Quiet
<1>4. Durable'
  BY <1>2, <1>3 DEF ElectionInv, Durable, HardStateOf
<1>5. VoteOnce'
  BY DEF Quiet, ElectionInv, VoteOnce
<1>6. BallotsRemembered'
  <2> SUFFICES ASSUME NEW b \in ballots
               PROVE  /\ b[2] <= node'[b[1]].term
                      /\ b[2] = node'[b[1]].term => node'[b[1]].votedFor = b[3]
    BY DEF Quiet, BallotsRemembered
  <2>1. b[1] \in Server /\ b[2] \in Nat
    BY DEF TypeInv, TypeOK
  <2>2. /\ b[2] <= node[b[1]].term
        /\ b[2] = node[b[1]].term => node[b[1]].votedFor = b[3]
    BY DEF ElectionInv, BallotsRemembered
  <2>3. m.term \in Nat /\ node[b[1]].term \in Nat
    BY <1>1, <2>1 DEF Quiet, Node
  <2>4. CASE b[1] = i
    BY <1>2, <2>1, <2>2, <2>3, <2>4 DEF Quiet
  <2>5. CASE b[1] # i
    BY <1>2, <2>1, <2>2, <2>5
  <2>6. QED
    BY <2>4, <2>5
<1>7. RepliesHonest'
  BY DEF Quiet, ElectionInv, RepliesHonest
<1>8. VotesReal'
  BY <1>2 DEF Quiet, ElectionInv, VotesReal
<1>9. QED
  BY <1>4, <1>5, <1>6, <1>7, <1>8

\* A critical section that skips persistLocked must leave the hard state as
\* it is; then Storage still holds what persistLocked would have written.
LEMMA PersistIfDurable ==
  ASSUME TypeInv, Durable, NEW i \in Server, NEW m \in Node, NEW changed \in BOOLEAN,
         PersistIf(changed, i, m),
         ~changed => HardStateOf(m) = HardStateOf(node[i])
  PROVE  /\ node' = [node EXCEPT ![i] = m]
         /\ disk' = [disk EXCEPT ![i] = HardStateOf(m)]
<1>1. disk \in [Server -> HardState] /\ disk[i] = HardStateOf(node[i])
  BY DEF TypeInv, TypeOK, Durable
<1>2. CASE changed
  BY <1>2 DEF PersistIf, Persist
<1>3. CASE ~changed
  <2>1. node' = [node EXCEPT ![i] = m] /\ disk' = disk
    BY <1>3 DEF PersistIf
  <2>2. disk = [disk EXCEPT ![i] = HardStateOf(m)]
    BY <1>1, <1>3
  <2>3. QED
    BY <2>1, <2>2
<1>4. QED
  BY <1>2, <1>3

\* An old leader keeps its majority: votes are never taken back.
LEMMA LeadersKept ==
  ASSUME ElectionInv, ballots \subseteq ballots', elections' = elections
  PROVE  LeadersElected'
BY DEF ElectionInv, LeadersElected, Majority

\* A new leader with a majority of granted votes keeps LeadersElected.
LEMMA LeaderAdded ==
  ASSUME ElectionInv, ballots \subseteq ballots', NEW t, NEW i,
         elections' = elections \cup {<<t, i>>},
         NEW Q \in SUBSET Server, Majority(Q), \A q \in Q : <<q, t, i>> \in ballots'
  PROVE  LeadersElected'
<1> SUFFICES ASSUME NEW e \in elections'
             PROVE  \E R \in SUBSET Server :
                      Majority(R) /\ \A q \in R : <<q, e[1], e[2]>> \in ballots'
  BY DEF LeadersElected, Majority
<1>1. CASE e \in elections
  BY <1>1 DEF ElectionInv, LeadersElected
<1>2. CASE e = <<t, i>>
  BY <1>2
<1>3. QED
  BY <1>1, <1>2

\* ElectionInv holds in a freshly started cluster.
LEMMA ElectionInit == Init => ElectionInv
<1> SUFFICES ASSUME Init PROVE ElectionInv
  OBVIOUS
<1>1. ZeroHardState \in HardState
  BY DEF ZeroHardState, HardState
<1>2. /\ NewNode(ZeroHardState).state = "follower"
      /\ HardStateOf(NewNode(ZeroHardState)) = ZeroHardState
  BY <1>1, NewNodeType DEF HardStateOf, ZeroHardState
<1>3. Durable
  BY <1>2 DEF Init, Durable
<1>4. VotesReal
  BY <1>2 DEF Init, VotesReal
<1>5. QED
  BY <1>3, <1>4 DEF Init, ElectionInv, VoteOnce, BallotsRemembered,
                    RepliesHonest, LeadersElected

\* startElection votes in a term above every vote the node ever gave.
LEMMA ElectionStart ==
  ASSUME TypeInv, ElectionInv, NEW i \in Server, NEW P \in SUBSET (Server \ {i}),
         startElection(i, P)
  PROVE  ElectionInv'
<1> DEFINE n == [node[i] EXCEPT !.state = "candidate", !.term = @ + 1,
                                !.votedFor = i, !.votes = {i}]
           b0 == <<i, n.term, i>>
<1>1. node[i] \in Node /\ node \in [Server -> Node] /\ disk \in [Server -> HardState]
  BY DEF TypeInv, TypeOK
<1>2. /\ n.state = "candidate" /\ n.term = node[i].term + 1
      /\ n.votedFor = i /\ n.votes = {i} /\ node[i].term \in Nat
  BY <1>1 DEF Node
<1>3. n \in Node
  BY <1>1, CandidateType
<1>4. /\ ballots' = ballots \cup {b0} /\ UNCHANGED voteResp
      /\ \/ /\ Majority(n.votes) /\ Persist(i, becomeLeaderLocked(n))
            /\ elections' = elections \cup {<<n.term, i>>}
         \/ Persist(i, n) /\ elections' = elections
  BY DEF startElection
<1> HIDE DEF n
<1>5. PICK m \in Node : /\ Persist(i, m) /\ m.term = n.term /\ m.votedFor = i
                        /\ m.state = "candidate" => m = n
  BY <1>2, <1>3, <1>4, BecomeLeaderType
<1>6. \A j \in Server : /\ node'[j] = IF j = i THEN m ELSE node[j]
                        /\ disk'[j] = IF j = i THEN HardStateOf(m) ELSE disk[j]
  BY <1>1, <1>5 DEF Persist
<1>7. \A b \in ballots : b[1] = i => b[2] < n.term
  <2> SUFFICES ASSUME NEW b \in ballots, b[1] = i PROVE b[2] < n.term
    OBVIOUS
  <2>1. b[2] \in Nat /\ b[2] <= node[i].term
    BY DEF TypeInv, TypeOK, ElectionInv, BallotsRemembered
  <2>2. QED
    BY <1>2, <2>1
<1>8. Durable'
  BY <1>6 DEF ElectionInv, Durable, HardStateOf
<1>9. VoteOnce'
  <2> SUFFICES ASSUME NEW b \in ballots \cup {b0}, NEW c \in ballots \cup {b0},
                      b[1] = c[1], b[2] = c[2]
               PROVE  b[3] = c[3]
    BY <1>4 DEF VoteOnce
  <2>1. ~(b \in ballots /\ c = b0) /\ ~(c \in ballots /\ b = b0)
    BY <1>2, <1>7
  <2>2. QED
    BY <2>1 DEF ElectionInv, VoteOnce
<1>10. BallotsRemembered'
  <2> SUFFICES ASSUME NEW b \in ballots \cup {b0}
               PROVE  /\ b[2] <= node'[b[1]].term
                      /\ b[2] = node'[b[1]].term => node'[b[1]].votedFor = b[3]
    BY <1>4 DEF BallotsRemembered
  <2>1. CASE b = b0
    BY <1>2, <1>5, <1>6, <2>1
  <2>2. CASE b \in ballots /\ b[1] = i
    <3>1. b[2] \in Nat /\ b[2] < m.term /\ m.term \in Nat
      BY <1>2, <1>5, <1>7, <2>2 DEF TypeInv, TypeOK
    <3>2. QED
      BY <1>6, <2>2, <3>1
  <2>3. CASE b \in ballots /\ b[1] # i
    <3>1. b[1] \in Server
      BY <2>3 DEF TypeInv, TypeOK
    <3>2. QED
      BY <1>6, <2>3, <3>1 DEF ElectionInv, BallotsRemembered
  <2>4. QED
    BY <2>1, <2>2, <2>3
<1>11. RepliesHonest'
  BY <1>4 DEF ElectionInv, RepliesHonest
<1>12. VotesReal'
  BY <1>2, <1>4, <1>5, <1>6 DEF ElectionInv, VotesReal
<1>13. LeadersElected'
  <2>1. CASE elections' = elections
    BY <1>4, <2>1, LeadersKept
  <2>2. CASE Majority(n.votes) /\ elections' = elections \cup {<<n.term, i>>}
    BY <1>2, <1>4, <2>2, LeaderAdded
  <2>3. QED
    BY <1>4, <2>1, <2>2
<1>14. QED
  BY <1>8, <1>9, <1>10, <1>11, <1>12, <1>13 DEF ElectionInv

\* HandleRequestVote grants a vote only to the candidate the node already
\* chose in this term, if it chose one.
LEMMA ElectionRequestVote ==
  ASSUME TypeInv, ElectionInv, NEW req \in voteReq, HandleRequestVote(req)
  PROVE  ElectionInv'
<1> DEFINE i == req.peer
           higher == req.term > node[i].term
           n == IF higher THEN stepDownLocked(node[i], req.term) ELSE node[i]
           granted == /\ req.term = n.term
                      /\ n.votedFor \in {Nil, req.caller}
                      /\ upToDate(req, n.log)
           m == IF granted THEN [n EXCEPT !.votedFor = req.caller] ELSE n
           resp == [caller |-> req.caller, peer |-> i, reqTerm |-> req.term,
                    term |-> n.term, granted |-> granted]
           b0 == <<i, req.term, req.caller>>
<1>1. /\ i \in Server /\ req.caller \in Server /\ req.term \in Nat
      /\ node[i] \in Node /\ node[i].term \in Nat
      /\ node \in [Server -> Node] /\ disk \in [Server -> HardState]
  BY DEF TypeInv, TypeOK, VoteReq, Node
<1>2. /\ PersistIf(higher \/ granted, i, m)
      /\ voteResp' = voteResp \cup {resp}
      /\ ballots' = IF granted THEN ballots \cup {b0} ELSE ballots
      /\ elections' = elections
  BY DEF HandleRequestVote
<1>3. /\ n \in Node
      /\ ~higher => n = node[i]
      /\ higher => n.term = req.term /\ n.votedFor = Nil /\ n.state = "follower"
  BY <1>1, StepDownType
<1>4. granted \in BOOLEAN /\ higher \in BOOLEAN
  BY DEF upToDate
<1>5. granted => req.term = n.term /\ n.votedFor \in {Nil, req.caller}
  OBVIOUS
<1>6. higher => req.term > node[i].term
  OBVIOUS
<1> HIDE DEF i, higher, n, granted
<1>7. /\ m \in Node /\ m.term = n.term /\ m.state = n.state /\ m.votes = n.votes
      /\ granted => m.votedFor = req.caller
      /\ ~granted => m = n
  BY <1>1, <1>3 DEF Node
<1> HIDE DEF m
<1>8. /\ node' = [node EXCEPT ![i] = m]
      /\ disk' = [disk EXCEPT ![i] = HardStateOf(m)]
  <2>1. (higher \/ granted) \in BOOLEAN
    BY <1>4
  <2>2. ~(higher \/ granted) => m = node[i]
    BY <1>3, <1>7
  <2>3. QED
    BY <1>1, <1>2, <1>7, <2>1, <2>2, PersistIfDurable DEF ElectionInv
<1>9. \A j \in Server : /\ node'[j] = IF j = i THEN m ELSE node[j]
                        /\ disk'[j] = IF j = i THEN HardStateOf(m) ELSE disk[j]
  BY <1>1, <1>8
\* What the node remembers after stepping down, before the vote.
<1>10. \A b \in ballots : b[1] = i => /\ b[2] \in Nat /\ b[3] \in Server
                                      /\ b[2] <= n.term
                                      /\ b[2] = n.term => n.votedFor = b[3]
  <2> SUFFICES ASSUME NEW b \in ballots, b[1] = i
               PROVE  /\ b[2] \in Nat /\ b[3] \in Server /\ b[2] <= n.term
                      /\ b[2] = n.term => n.votedFor = b[3]
    OBVIOUS
  <2>1. /\ b[2] \in Nat /\ b[3] \in Server /\ b[2] <= node[i].term
        /\ b[2] = node[i].term => node[i].votedFor = b[3]
    BY DEF TypeInv, TypeOK, ElectionInv, BallotsRemembered
  <2>2. QED
    BY <1>1, <1>3, <1>6, <2>1
<1>11. \A b \in ballots : granted /\ b[1] = i /\ b[2] = req.term => b[3] = req.caller
  BY <1>5, <1>10, NilAssumption
<1>12. Durable'
  BY <1>9 DEF ElectionInv, Durable, HardStateOf
<1>13. VoteOnce'
  <2>1. CASE ~granted
    BY <1>2, <2>1 DEF ElectionInv, VoteOnce
  <2>2. CASE granted
    <3> SUFFICES ASSUME NEW b \in ballots \cup {b0}, NEW c \in ballots \cup {b0},
                        b[1] = c[1], b[2] = c[2]
                 PROVE  b[3] = c[3]
      BY <1>2, <2>2 DEF VoteOnce
    <3>1. CASE b \in ballots /\ c \in ballots
      BY <3>1 DEF ElectionInv, VoteOnce
    <3>2. CASE b = b0 /\ c \in ballots
      BY <1>11, <2>2, <3>2
    <3>3. CASE c = b0 /\ b \in ballots
      BY <1>11, <2>2, <3>3
    <3>4. QED
      BY <3>1, <3>2, <3>3
  <2>3. QED
    BY <2>1, <2>2
<1>14. BallotsRemembered'
  <2> SUFFICES ASSUME NEW b \in ballots'
               PROVE  /\ b[2] <= node'[b[1]].term
                      /\ b[2] = node'[b[1]].term => node'[b[1]].votedFor = b[3]
    BY DEF BallotsRemembered
  <2>1. CASE b \notin ballots
    <3>1. granted /\ b = b0
      BY <1>2, <2>1
    <3>2. QED
      BY <1>1, <1>5, <1>7, <1>9, <3>1
  <2>2. CASE b \in ballots /\ b[1] = i
    <3>1. m.term = n.term /\ (b[2] = n.term => m.votedFor = b[3])
      BY <1>5, <1>7, <1>10, <1>11, <2>2
    <3>2. QED
      BY <1>1, <1>9, <1>10, <2>2, <3>1
  <2>3. CASE b \in ballots /\ b[1] # i
    <3>1. b[1] \in Server
      BY <2>3 DEF TypeInv, TypeOK
    <3>2. QED
      BY <1>9, <2>3, <3>1 DEF ElectionInv, BallotsRemembered
  <2>4. QED
    BY <2>1, <2>2, <2>3
<1>15. ballots \subseteq ballots'
  BY <1>2
<1>16. RepliesHonest'
  <2>1. resp.granted => <<resp.peer, resp.reqTerm, resp.caller>> \in ballots'
    BY <1>2
  <2>2. QED
    BY <1>2, <1>15, <2>1 DEF ElectionInv, RepliesHonest
<1>17. VotesReal'
  <2> SUFFICES ASSUME NEW j \in Server, node'[j].state = "candidate",
                      NEW q \in node'[j].votes
               PROVE  <<q, node'[j].term, j>> \in ballots'
    BY DEF VotesReal
  <2>1. /\ node[j].state = "candidate" /\ node'[j].votes = node[j].votes
        /\ node'[j].term = node[j].term
    BY <1>3, <1>7, <1>9
  <2>2. QED
    BY <1>15, <2>1 DEF ElectionInv, VotesReal
<1>18. LeadersElected'
  BY <1>2, <1>15, LeadersKept
<1>19. QED
  BY <1>12, <1>13, <1>14, <1>16, <1>17, <1>18 DEF ElectionInv

\* Stepping down grants no vote, and keeps the vote unless the term changes.
LEMMA QuietStepDown ==
  ASSUME TypeInv, NEW i \in Server, NEW t \in Nat, t > node[i].term,
         Persist(i, stepDownLocked(node[i], t)),
         ballots' = ballots, voteResp' \subseteq voteResp
  PROVE  Quiet(i, stepDownLocked(node[i], t))
<1>1. node[i] \in Node /\ node[i].term \in Nat
  BY DEF TypeInv, TypeOK, Node
<1> DEFINE m == stepDownLocked(node[i], t)
<1>2. m \in Node /\ m.state = "follower" /\ m.term = t
  BY <1>1, StepDownType
<1> HIDE DEF m
<1>3. /\ node' = [node EXCEPT ![i] = m]
      /\ disk' = [disk EXCEPT ![i] = HardStateOf(m)]
  BY DEF Persist, m
<1>4. m.term >= node[i].term /\ m.term # node[i].term /\ m.state # "candidate"
  BY <1>1, <1>2
<1>5. Quiet(i, m)
  BY <1>2, <1>3, <1>4 DEF Quiet
<1>6. QED
  BY <1>5 DEF m

\* A step that leaves the nodes, the disks and the votes alone.
LEMMA NothingCast ==
  ASSUME ElectionInv, UNCHANGED <<node, disk, ballots, elections>>,
         voteResp' \subseteq voteResp
  PROVE  ElectionInv'
BY DEF ElectionInv, Durable, VoteOnce, BallotsRemembered, RepliesHonest, VotesReal,
       LeadersElected, HardStateOf, Majority

\* A candidate counts the vote the reply grants, and no other.
LEMMA ElectionVoteReply ==
  ASSUME TypeInv, ElectionInv, NEW resp \in voteResp, VoteReply(resp)
  PROVE  ElectionInv'
<1> DEFINE i == resp.caller
           n == node[i]
           votes == n.votes \cup {resp.peer}
           m == [n EXCEPT !.votes = votes]
<1>1. /\ i \in Server /\ resp.peer \in Server /\ resp.term \in Nat
      /\ n \in Node
  BY DEF TypeInv, TypeOK, VoteResp
<1>2. voteResp' \subseteq voteResp /\ ballots' = ballots
  BY DEF VoteReply
<1>3. CASE /\ resp.term > n.term
           /\ Persist(i, stepDownLocked(n, resp.term))
           /\ elections' = elections
  <2>1. Quiet(i, stepDownLocked(n, resp.term))
    BY <1>1, <1>2, <1>3, QuietStepDown
  <2>2. QED
    BY <1>1, <1>2, <1>3, <2>1, QuietStep, LeadersKept DEF ElectionInv
<1>4. CASE UNCHANGED <<node, disk, elections>>
  BY <1>2, <1>4, NothingCast
<1>5. CASE /\ n.state = "candidate" /\ n.term = resp.reqTerm /\ resp.granted
           /\ \/ /\ Majority(votes)
                 /\ Persist(i, becomeLeaderLocked(m))
                 /\ elections' = elections \cup {<<n.term, i>>}
              \/ /\ PersistIf(FALSE, i, m)
                 /\ elections' = elections
  <2>1. \A q \in votes : <<q, n.term, i>> \in ballots
    BY <1>1, <1>5 DEF ElectionInv, VotesReal, RepliesHonest
  <2>2. votes \in SUBSET Server
    BY <1>1 DEF Node
  <2> HIDE DEF votes
  <2>3. /\ m \in Node /\ m.term = n.term /\ m.votedFor = n.votedFor
        /\ m.votes = votes /\ m.log = n.log
    BY <1>1, <2>2 DEF Node
  <2> HIDE DEF m
  <2>4. CASE /\ Majority(votes)
             /\ Persist(i, becomeLeaderLocked(m))
             /\ elections' = elections \cup {<<n.term, i>>}
    <3>1. n.term \in Nat
      BY <1>1 DEF Node
    <3>2. Quiet(i, becomeLeaderLocked(m))
      BY <1>1, <1>2, <2>3, <2>4, <3>1, BecomeLeaderType DEF Quiet, Persist
    <3>3. LeadersElected'
      BY <1>2, <2>1, <2>2, <2>4, LeaderAdded
    <3>4. QED
      BY <1>1, <3>2, <3>3, QuietStep DEF ElectionInv
  <2>5. CASE PersistIf(FALSE, i, m) /\ elections' = elections
    <3>1. HardStateOf(m) = HardStateOf(n)
      BY <2>3 DEF HardStateOf
    <3>2. /\ node' = [node EXCEPT ![i] = m]
          /\ disk' = [disk EXCEPT ![i] = HardStateOf(m)]
      BY <1>1, <2>3, <2>5, <3>1, PersistIfDurable DEF ElectionInv
    <3>3. n.term \in Nat
      BY <1>1 DEF Node
    <3>4. Quiet(i, m)
      BY <1>1, <1>2, <2>1, <2>3, <3>2, <3>3 DEF Quiet
    <3>5. QED
      BY <1>1, <1>2, <2>5, <3>4, QuietStep, LeadersKept DEF ElectionInv
  <2>6. QED
    BY <1>5, <2>4, <2>5
<1>6. QED
  BY <1>3, <1>4, <1>5 DEF VoteReply

\* Propose changes the log only.
LEMMA ElectionPropose ==
  ASSUME TypeInv, TypeInv', ElectionInv, NEW i \in Server, NEW cmd \in Cmd,
         Propose(i, cmd)
  PROVE  ElectionInv'
<1> DEFINE m == [node[i] EXCEPT !.log = Append(@, [term |-> node[i].term, cmd |-> cmd])]
<1>1. node[i] \in Node /\ node \in [Server -> Node] /\ node[i].term \in Nat
  BY DEF TypeInv, TypeOK, Node
<1>2. /\ Persist(i, m) /\ node[i].state = "leader"
      /\ UNCHANGED <<voteResp, ballots, elections>>
  BY DEF Propose, calls, history
<1>3. /\ m.state = node[i].state /\ m.term = node[i].term
      /\ m.votedFor = node[i].votedFor
  BY <1>1 DEF Node
<1> HIDE DEF m
<1>4. m \in Node
  <2>1. node'[i] = m
    BY <1>1, <1>2 DEF Persist
  <2>2. QED
    BY <2>1 DEF TypeInv, TypeOK
<1>5. Quiet(i, m)
  BY <1>1, <1>2, <1>3, <1>4 DEF Quiet, Persist
<1>6. QED
  BY <1>2, <1>5, QuietStep, LeadersKept DEF ElectionInv

\* HandleAppendEntries may raise the term and change the log, but casts no vote.
LEMMA ElectionAppendEntries ==
  ASSUME TypeInv, TypeInv', ElectionInv, NEW req \in appendReq,
         HandleAppendEntries(req)
  PROVE  ElectionInv'
<1> DEFINE i == req.peer
           higher == req.term > node[i].term
           n == IF higher THEN stepDownLocked(node[i], req.term) ELSE node[i]
           accepted == req.term = n.term
           lastNew == req.prevLogIndex + Len(req.entries)
           success == /\ accepted
                      /\ req.prevLogIndex <= Len(n.log)
                      /\ termAtLocked(n.log, req.prevLogIndex) = req.prevLogTerm
           merged == MergeEntries(n.log, req.prevLogIndex, req.entries)
           commit == IF req.leaderCommit <= n.commitIndex THEN n.commitIndex
                     ELSE IF req.leaderCommit < lastNew THEN req.leaderCommit
                     ELSE lastNew
           m == CASE ~accepted -> n
                  [] accepted /\ ~success -> [n EXCEPT !.state = "follower"]
                  [] success -> [n EXCEPT !.state = "follower", !.log = merged,
                                          !.commitIndex = commit]
           save == higher \/ (success /\ merged # n.log)
<1>1. /\ i \in Server /\ req.term \in Nat /\ node[i] \in Node /\ node[i].term \in Nat
      /\ node \in [Server -> Node]
  BY DEF TypeInv, TypeOK, AppendReq, Node
<1>2. /\ PersistIf(save, i, m)
      /\ UNCHANGED <<voteResp, ballots, elections>>
  BY DEF HandleAppendEntries, history
<1>3. /\ n \in Node
      /\ ~higher => n = node[i]
      /\ higher => n.term = req.term /\ n.state = "follower"
  BY <1>1, StepDownType
<1>4. /\ higher => req.term > node[i].term
      /\ higher \in BOOLEAN /\ save \in BOOLEAN /\ accepted \in BOOLEAN
      /\ success \in BOOLEAN /\ (success => accepted)
      /\ ~save => ~higher /\ (success => merged = n.log)
  OBVIOUS
<1> HIDE DEF i, n, higher, save, success, accepted, merged, commit
<1>5. /\ m.term = n.term /\ m.votedFor = n.votedFor
      /\ m.state = "candidate" => m = n
      /\ m.log = IF success THEN merged ELSE n.log
  BY <1>3, <1>4 DEF Node
<1> HIDE DEF m
<1>6. m \in Node
  <2>1. node'[i] = m
    BY <1>1, <1>2 DEF Persist, PersistIf
  <2>2. QED
    BY <1>1, <2>1 DEF TypeInv, TypeOK
<1>7. ~save => HardStateOf(m) = HardStateOf(node[i])
  BY <1>3, <1>4, <1>5 DEF HardStateOf
<1>8. /\ node' = [node EXCEPT ![i] = m]
      /\ disk' = [disk EXCEPT ![i] = HardStateOf(m)]
  BY <1>1, <1>2, <1>4, <1>6, <1>7, PersistIfDurable DEF ElectionInv
<1>9. m.state = "candidate" => \A q \in m.votes : <<q, m.term, i>> \in ballots
  BY <1>1, <1>3, <1>5 DEF ElectionInv, VotesReal
<1>10. m.term >= node[i].term /\ (m.term = node[i].term => m.votedFor = node[i].votedFor)
  BY <1>1, <1>3, <1>4, <1>5
<1>11. Quiet(i, m)
  BY <1>2, <1>6, <1>8, <1>9, <1>10 DEF Quiet
<1>12. QED
  BY <1>1, <1>2, <1>11, QuietStep, LeadersKept DEF ElectionInv

\* A leader that reads an AppendEntries reply casts no vote.
LEMMA ElectionAppendReply ==
  ASSUME TypeInv, TypeInv', ElectionInv, NEW resp \in appendResp, AppendReply(resp)
  PROVE  ElectionInv'
<1> DEFINE i == resp.caller
           p == resp.peer
           n == node[i]
           match == IF resp.lastNew > n.matchIndex[p] THEN resp.lastNew
                                                      ELSE n.matchIndex[p]
           acked == advanceCommitLocked([n EXCEPT !.matchIndex[p] = match,
                                                  !.nextIndex[p] = match + 1], i)
<1>1. /\ i \in Server /\ p \in Server /\ resp.term \in Nat /\ resp.lastNew \in Nat
      /\ n \in Node /\ n.term \in Nat /\ node \in [Server -> Node]
  BY DEF TypeInv, TypeOK, AppendResp, Node
<1>2. UNCHANGED <<voteResp, ballots, elections>>
  BY DEF AppendReply
<1>3. CASE resp.term > n.term /\ Persist(i, stepDownLocked(n, resp.term))
  <2>1. Quiet(i, stepDownLocked(n, resp.term))
    BY <1>1, <1>2, <1>3, QuietStepDown
  <2>2. QED
    BY <1>1, <1>2, <2>1, QuietStep, LeadersKept DEF ElectionInv
<1>4. CASE UNCHANGED <<node, disk>>
  BY <1>2, <1>4, NothingCast
<1>5. CASE /\ n.state = "leader"
           /\ PersistIf(FALSE, i, acked) \/ PersistIf(FALSE, i, walkBack(n, p))
  <2>1. PICK m : PersistIf(FALSE, i, m) /\ (m = acked \/ m = walkBack(n, p))
    BY <1>5
  <2>2. m \in Node
    <3>1. node'[i] = m
      BY <1>1, <2>1 DEF PersistIf
    <3>2. QED
      BY <1>1, <3>1 DEF TypeInv, TypeOK
  <2>3. /\ m.term = n.term /\ m.votedFor = n.votedFor /\ m.log = n.log
        /\ m.state = n.state
    <3>1. CASE m = walkBack(n, p)
      <4>1. PICK next \in [Server -> Nat] : m = [n EXCEPT !.nextIndex = next]
        BY <1>1, <3>1, WalkBackType
      <4>2. QED
        BY <1>1, <4>1 DEF Node
    <3>2. CASE m = acked
      <4> DEFINE mi == [n.matchIndex EXCEPT ![p] = match]
                 ni == [n.nextIndex EXCEPT ![p] = match + 1]
                 stored == [n EXCEPT !.matchIndex = mi, !.nextIndex = ni]
      <4>1. n.matchIndex \in [Server -> Nat] /\ n.nextIndex \in [Server -> Nat]
        BY <1>1 DEF Node
      <4>2. match \in Nat /\ match + 1 \in Nat
        BY <1>1, <4>1
      <4> HIDE DEF match
      <4>3. mi \in [Server -> Nat]
        BY <4>1, <4>2
      <4>4. ni \in [Server -> Nat]
        BY <4>1, <4>2
      <4>5. m = advanceCommitLocked(stored, i)
        BY <3>2
      <4> HIDE DEF mi, ni
      <4>6. /\ stored \in Node /\ stored.term = n.term /\ stored.state = n.state
            /\ stored.votedFor = n.votedFor /\ stored.log = n.log
        BY <1>1, <4>3, <4>4 DEF Node
      <4> HIDE DEF stored
      <4>7. PICK c \in Nat : m = [stored EXCEPT !.commitIndex = c]
        BY <1>1, <4>5, <4>6, AdvanceCommitType
      <4>8. QED
        BY <4>6, <4>7 DEF Node
    <3>3. QED
      BY <2>1, <3>1, <3>2
  <2>4. HardStateOf(m) = HardStateOf(n)
    BY <2>3 DEF HardStateOf
  <2>5. /\ node' = [node EXCEPT ![i] = m]
        /\ disk' = [disk EXCEPT ![i] = HardStateOf(m)]
    BY <1>1, <2>1, <2>2, <2>4, PersistIfDurable DEF ElectionInv
  <2>6. Quiet(i, m)
    BY <1>1, <1>2, <1>5, <2>2, <2>3, <2>5 DEF Quiet
  <2>7. QED
    BY <1>1, <1>2, <2>6, QuietStep, LeadersKept DEF ElectionInv
<1>6. QED
  BY <1>3, <1>4, <1>5 DEF AppendReply

\* A restart brings back exactly the term and the vote the node had.
LEMMA ElectionRestart ==
  ASSUME TypeInv, ElectionInv, NEW i \in Server, Restart(i)
  PROVE  ElectionInv'
<1> DEFINE m == NewNode(disk[i])
<1>1. /\ disk \in [Server -> HardState] /\ disk[i] \in HardState
      /\ disk[i] = HardStateOf(node[i]) /\ node[i] \in Node /\ node[i].term \in Nat
  BY DEF TypeInv, TypeOK, ElectionInv, Durable, Node
<1>2. m \in Node /\ m.state = "follower" /\ HardStateOf(m) = disk[i]
  BY <1>1, NewNodeType DEF HardStateOf, HardState
<1>3. m.term = node[i].term /\ m.votedFor = node[i].votedFor
  BY <1>1, NewNodeType DEF HardStateOf
<1>4. /\ node' = [node EXCEPT ![i] = m] /\ UNCHANGED <<disk, ballots, elections>>
      /\ voteResp' \subseteq voteResp
  BY DEF Restart, history
<1> HIDE DEF m
<1>5. disk' = [disk EXCEPT ![i] = HardStateOf(m)]
  BY <1>1, <1>2, <1>4
<1>6. m.term >= node[i].term /\ m.state # "candidate"
  BY <1>1, <1>2, <1>3
<1>7. Quiet(i, m)
  BY <1>2, <1>3, <1>4, <1>5, <1>6 DEF Quiet
<1>8. QED
  BY <1>4, <1>7, QuietStep, LeadersKept DEF ElectionInv

\* ElectionInv is inductive relative to TypeInv.
LEMMA ElectionNext == TypeInv /\ TypeInv' /\ ElectionInv /\ [Next]_vars => ElectionInv'
<1> SUFFICES ASSUME TypeInv, TypeInv', ElectionInv, [Next]_vars PROVE ElectionInv'
  OBVIOUS
<1>1. CASE CallFails
  <2>1. voteResp' \subseteq voteResp /\ UNCHANGED <<node, disk, ballots, elections>>
    BY <1>1 DEF CallFails, history
  <2>2. QED
    BY <2>1, NothingCast
<1>2. CASE \E i, p \in Server : replicateTo(i, p)
  <2>1. UNCHANGED <<node, disk, voteResp, ballots, elections>>
    BY <1>2 DEF replicateTo, history
  <2>2. QED
    BY <2>1, NothingCast
<1>3. CASE UNCHANGED vars
  <2>1. UNCHANGED <<node, disk, voteResp, ballots, elections>>
    BY <1>3 DEF vars, calls, history
  <2>2. QED
    BY <2>1, NothingCast
<1>4. QED
  BY <1>1, <1>2, <1>3, ElectionStart, ElectionRequestVote, ElectionVoteReply,
     ElectionPropose, ElectionAppendEntries, ElectionAppendReply, ElectionRestart DEF Next

\* ElectionInv holds in every reachable state.
LEMMA ElectionInvariant == Spec => []ElectionInv
<1>1. QED
  BY TypeInit, TypeNext, ElectionInit, ElectionNext, PTL DEF Spec

\* No node votes twice in a term, however often it crashes and restarts.
THEOREM VotesOnce == Spec => []VoteOnce
<1>1. ElectionInv => VoteOnce
  BY DEF ElectionInv
<1>2. QED
  BY <1>1, ElectionInvariant, PTL

\* Storage is never behind the node when the mutex is free.
THEOREM AlwaysDurable == Spec => []Durable
<1>1. ElectionInv => Durable
  BY DEF ElectionInv
<1>2. QED
  BY <1>1, ElectionInvariant, PTL

\* No term has two leaders, for every cluster size and any number of crashes.
THEOREM OneLeaderPerTerm == Spec => []ElectionSafety
<1>1. QED
  BY TypeInvariant, ElectionInvariant, ElectionInvImplies, PTL

-----------------------------------------------------------------------------
(***************************************************************************)
(* What the nodes commit is never cut and agrees (CommittedNeverCut,       *)
(* StateMachineSafety).                                                    *)
(*                                                                         *)
(* The inductive invariant speaks of H, where H[t] is the longest log the  *)
(* leader of term t has had: every log, and the slice of a log that a call *)
(* carries, is made of prefixes of these.  H is no variable of Raft; the   *)
(* invariant says that some H explains the state.                          *)
(***************************************************************************)

\* For each term, the longest log its leader has had; empty when it has had none.
Histories == [Nat -> Seq(Entry)]

\* a and b have the same first n entries.
Agree(a, b, n) == n <= Len(a) /\ n <= Len(b) /\ \A k \in 1..n : a[k] = b[k]

\* Up to each of its entries, a log is what the leader of that entry's term had.
Explained(H, log) == \A k \in 1..Len(log) : Agree(log, H[log[k].term], k)

\* Terms do not decrease along a log of a node in term t.
Monotone(log, t) ==
  \A k \in 1..Len(log) : log[k].term <= t /\ \A m \in 1..k : log[m].term <= log[k].term

\* There has been a leader in term t.
Led(t) == \E l \in Server : <<t, l>> \in elections

\* A leader's log is itself made of the logs of the leaders of its entries' terms.
HistoryOK(H) ==
  \A t \in Nat :
    /\ Explained(H, H[t]) /\ Monotone(H[t], t)
    /\ H[t] # <<>> => Led(t)

\* So is the log of every node.
LogsOK(H) ==
  \A i \in Server : Explained(H, node[i].log) /\ Monotone(node[i].log, node[i].term)

\* A leader was elected, has all it ever had, and counts no entry it does not have.
LeadersOK(H) ==
  \A i \in Server :
    node[i].state = "leader" =>
      /\ <<node[i].term, i>> \in elections
      /\ node[i].log = H[node[i].term] /\ node[i].log # <<>>
      /\ \A p \in Server : /\ node[i].matchIndex[p] <= Len(node[i].log)
                           /\ node[i].nextIndex[p] <= Len(node[i].log) + 1

\* The first n entries of a log are known to be committed in term t.
Known(log, n, t) ==
  /\ n <= Len(log)
  /\ n > 0 => \E c \in committed : c[Len(c)].term <= t /\ Agree(log, c, n)

\* An AppendEntries call carries a slice of its leader's log.
RequestsOK(H) ==
  \A r \in appendReq :
    /\ H[r.term] # <<>>
    /\ r.prevLogIndex + Len(r.entries) <= Len(H[r.term])
    /\ r.prevLogTerm = termAtLocked(H[r.term], r.prevLogIndex)
    /\ \A k \in 1..Len(r.entries) : r.entries[k] = H[r.term][r.prevLogIndex + k]
    /\ Known(H[r.term], r.leaderCommit, r.term)

\* A peer answers with success for entries the leader has.
ResponsesOK(H) ==
  \A r \in appendResp : r.success => r.lastNew <= Len(H[r.reqTerm])

\* Nobody is elected twice in a term, votes are for terms a candidate has opened, and
\* a call for votes describes the candidate's log.
CandidatesOK ==
  /\ \A e \in elections : /\ e[1] <= node[e[2]].term
                          /\ e[1] = node[e[2]].term => node[e[2]].state # "candidate"
  /\ \A b \in ballots : b[2] <= node[b[3]].term
  /\ \A r \in voteReq :
       /\ r.term <= node[r.caller].term
       /\ r.term = node[r.caller].term /\ node[r.caller].state = "candidate" =>
            /\ r.lastLogIndex = Len(node[r.caller].log)
            /\ r.lastLogTerm = termAtLocked(node[r.caller].log, Len(node[r.caller].log))

\* What a node takes as committed some leader has declared committed.
CommitsKnown == \A i \in Server : Known(node[i].log, node[i].commitIndex, node[i].term)

\* q has told the leader of term t that it has the leader's first n entries.
Acked(t, n, q) ==
  \/ \E i \in Server : /\ node[i].state = "leader" /\ node[i].term = t
                       /\ node[i].matchIndex[q] >= n
  \/ \E r \in appendResp : r.peer = q /\ r.reqTerm = t /\ r.success /\ r.lastNew >= n

\* Position n in the log of the leader of term t holds an entry of that term.
Own(H, t, n) == n \in 1..Len(H[t]) /\ H[t][n].term = t

\* The leader of term t has, or may yet get, a majority for its first n entries.
Open(H, t, n) ==
  /\ Own(H, t, n)
  /\ \E Q \in SUBSET Server :
       Majority(Q) /\ \A q \in Q : node[q].term <= t \/ Acked(t, n, q)

\* The leader of term t has committed its first n entries.
Fixed(t, n) == \E c \in committed : Len(c) = n /\ c[n].term = t

\* q has these entries, and so has every candidate it voted for later.
Holds(H, t, n, q) ==
  /\ Agree(node[q].log, H[t], n)
  /\ \A j \in Server :
       node[j].state = "candidate" /\ node[j].term > t /\ <<q, node[j].term, j>> \in ballots =>
         Agree(node[j].log, H[t], n)

\* The leader of term t may have committed its first n entries.
Locked(H, t, n) == Open(H, t, n) \/ Fixed(t, n)

\* Later leaders have what an earlier one may have committed.
LaterLeadersHave(H) ==
  \A t, u, n \in Nat : Locked(H, t, n) /\ t < u /\ H[u] # <<>> => Agree(H[t], H[u], n)

\* Who has answered with success has reached the leader's term, and has the entries
\* for as long as they may be committed.
AcksHold(H) ==
  \A t \in Nat, n \in Nat \ {0}, q \in Server :
    Acked(t, n, q) => t <= node[q].term /\ (Open(H, t, n) => Holds(H, t, n, q))

\* A committed prefix is a leader's own, and a majority has it.
CommitsHeld(H) ==
  \A c \in committed :
    /\ c # <<>>
    /\ Agree(c, H[c[Len(c)].term], Len(c))
    /\ \E Q \in SUBSET Server :
         /\ Majority(Q)
         /\ \A q \in Q : /\ c[Len(c)].term <= node[q].term
                         /\ Holds(H, c[Len(c)].term, Len(c), q)

\* H explains the state.
LogInv(H) ==
  /\ H \in Histories
  /\ HistoryOK(H) /\ LogsOK(H) /\ LeadersOK(H) /\ RequestsOK(H) /\ ResponsesOK(H)
  /\ CommitsKnown
  /\ LaterLeadersHave(H) /\ AcksHold(H) /\ CommitsHeld(H)

\* The inductive invariant.
SafetyInv == CandidatesOK /\ \E H : LogInv(H)

-----------------------------------------------------------------------------
(* Logs that agree. *)

\* Logs that agree with one log up to an entry agree with each other.
LEMMA AgreeTrans ==
  ASSUME NEW a, NEW b, NEW c, NEW n, Agree(a, b, n), Agree(b, c, n)
  PROVE  Agree(a, c, n)
BY DEF Agree

\* Agreement up to an entry is agreement up to every earlier one.
LEMMA AgreeLess ==
  ASSUME NEW a, NEW b, NEW n \in Nat, NEW m \in Nat, m <= n, Agree(a, b, n)
  PROVE  Agree(a, b, m)
BY DEF Agree

\* Agreement has no direction.
LEMMA AgreeSym ==
  ASSUME NEW a, NEW b, NEW n, Agree(a, b, n)
  PROVE  Agree(b, a, n)
BY DEF Agree

\* G has the logs of H, some of them longer.
Extends(H, G) == \A t \in Nat : Agree(H[t], G[t], Len(H[t]))

\* A log has a length.
LEMMA LenType ==
  ASSUME NEW log \in Seq(Entry)
  PROVE  Len(log) \in Nat
OBVIOUS

\* The entries of a log have terms.
LEMMA EntryType ==
  ASSUME NEW log \in Seq(Entry), NEW k \in 1..Len(log)
  PROVE  log[k] \in Entry /\ log[k].term \in Nat
<1>1. log[k] \in Entry
  OBVIOUS
<1>2. QED
  BY <1>1 DEF Entry

\* A log stays explained while leaders append to theirs.
LEMMA ExplainedKept ==
  ASSUME NEW H, NEW G, Extends(H, G), NEW log \in Seq(Entry), Explained(H, log)
  PROVE  Explained(G, log)
<1> SUFFICES ASSUME NEW k \in 1..Len(log) PROVE Agree(log, G[log[k].term], k)
  BY DEF Explained
<1>1. log[k].term \in Nat
  BY EntryType
<1>2. k \in Nat
  BY LenType
<1>3. Agree(log, H[log[k].term], k)
  BY DEF Explained
<1> DEFINE old == H[log[k].term]
           new == G[log[k].term]
<1>4. Agree(old, new, Len(old))
  BY <1>1 DEF Extends
<1> HIDE DEF old, new
<1>5. k <= Len(old) /\ Agree(log, old, k)
  BY <1>3 DEF Agree, old
<1>6. Agree(old, new, k)
  BY <1>2, <1>4, <1>5 DEF Agree
<1>7. QED
  BY <1>5, <1>6, AgreeTrans DEF new

\* The consistency check of HandleAppendEntries at position n.
SameTerm(a, b, n) == termAtLocked(a, n) = termAtLocked(b, n)

\* The log HandleAppendEntries leaves, where the request carries entries of L: it has L up to
\* the last of them, it is the old log or ends there, and what the old log shared with
\* L is kept.
LEMMA MergeAgrees ==
  ASSUME NEW H, NEW log \in Seq(Entry), Explained(H, log),
         NEW L \in Seq(Entry), Explained(H, L), NEW prev \in Nat, NEW entries \in Seq(Entry),
         prev + Len(entries) <= Len(L), \A k \in 1..Len(entries) : entries[k] = L[prev + k],
         prev <= Len(log), SameTerm(log, L, prev)
  PROVE  LET merged == MergeEntries(log, prev, entries)
         IN  /\ merged \in Seq(Entry)
             /\ Agree(merged, L, prev + Len(entries))
             /\ merged = log \/ Len(merged) = prev + Len(entries)
             /\ \A n \in Nat : Agree(log, L, n) => Agree(log, merged, n)
<1> DEFINE Fresh == {k \in 1..Len(entries) :
                       prev + k > Len(log) \/ log[prev + k].term # entries[k].term}
           first == CHOOSE k \in Fresh : \A m \in Fresh : k <= m
           merged == MergeEntries(log, prev, entries)
           last == prev + Len(entries)
<1>1. Len(entries) \in Nat /\ Len(log) \in Nat /\ Len(L) \in Nat /\ last \in Nat
  OBVIOUS
<1>2. Fresh \in SUBSET Nat /\ Fresh \subseteq 1..Len(entries)
  BY <1>1
<1>3. \A k \in 1..Len(entries) :
        k \notin Fresh => prev + k <= Len(log) /\ log[prev + k].term = entries[k].term
  BY <1>1
<1>4. merged = IF Fresh = {} THEN log
               ELSE SubSeq(log, 1, prev + first - 1) \o SubSeq(entries, first, Len(entries))
  BY DEF MergeEntries
<1>5. merged \in Seq(Entry)
  BY MergeType
<1> HIDE DEF Fresh, merged
\* The logs agree wherever they have entries of one term.
<1>6. ASSUME NEW k \in 1..Len(log), k <= Len(L), log[k].term = L[k].term
      PROVE  \A m \in 1..k : log[m] = L[m]
  <2>1. Agree(log, H[log[k].term], k) /\ Agree(L, H[log[k].term], k)
    BY <1>1, <1>6 DEF Explained
  <2>2. QED
    BY <2>1 DEF Agree
<1>7. \A m \in 1..prev : log[m] = L[m]
  <2>1. CASE prev = 0
    BY <2>1
  <2>2. CASE prev # 0
    <3>1. prev \in 1..Len(log) /\ prev \in 1..Len(L)
      BY <1>1, <2>2
    <3>2. log[prev].term = L[prev].term
      BY <3>1 DEF SameTerm, termAtLocked
    <3>3. prev <= Len(L)
      BY <3>1
    <3>4. QED
      BY <1>6, <3>1, <3>2, <3>3
  <2>3. QED
    BY <2>1, <2>2
<1>8. CASE Fresh = {}
  <2>1. merged = log
    BY <1>4, <1>8
  <2>2. Agree(log, L, last)
    <3>1. CASE Len(entries) = 0
      BY <1>1, <1>7, <3>1 DEF Agree
    <3>2. CASE Len(entries) # 0
      <4>1. Len(entries) \in 1..Len(entries)
        BY <1>1, <3>2
      <4>2. last <= Len(log) /\ log[last].term = L[last].term
        BY <1>3, <1>8, <4>1
      <4>3. QED
        BY <1>1, <1>6, <4>1, <4>2 DEF Agree
    <3>3. QED
      BY <3>1, <3>2
  <2>3. \A n \in Nat : Agree(log, L, n) => Agree(log, log, n)
    BY DEF Agree
  <2>4. QED
    BY <1>5, <2>1, <2>2, <2>3 DEF merged
<1>9. CASE Fresh # {}
  <2>1. \E k \in Fresh : \A m \in Fresh : k <= m
    BY <1>2, <1>9, NatMin
  <2>2. first \in Fresh /\ \A m \in Fresh : first <= m
    BY <2>1
  <2> HIDE DEF first
  <2>3. first \in 1..Len(entries)
    BY <1>2, <2>2
  <2> DEFINE kept == prev + first - 1
  <2> HIDE DEF kept
  <2>4. kept \in Nat /\ kept <= Len(log) /\ kept <= Len(L) /\ \A m \in 1..kept : log[m] = L[m]
    <3>1. CASE first = 1
      <4>1. kept = prev
        BY <3>1 DEF kept
      <4>2. QED
        BY <1>1, <1>7, <4>1
    <3>2. CASE first # 1
      <4>1. first - 1 \in 1..Len(entries) /\ first - 1 \notin Fresh
        BY <1>1, <2>2, <2>3, <3>2
      <4>2. kept <= Len(log) /\ log[kept].term = L[kept].term /\ kept \in 1..Len(log)
        <5>1. kept = prev + (first - 1) /\ kept \in Nat /\ kept >= 1
          BY <1>1, <2>3, <4>1 DEF kept
        <5>2. kept <= Len(log) /\ log[kept].term = entries[first - 1].term
          BY <1>3, <4>1, <5>1
        <5>3. entries[first - 1] = L[kept]
          BY <4>1, <5>1
        <5>4. QED
          BY <1>1, <5>1, <5>2, <5>3
      <4>3. kept <= Len(L)
        BY <1>1, <2>3 DEF kept
      <4>4. QED
        BY <1>6, <4>2, <4>3
    <3>3. QED
      BY <3>1, <3>2
  <2>5. /\ Len(SubSeq(log, 1, kept)) = kept
        /\ \A m \in 1..kept : SubSeq(log, 1, kept)[m] = log[m]
        /\ SubSeq(log, 1, kept) \in Seq(Entry)
    BY <1>1, <2>4
  <2> DEFINE rest == SubSeq(entries, first, Len(entries))
  <2>6. /\ rest \in Seq(Entry)
        /\ Len(rest) = Len(entries) - first + 1
        /\ \A m \in 1..Len(rest) : rest[m] = entries[first + m - 1]
    BY <1>1, <2>3
  <2> DEFINE front == SubSeq(log, 1, kept)
  <2>7. merged = front \o rest
    BY <1>4, <1>9 DEF kept
  <2> HIDE DEF rest, front
  <2>8. /\ Len(merged) = last
        /\ \A m \in 1..last : merged[m] = IF m <= kept THEN log[m] ELSE rest[m - kept]
    <3>1. front \in Seq(Entry) /\ Len(front) = kept /\ \A m \in 1..kept : front[m] = log[m]
      BY <2>5 DEF front
    <3>2. /\ Len(front \o rest) = kept + Len(rest)
          /\ \A m \in 1..(kept + Len(rest)) :
               (front \o rest)[m] = IF m <= kept THEN front[m] ELSE rest[m - kept]
      BY <2>6, <3>1
    <3>3. kept + Len(rest) = last
      BY <1>1, <2>3, <2>6 DEF kept
    <3>4. QED
      BY <2>4, <2>7, <3>1, <3>2, <3>3
  <2>9. Agree(merged, L, last)
    <3> SUFFICES ASSUME NEW m \in 1..last PROVE merged[m] = L[m]
      BY <2>8, <1>1 DEF Agree
    <3>1. CASE m <= kept
      BY <2>4, <2>8, <3>1
    <3>2. CASE m > kept
      <4>1. m - kept \in 1..Len(rest) /\ first + (m - kept) - 1 = m - prev
            /\ m - prev \in 1..Len(entries)
        BY <1>1, <2>3, <2>4, <2>6, <3>2 DEF kept
      <4>2. merged[m] = entries[m - prev]
        BY <2>4, <2>6, <2>8, <3>2, <4>1
      <4>3. QED
        BY <4>1, <4>2
    <3>3. QED
      BY <2>4, <3>1, <3>2
  <2>10. ASSUME NEW n \in Nat, Agree(log, L, n)
         PROVE  Agree(log, merged, n)
    <3>1. n <= kept
      <4>1. prev + first > Len(log) \/ log[prev + first].term # entries[first].term
        BY <2>2 DEF Fresh
      <4>2. entries[first] = L[prev + first]
        BY <2>3
      <4>3. QED
        BY <1>1, <2>3, <2>10, <4>1, <4>2 DEF kept, Agree
    <3>2. n <= last
      BY <1>1, <2>3, <3>1 DEF kept
    <3>3. QED
      BY <1>1, <2>4, <2>8, <3>1, <3>2 DEF Agree
  <2>11. QED
    BY <1>5, <2>8, <2>9, <2>10 DEF merged
<1>10. QED
  BY <1>8, <1>9

-----------------------------------------------------------------------------
(* What a locked prefix implies.                                           *)

\* The fields of the Node struct that the proofs compare.
LEMMA NodeType ==
  ASSUME NEW n \in Node
  PROVE  /\ n.term \in Nat /\ n.log \in Seq(Entry) /\ n.commitIndex \in Nat
         /\ n.matchIndex \in [Server -> Nat] /\ n.nextIndex \in [Server -> Nat]
BY DEF Node

\* What the leader of a term has had is a log.
LEMMA HistoryType ==
  ASSUME NEW H \in Histories, NEW t \in Nat
  PROVE  H[t] \in Seq(Entry) /\ Len(H[t]) \in Nat
<1>1. H[t] \in Seq(Entry)
  BY DEF Histories
<1>2. QED
  BY <1>1, LenType

\* A position that holds a leader's own entry is inside its log.
LEMMA OwnWithin ==
  ASSUME NEW H \in Histories, NEW t \in Nat, NEW n, Own(H, t, n)
  PROVE  n \in Nat \ {0} /\ n <= Len(H[t]) /\ H[t][n].term = t /\ H[t] # <<>>
<1>1. Len(H[t]) \in Nat
  BY HistoryType
<1>2. n \in 1..Len(H[t]) /\ H[t][n].term = t
  BY DEF Own
<1>3. n \in Nat \ {0} /\ n <= Len(H[t])
  BY <1>1, <1>2
<1>4. H[t] # <<>>
  BY <1>3
<1>5. QED
  BY <1>2, <1>3, <1>4

\* The last entry of a committed prefix is the committing leader's own.
LEMMA FixedIsOwn ==
  ASSUME TypeInv, NEW H \in Histories, CommitsHeld(H), NEW t, NEW n, Fixed(t, n)
  PROVE  Own(H, t, n)
<1>1. PICK c \in committed : Len(c) = n /\ c[n].term = t
  BY DEF Fixed
<1>2. c \in Seq(Entry) /\ Len(c) \in Nat
  BY LenType DEF TypeInv, TypeOK
<1>3. c # <<>> /\ Agree(c, H[t], n)
  BY <1>1 DEF CommitsHeld
<1>4. n \in Nat /\ n >= 1
  BY <1>1, <1>2, <1>3
<1>5. n <= Len(H[t]) /\ c[n] = H[t][n]
  BY <1>3, <1>4 DEF Agree
<1>6. QED
  BY <1>1, <1>4, <1>5 DEF Own

\* Only at its own entries can a leader have committed (advanceCommitLocked).
LEMMA LockedIsOwn ==
  ASSUME TypeInv, NEW H \in Histories, CommitsHeld(H), NEW t, NEW n, Locked(H, t, n)
  PROVE  Own(H, t, n)
BY FixedIsOwn DEF Locked, Open

\* a's log is at least as up to date as b's, which upToDate asks of a candidate.
NotBehind(a, b) ==
  \/ termAtLocked(a, Len(a)) > termAtLocked(b, Len(b))
  \/ termAtLocked(a, Len(a)) = termAtLocked(b, Len(b)) /\ Len(a) >= Len(b)

\* A log as up to date as one that has a locked prefix has it as well.
LEMMA UpToDateHolds ==
  ASSUME NEW H \in Histories, HistoryOK(H), LaterLeadersHave(H),
         NEW t \in Nat, NEW n, Locked(H, t, n), Own(H, t, n),
         NEW a \in Seq(Entry), Explained(H, a),
         NEW b \in Seq(Entry), NEW s, Monotone(b, s), Agree(b, H[t], n), NotBehind(a, b)
  PROVE  Agree(a, H[t], n)
<1> DEFINE u == termAtLocked(a, Len(a))
           v == termAtLocked(b, Len(b))
<1>1. n \in Nat /\ n >= 1 /\ n <= Len(H[t]) /\ H[t][n].term = t
  BY OwnWithin
<1>2. Len(a) \in Nat /\ Len(b) \in Nat
  BY LenType
<1>3. u \in Nat /\ v \in Nat
  BY <1>2, TermAtType
<1>4. n <= Len(b) /\ b[n] = H[t][n]
  BY <1>1 DEF Agree
<1>5. t <= v
  <2>1. Len(b) \in 1..Len(b) /\ n \in 1..Len(b)
    BY <1>1, <1>2, <1>4
  <2>2. b[n].term <= b[Len(b)].term
    BY <2>1 DEF Monotone
  <2>3. v = b[Len(b)].term
    BY <2>1 DEF termAtLocked
  <2>4. QED
    BY <1>1, <1>4, <2>2, <2>3
<1>6. u > v \/ (u = v /\ Len(a) >= Len(b))
  BY DEF NotBehind
<1>7. Len(a) \in 1..Len(a)
  <2>1. CASE Len(a) = 0
    <3>1. u = 0
      BY <2>1 DEF termAtLocked
    <3>2. QED
      BY <1>1, <1>2, <1>3, <1>4, <1>6, <2>1, <3>1
  <2>2. QED
    BY <1>2, <2>1
<1>8. u = a[Len(a)].term
  BY <1>7 DEF termAtLocked
<1> HIDE DEF u, v
<1>9. Agree(a, H[u], Len(a))
  BY <1>7, <1>8 DEF Explained
<1>10. CASE u = t
  <2>1. n <= Len(a)
    BY <1>1, <1>2, <1>3, <1>4, <1>5, <1>6, <1>10
  <2>2. QED
    BY <1>1, <1>2, <1>9, <1>10, <2>1, AgreeLess
<1>11. CASE u # t
  <2>1. t < u
    BY <1>3, <1>5, <1>6, <1>11
  <2>2. Len(a) <= Len(H[u]) /\ H[u][Len(a)].term = u
    BY <1>7, <1>8, <1>9 DEF Agree
  <2>3. Len(H[u]) \in Nat /\ H[u] # <<>>
    BY <1>2, <1>3, <1>7, <2>2, HistoryType
  <2>4. Agree(H[t], H[u], n)
    BY <1>1, <1>3, <2>1, <2>3 DEF LaterLeadersHave
  <2>5. n <= Len(H[u]) /\ H[u][n].term = t
    BY <1>1, <2>4 DEF Agree
  <2>6. n < Len(a)
    <3>1. ASSUME Len(a) <= n
          PROVE  FALSE
      <4>1. n \in 1..Len(H[u]) /\ Len(a) \in 1..n
        BY <1>1, <1>2, <1>7, <2>3, <2>5, <3>1
      <4>2. H[u][Len(a)].term <= H[u][n].term
        BY <1>3, <4>1 DEF HistoryOK, Monotone
      <4>3. QED
        BY <1>3, <2>1, <2>2, <2>5, <4>2
    <3>2. QED
      BY <1>1, <1>2, <3>1
  <2>7. Agree(a, H[u], n)
    BY <1>1, <1>2, <1>9, <2>6, AgreeLess
  <2>8. QED
    BY <2>4, <2>7, AgreeSym, AgreeTrans
<1>12. QED
  BY <1>10, <1>11

-----------------------------------------------------------------------------
(* What any step may do to the logs, the votes, the answers and the        *)
(* commits.  G is H after the step.                                        *)

\* No node's term goes down.
TermsGrow == \A q \in Server : node[q].term <= node'[q].term

\* No node cuts a locked prefix of a term it has reached.
LogsKept(H) ==
  \A t \in Nat, q \in Server : \A n :
    Locked(H, t, n) /\ t <= node[q].term /\ Agree(node[q].log, H[t], n) =>
      Agree(node'[q].log, H[t], n)

\* A candidate's log does not change, and a vote it gets is its own or comes
\* from a node whose log it is not behind.
VotesFair ==
  \A j, q \in Server :
    node'[j].state = "candidate" /\ <<q, node'[j].term, j>> \in ballots' =>
      /\ node'[j].log = node[j].log
      /\ \/ q = j
         \/ /\ node[j].state = "candidate" /\ node[j].term = node'[j].term
            /\ <<q, node[j].term, j>> \in ballots
         \/ NotBehind(node[j].log, node[q].log)

\* A new answer comes from a node in the leader's term that has the entries.
AcksReal(G) ==
  \A t \in Nat, n \in Nat \ {0}, q \in Server :
    Acked(t, n, q)' =>
      \/ Acked(t, n, q)
      \/ node[q].term <= t /\ node'[q].term = t /\ Agree(node'[q].log, G[t], n)

\* A majority votes for j in term t, and what j had when it was elected is
\* what it had when it got these votes.
Elected(j, t) ==
  \E Q \in SUBSET Server :
    /\ Majority(Q)
    /\ \A q \in Q : /\ <<q, t, j>> \in ballots'
                    /\ \/ q = j
                       \/ /\ <<q, t, j>> \in ballots
                          /\ node[j].state = "candidate" /\ node[j].term = t

\* A leader appends one entry to its log, at the latest in the step that elects it.
Grows(H, G) ==
  \A t \in Nat :
    \/ G[t] = H[t]
    \/ \E j \in Server, e \in Entry :
         /\ G[t] = Append(node[j].log, e)
         /\ \/ H[t] # <<>> /\ node[j].log = H[t]
            \/ H[t] = <<>> /\ Elected(j, t)

\* A leader commits what a majority, itself included, has told it it has.
NewCommits(H, G) ==
  \A c \in committed' : c \notin committed =>
    /\ G = H /\ c # <<>> /\ Agree(c, H[c[Len(c)].term], Len(c))
    /\ \E Q \in SUBSET Server :
         /\ Majority(Q)
         /\ \A q \in Q :
              \/ Acked(c[Len(c)].term, Len(c), q)
              \/ node[q].term = c[Len(c)].term /\ node[q].log = H[c[Len(c)].term]

\* The demands on a step under which committed entries stay safe.
Step(H, G) ==
  /\ Extends(H, G) /\ TermsGrow /\ ballots \subseteq ballots' /\ committed \subseteq committed'
  /\ LogsKept(H) /\ VotesFair /\ AcksReal(G) /\ Grows(H, G) /\ NewCommits(H, G)

\* Terms and logs before and after a step.
LEMMA NodesTyped ==
  ASSUME TypeInv, TypeInv', NEW q \in Server
  PROVE  /\ node[q].term \in Nat /\ node'[q].term \in Nat
         /\ node[q].log \in Seq(Entry) /\ node'[q].log \in Seq(Entry)
BY NodeType DEF TypeInv, TypeOK

\* No peer is counted for entries its leader never had.
LEMMA AckedWithin ==
  ASSUME TypeInv, NEW H \in Histories, LeadersOK(H), ResponsesOK(H),
         NEW t \in Nat, NEW n \in Nat, NEW q \in Server, Acked(t, n, q)
  PROVE  n <= Len(H[t])
<1>1. Len(H[t]) \in Nat
  BY HistoryType
<1>2. ASSUME NEW i \in Server, node[i].state = "leader", node[i].term = t,
             node[i].matchIndex[q] >= n
      PROVE  n <= Len(H[t])
  <2>1. node[i].matchIndex[q] \in Nat
    BY NodeType DEF TypeInv, TypeOK
  <2>2. node[i].matchIndex[q] <= Len(H[t])
    BY <1>2 DEF LeadersOK
  <2>3. QED
    BY <1>1, <1>2, <2>1, <2>2
<1>3. ASSUME NEW r \in appendResp, r.reqTerm = t, r.success, r.lastNew >= n
      PROVE  n <= Len(H[t])
  <2>1. r.lastNew \in Nat
    BY DEF TypeInv, TypeOK, AppendResp
  <2>2. r.lastNew <= Len(H[t])
    BY <1>3 DEF ResponsesOK
  <2>3. QED
    BY <1>1, <1>3, <2>1, <2>2
<1>4. QED
  BY <1>2, <1>3 DEF Acked

\* What may be committed after a step could be before, unless it is new.
LEMMA OpenBack ==
  ASSUME TypeInv, TypeInv', NEW H \in Histories, NEW G \in Histories, Step(H, G),
         NEW t \in Nat, NEW n, Open(G, t, n)', n <= Len(H[t])
  PROVE  Open(H, t, n)
<1>1. PICK Q \in SUBSET Server :
        Majority(Q) /\ \A q \in Q : node'[q].term <= t \/ Acked(t, n, q)'
  BY DEF Open, Majority
<1>2. Own(G, t, n)
  BY DEF Open, Own
<1>3. n \in Nat \ {0} /\ G[t][n].term = t
  BY <1>2, OwnWithin
<1>4. Len(H[t]) \in Nat
  BY HistoryType
<1>5. Own(H, t, n)
  <2>1. Agree(H[t], G[t], Len(H[t]))
    BY DEF Step, Extends
  <2>2. n \in 1..Len(H[t])
    BY <1>3, <1>4
  <2>3. H[t][n] = G[t][n]
    BY <2>1, <2>2 DEF Agree
  <2>4. QED
    BY <1>3, <2>2, <2>3 DEF Own
<1>6. ASSUME NEW q \in Q
      PROVE  node[q].term <= t \/ Acked(t, n, q)
  <2>1. node[q].term \in Nat /\ node'[q].term \in Nat
    BY NodesTyped
  <2>2. node[q].term <= node'[q].term
    BY DEF Step, TermsGrow
  <2>3. Acked(t, n, q)' => Acked(t, n, q) \/ node[q].term <= t
    BY <1>3 DEF Step, AcksReal
  <2>4. QED
    BY <1>1, <2>1, <2>2, <2>3
<1>7. QED
  BY <1>1, <1>5, <1>6 DEF Open

\* While a majority is still in term t or an earlier one, no later term has a leader.
LEMMA NoLaterLeader ==
  ASSUME TypeInv', ElectionInv', NEW t \in Nat, NEW u \in Nat, t < u, Led(u)',
         NEW Q \in SUBSET Server, Majority(Q), \A q \in Q : node'[q].term <= t
  PROVE  FALSE
<1>1. PICK l \in Server : <<u, l>> \in elections'
  BY DEF Led
<1>2. PICK R \in SUBSET Server : Majority(R) /\ \A q \in R : <<q, u, l>> \in ballots'
  BY <1>1 DEF ElectionInv, LeadersElected, Majority
<1>3. PICK q \in Server : q \in Q /\ q \in R
  BY <1>2, MajoritiesMeet
<1>4. u <= node'[q].term
  BY <1>2, <1>3 DEF ElectionInv, BallotsRemembered
<1>5. node'[q].term \in Nat
  BY NodeType DEF TypeInv, TypeOK
<1>6. QED
  BY <1>3, <1>4, <1>5

\* A node that has a locked prefix keeps it, and passes it on with its vote.
LEMMA HoldsStep ==
  ASSUME TypeInv, TypeInv', NEW H \in Histories, NEW G \in Histories, LogInv(H), Step(H, G),
         NEW t \in Nat, NEW n, Locked(H, t, n), NEW q \in Server,
         t <= node[q].term, Holds(H, t, n, q)
  PROVE  Holds(G, t, n, q)'
<1>1. Own(H, t, n)
  BY LockedIsOwn DEF LogInv
<1>2. n \in Nat /\ n <= Len(H[t]) /\ Len(H[t]) \in Nat
  BY <1>1, OwnWithin, HistoryType
<1>3. Agree(H[t], G[t], n)
  BY <1>2, AgreeLess DEF Step, Extends
<1>4. Agree(node[q].log, H[t], n)
  BY DEF Holds
<1>5. Agree(node'[q].log, H[t], n)
  BY <1>4 DEF Step, LogsKept
<1>6. ASSUME NEW j \in Server, node'[j].state = "candidate", node'[j].term > t,
             <<q, node'[j].term, j>> \in ballots'
      PROVE  Agree(node'[j].log, H[t], n)
  <2>1. /\ node'[j].log = node[j].log
        /\ \/ q = j
           \/ /\ node[j].state = "candidate" /\ node[j].term = node'[j].term
              /\ <<q, node[j].term, j>> \in ballots
           \/ NotBehind(node[j].log, node[q].log)
    BY <1>6 DEF Step, VotesFair
  <2>2. CASE q = j
    BY <1>5, <2>2
  <2>3. CASE /\ node[j].state = "candidate" /\ node[j].term = node'[j].term
             /\ <<q, node[j].term, j>> \in ballots
    BY <1>6, <2>1, <2>3 DEF Holds
  <2>4. CASE NotBehind(node[j].log, node[q].log)
    <3>1. /\ node[j].log \in Seq(Entry) /\ Explained(H, node[j].log)
          /\ node[q].log \in Seq(Entry) /\ Monotone(node[q].log, node[q].term)
      BY NodesTyped DEF LogInv, LogsOK
    <3>2. HistoryOK(H) /\ LaterLeadersHave(H)
      BY DEF LogInv
    <3>3. QED
      BY <1>1, <1>4, <2>1, <2>4, <3>1, <3>2, UpToDateHolds
  <2>5. QED
    BY <2>1, <2>2, <2>3, <2>4
<1>7. ASSUME NEW log, Agree(log, H[t], n)
      PROVE  Agree(log, G[t], n)
  BY <1>3, <1>7, AgreeTrans
<1>8. QED
  BY <1>5, <1>6, <1>7 DEF Holds

\* An answer is true, and stays so as long as what it tells may be committed.
LEMMA AcksStep ==
  ASSUME TypeInv, TypeInv', ElectionInv', NEW H \in Histories, NEW G \in Histories,
         LogInv(H), Step(H, G)
  PROVE  AcksHold(G)'
<1> SUFFICES ASSUME NEW t \in Nat, NEW n \in Nat \ {0}, NEW q \in Server, Acked(t, n, q)'
             PROVE  t <= node'[q].term /\ (Open(G, t, n)' => Holds(G, t, n, q)')
  BY DEF AcksHold
<1>1. node[q].term \in Nat /\ node'[q].term \in Nat /\ node[q].term <= node'[q].term
  BY NodesTyped DEF Step, TermsGrow
<1>2. CASE Acked(t, n, q)
  <2>1. t <= node[q].term /\ (Open(H, t, n) => Holds(H, t, n, q))
    BY <1>2 DEF LogInv, AcksHold
  <2>2. ASSUME Open(G, t, n)'
        PROVE  Holds(G, t, n, q)'
    <3>1. n <= Len(H[t])
      BY <1>2, AckedWithin DEF LogInv
    <3>2. Open(H, t, n)
      BY <2>2, <3>1, OpenBack
    <3>3. QED
      BY <2>1, <3>2, HoldsStep DEF Locked
  <2>3. QED
    BY <1>1, <2>1, <2>2
<1>3. CASE ~Acked(t, n, q)
  <2>1. node'[q].term = t /\ Agree(node'[q].log, G[t], n)
    BY <1>3 DEF Step, AcksReal
  <2>2. ASSUME NEW j \in Server, <<q, node'[j].term, j>> \in ballots'
        PROVE  ~(node'[j].term > t)
    <3>1. node'[j].term <= t
      BY <2>1, <2>2 DEF ElectionInv, BallotsRemembered
    <3>2. QED
      BY <3>1, NodesTyped
  <2>3. QED
    BY <1>1, <2>1, <2>2 DEF Holds
<1>4. QED
  BY <1>2, <1>3

\* What a step commits a majority has already told the leader it has.
LEMMA NewIsOpen ==
  ASSUME TypeInv, TypeInv', NEW H \in Histories, NEW G \in Histories,
         LogInv(H), Step(H, G), NEW c \in committed', c \notin committed
  PROVE  /\ G = H /\ c # <<>> /\ Len(c) \in Nat \ {0} /\ c[Len(c)].term \in Nat
         /\ Agree(c, H[c[Len(c)].term], Len(c))
         /\ Open(H, c[Len(c)].term, Len(c))
<1> DEFINE n == Len(c)
           t == c[n].term
<1>1. c \in Seq(Entry)
  BY DEF TypeInv, TypeOK
<1>2. /\ G = H /\ c # <<>> /\ Agree(c, H[t], n)
      /\ \E Q \in SUBSET Server :
           /\ Majority(Q)
           /\ \A q \in Q : Acked(t, n, q) \/ (node[q].term = t /\ node[q].log = H[t])
  BY DEF Step, NewCommits
<1>3. n \in Nat \ {0} /\ n \in 1..n
  BY <1>1, <1>2, LenType
<1>4. t \in Nat
  BY <1>1, <1>3, EntryType
<1> HIDE DEF t
<1>5. Own(H, t, n)
  <2>1. n <= Len(H[t]) /\ c[n] = H[t][n]
    BY <1>2, <1>3 DEF Agree
  <2>2. Len(H[t]) \in Nat
    BY <1>4, HistoryType
  <2>3. QED
    BY <1>3, <2>1, <2>2 DEF Own, t
<1>6. PICK Q \in SUBSET Server :
        /\ Majority(Q)
        /\ \A q \in Q : Acked(t, n, q) \/ node[q].term = t
  BY <1>2
<1>7. \A q \in Q : node[q].term <= t \/ Acked(t, n, q)
  BY <1>4, <1>6
<1>8. Open(H, t, n)
  BY <1>5, <1>6, <1>7 DEF Open
<1>9. QED
  BY <1>2, <1>3, <1>4, <1>8 DEF t

\* A committed prefix stays with a majority.
LEMMA CommitsStep ==
  ASSUME TypeInv, TypeInv', ElectionInv, NEW H \in Histories, NEW G \in Histories,
         LogInv(H), Step(H, G)
  PROVE  CommitsHeld(G)'
<1> SUFFICES ASSUME NEW c \in committed'
             PROVE  /\ c # <<>>
                    /\ Agree(c, G[c[Len(c)].term], Len(c))
                    /\ \E Q \in SUBSET Server :
                         /\ Majority(Q)
                         /\ \A q \in Q : /\ c[Len(c)].term <= node'[q].term
                                         /\ Holds(G, c[Len(c)].term, Len(c), q)'
  BY DEF CommitsHeld, Majority
<1> DEFINE n == Len(c)
           t == c[n].term
<1>1. c \in Seq(Entry)
  BY DEF TypeInv, TypeOK
<1>2. CASE c \in committed
  <2>1. c # <<>> /\ Agree(c, H[t], n)
    BY <1>2 DEF LogInv, CommitsHeld
  <2>2. n \in Nat /\ n \in 1..n
    BY <1>1, <2>1, LenType
  <2>3. t \in Nat
    BY <1>1, <2>2, EntryType
  <2>4. PICK Q \in SUBSET Server :
          Majority(Q) /\ \A q \in Q : t <= node[q].term /\ Holds(H, t, n, q)
    BY <1>2 DEF LogInv, CommitsHeld
  <2>5. Locked(H, t, n)
    BY <1>2 DEF Locked, Fixed
  <2> HIDE DEF t
  <2>6. ASSUME NEW q \in Q
        PROVE  t <= node'[q].term /\ Holds(G, t, n, q)'
    <3>1. t <= node[q].term /\ Holds(H, t, n, q)
      BY <2>4
    <3>2. Holds(G, t, n, q)'
      BY <2>3, <2>5, <3>1, HoldsStep
    <3>3. node[q].term \in Nat /\ node'[q].term \in Nat /\ node[q].term <= node'[q].term
      BY NodesTyped DEF Step, TermsGrow
    <3>4. QED
      BY <2>3, <3>1, <3>2, <3>3
  <2>7. Agree(c, G[t], n)
    <3>1. n <= Len(H[t]) /\ Len(H[t]) \in Nat
      BY <2>1, <2>3, HistoryType DEF Agree
    <3>2. Agree(H[t], G[t], n)
      BY <2>2, <2>3, <3>1, AgreeLess DEF Step, Extends
    <3>3. QED
      BY <2>1, <3>2, AgreeTrans
  <2>8. QED
    BY <2>1, <2>4, <2>6, <2>7 DEF t
<1>3. CASE c \notin committed
  <2>1. G = H /\ c # <<>> /\ n \in Nat \ {0} /\ t \in Nat /\ Agree(c, H[t], n) /\ Open(H, t, n)
    BY <1>3, NewIsOpen
  <2>2. PICK Q \in SUBSET Server :
           /\ Majority(Q)
           /\ \A q \in Q : Acked(t, n, q) \/ (node[q].term = t /\ node[q].log = H[t])
    BY <1>3 DEF Step, NewCommits
  <2> HIDE DEF t
  <2>3. ASSUME NEW q \in Q
        PROVE  t <= node'[q].term /\ Holds(G, t, n, q)'
    <3>1. t <= node[q].term /\ Holds(H, t, n, q)
      <4>1. CASE Acked(t, n, q)
        BY <2>1, <4>1 DEF LogInv, AcksHold
      <4>2. CASE node[q].term = t /\ node[q].log = H[t]
        <5>1. ASSUME NEW j \in Server, <<q, node[j].term, j>> \in ballots
              PROVE  ~(node[j].term > t)
          <6>1. node[j].term <= t
            BY <4>2, <5>1 DEF ElectionInv, BallotsRemembered
          <6>2. QED
            BY <2>1, <6>1, NodesTyped
        <5>2. Agree(H[t], H[t], n)
          BY <2>1 DEF Agree
        <5>3. QED
          BY <2>1, <4>2, <5>1, <5>2 DEF Holds
      <4>3. QED
        BY <2>2, <4>1, <4>2
    <3>2. Holds(G, t, n, q)'
      BY <2>1, <3>1, HoldsStep DEF Locked
    <3>3. node[q].term \in Nat /\ node'[q].term \in Nat /\ node[q].term <= node'[q].term
      BY NodesTyped DEF Step, TermsGrow
    <3>4. QED
      BY <2>1, <3>1, <3>2, <3>3
  <2>4. QED
    BY <2>1, <2>2, <2>3 DEF t
<1>4. QED
  BY <1>2, <1>3

\* A new leader has what may have been committed in an earlier term: its
\* voters meet the majority that has it.
LEMMA NewLeaderHas ==
  ASSUME TypeInv, TypeInv', ElectionInv', NEW H \in Histories, NEW G \in Histories,
         LogInv(H), Step(H, G), NEW t \in Nat, NEW u \in Nat, t < u,
         NEW j \in Server, Elected(j, u), NEW n, Locked(H, t, n),
         Open(G, t, n)' \/ Fixed(t, n)
  PROVE  Agree(node[j].log, H[t], n)
<1>1. PICK Q \in SUBSET Server :
        /\ Majority(Q)
        /\ \A q \in Q : /\ <<q, u, j>> \in ballots'
                        /\ \/ q = j
                           \/ /\ <<q, u, j>> \in ballots
                              /\ node[j].state = "candidate" /\ node[j].term = u
  BY DEF Elected
<1>2. n \in Nat \ {0}
  BY LockedIsOwn, OwnWithin DEF LogInv
<1>3. \E q \in Q : Holds(H, t, n, q)
  <2>1. CASE Open(G, t, n)'
    <3>1. PICK R \in SUBSET Server :
            Majority(R) /\ \A q \in R : node'[q].term <= t \/ Acked(t, n, q)'
      BY <2>1 DEF Open, Majority
    <3>2. PICK q \in Server : q \in Q /\ q \in R
      BY <1>1, <3>1, MajoritiesMeet
    <3>3. u <= node'[q].term
      BY <1>1, <3>2 DEF ElectionInv, BallotsRemembered
    <3>4. node'[q].term \in Nat
      BY NodesTyped
    <3>5. Acked(t, n, q)' /\ node'[q].term # t
      BY <3>1, <3>2, <3>3, <3>4
    <3>6. Acked(t, n, q)
      BY <1>2, <3>5 DEF Step, AcksReal
    <3>7. n <= Len(H[t])
      BY <1>2, <3>6, AckedWithin DEF LogInv
    <3>8. Open(H, t, n)
      BY <2>1, <3>7, OpenBack
    <3>9. QED
      BY <1>2, <3>2, <3>6, <3>8 DEF LogInv, AcksHold
  <2>2. CASE Fixed(t, n)
    <3>1. PICK c \in committed : Len(c) = n /\ c[n].term = t
      BY <2>2 DEF Fixed
    <3>2. PICK R \in SUBSET Server : Majority(R) /\ \A q \in R : Holds(H, t, n, q)
      BY <3>1 DEF LogInv, CommitsHeld
    <3>3. PICK q \in Server : q \in Q /\ q \in R
      BY <1>1, <3>2, MajoritiesMeet
    <3>4. QED
      BY <3>2, <3>3
  <2>3. QED
    BY <2>1, <2>2
<1>4. PICK q \in Q : Holds(H, t, n, q)
  BY <1>3
<1>5. CASE q = j
  BY <1>4, <1>5 DEF Holds
<1>6. CASE /\ <<q, u, j>> \in ballots
           /\ node[j].state = "candidate" /\ node[j].term = u
  BY <1>4, <1>6 DEF Holds
<1>7. QED
  BY <1>1, <1>5, <1>6

\* What may be committed after a step lies in the history before it, if a
\* later term has a leader.
LEMMA LockedBack ==
  ASSUME TypeInv, TypeInv', ElectionInv', NEW H \in Histories, NEW G \in Histories,
         LogInv(H), Step(H, G), NEW t \in Nat, NEW u \in Nat, t < u, Led(u)',
         NEW n, Locked(G, t, n)'
  PROVE  /\ Locked(H, t, n) /\ n \in Nat /\ n <= Len(H[t])
         /\ \/ Open(G, t, n)' \/ Fixed(t, n) \/ G = H
<1>1. CASE Open(G, t, n)'
  <2>1. n \in Nat \ {0}
    BY <1>1, OwnWithin DEF Open, Own
  <2>2. Len(H[t]) \in Nat
    BY HistoryType
  <2>3. n <= Len(H[t])
    <3>1. SUFFICES ASSUME ~(n <= Len(H[t])) PROVE FALSE
      OBVIOUS
    <3>2. PICK Q \in SUBSET Server :
            Majority(Q) /\ \A q \in Q : node'[q].term <= t \/ Acked(t, n, q)'
      BY <1>1 DEF Open, Majority
    <3>3. ASSUME NEW q \in Q
          PROVE  node'[q].term <= t
      <4>1. ~Acked(t, n, q)
        BY <2>1, <3>1, AckedWithin DEF LogInv
      <4>2. Acked(t, n, q)' => node'[q].term = t
        BY <2>1, <4>1 DEF Step, AcksReal
      <4>3. node'[q].term \in Nat
        BY NodesTyped
      <4>4. QED
        BY <3>2, <4>2, <4>3
    <3>4. QED
      BY <3>2, <3>3, NoLaterLeader
  <2>4. Open(H, t, n)
    BY <1>1, <2>3, OpenBack
  <2>5. QED
    BY <1>1, <2>1, <2>3, <2>4 DEF Locked
<1>2. CASE Fixed(t, n)'
  <2>1. PICK c \in committed' : Len(c) = n /\ c[n].term = t
    BY <1>2 DEF Fixed
  <2>2. CASE c \in committed
    <3>1. Fixed(t, n)
      BY <2>1, <2>2 DEF Fixed
    <3>2. Locked(H, t, n)
      BY <3>1 DEF Locked
    <3>3. n \in Nat \ {0} /\ n <= Len(H[t])
      BY <3>2, LockedIsOwn, OwnWithin DEF LogInv
    <3>4. QED
      BY <3>1, <3>2, <3>3
  <2>3. CASE c \notin committed
    <3>1. G = H /\ Open(H, t, n)
      BY <2>1, <2>3, NewIsOpen
    <3>2. Locked(H, t, n)
      BY <3>1 DEF Locked
    <3>3. n \in Nat \ {0} /\ n <= Len(H[t])
      BY <3>2, LockedIsOwn, OwnWithin DEF LogInv
    <3>4. QED
      BY <3>1, <3>2, <3>3
  <2>4. QED
    BY <2>2, <2>3
<1>3. QED
  BY <1>1, <1>2 DEF Locked

\* Later leaders keep what an earlier one may have committed.
LEMMA LaterLeadersStep ==
  ASSUME TypeInv, TypeInv', ElectionInv', NEW H \in Histories, NEW G \in Histories,
         LogInv(H), Step(H, G), HistoryOK(G)'
  PROVE  LaterLeadersHave(G)'
<1> SUFFICES ASSUME NEW t \in Nat, NEW u \in Nat, NEW n \in Nat,
                    Locked(G, t, n)', t < u, G[u] # <<>>
             PROVE  Agree(G[t], G[u], n)
  BY DEF LaterLeadersHave
<1>1. Led(u)'
  BY DEF HistoryOK
<1>2. /\ Locked(H, t, n) /\ n <= Len(H[t])
      /\ Open(G, t, n)' \/ Fixed(t, n) \/ G = H
  BY <1>1, LockedBack
<1>3. Len(H[t]) \in Nat /\ Len(H[u]) \in Nat
  BY HistoryType
<1>4. Agree(H[t], G[t], n)
  BY <1>2, <1>3, AgreeLess DEF Step, Extends
<1>5. Agree(H[t], G[u], n)
  <2>1. CASE H[u] # <<>>
    <3>1. Agree(H[t], H[u], n)
      BY <1>2, <2>1 DEF LogInv, LaterLeadersHave
    <3>2. n <= Len(H[u])
      BY <3>1 DEF Agree
    <3>3. Agree(H[u], G[u], n)
      BY <1>3, <3>2, AgreeLess DEF Step, Extends
    <3>4. QED
      BY <3>1, <3>3, AgreeTrans
  <2>2. CASE H[u] = <<>>
    <3>1. PICK j \in Server, e \in Entry : G[u] = Append(node[j].log, e) /\ Elected(j, u)
      BY <2>2 DEF Step, Grows
    <3>2. Open(G, t, n)' \/ Fixed(t, n)
      BY <1>2, <2>2
    <3>3. Agree(node[j].log, H[t], n)
      BY <1>2, <3>1, <3>2, NewLeaderHas
    <3>4. Agree(node[j].log, G[u], n)
      <4>1. node[j].log \in Seq(Entry)
        BY NodesTyped
      <4>2. n <= Len(node[j].log)
        BY <3>3 DEF Agree
      <4>3. QED
        BY <3>1, <4>1, <4>2 DEF Agree
    <3>5. QED
      BY <3>3, <3>4, AgreeSym, AgreeTrans
  <2>3. QED
    BY <2>1, <2>2
<1>6. QED
  BY <1>4, <1>5, AgreeSym, AgreeTrans

\* The three parts that protect committed entries survive every step.
LEMMA LocksStep ==
  ASSUME TypeInv, TypeInv', ElectionInv, ElectionInv',
         NEW H \in Histories, NEW G \in Histories, LogInv(H), Step(H, G), HistoryOK(G)'
  PROVE  LaterLeadersHave(G)' /\ AcksHold(G)' /\ CommitsHeld(G)'
BY LaterLeadersStep, AcksStep, CommitsStep

-----------------------------------------------------------------------------
(* The steps that leave every log alone.                                   *)

\* A history extends itself.
LEMMA ExtendsItself ==
  ASSUME NEW H \in Histories
  PROVE  Extends(H, H)
<1> SUFFICES ASSUME NEW t \in Nat PROVE Agree(H[t], H[t], Len(H[t]))
  BY DEF Extends
<1>1. Len(H[t]) \in Nat
  BY HistoryType
<1>2. QED
  BY <1>1 DEF Agree

\* What was known to be committed stays known.
LEMMA KnownKept ==
  ASSUME committed \subseteq committed', committed \subseteq Seq(Entry),
         \A c \in committed : c # <<>>,
         NEW log, NEW n, NEW s \in Nat, NEW t \in Nat, s <= t, Known(log, n, s)
  PROVE  /\ n <= Len(log)
         /\ n > 0 => \E c \in committed' : c[Len(c)].term <= t /\ Agree(log, c, n)
<1>1. n <= Len(log)
  BY DEF Known
<1>2. ASSUME n > 0
      PROVE  \E c \in committed' : c[Len(c)].term <= t /\ Agree(log, c, n)
  <2>1. PICK c \in committed : c[Len(c)].term <= s /\ Agree(log, c, n)
    BY <1>2 DEF Known
  <2>2. c \in Seq(Entry) /\ Len(c) \in Nat /\ c # <<>>
    BY LenType
  <2>3. c[Len(c)].term \in Nat
    <3>1. Len(c) \in 1..Len(c)
      BY <2>2
    <3>2. QED
      BY <2>2, <3>1, EntryType
  <2>4. QED
    BY <2>1, <2>3
<1>3. QED
  BY <1>1, <1>2

\* A step that changes no log and elects nobody.
LEMMA QuietLogs ==
  ASSUME TypeInv, TypeInv', ElectionInv, ElectionInv', NEW H \in Histories, LogInv(H),
         TermsGrow, \A q \in Server : node'[q].log = node[q].log,
         \A q \in Server : node'[q].state = "leader" =>
           /\ node[q].state = "leader" /\ node'[q].term = node[q].term
           /\ \A p \in Server : /\ node'[q].matchIndex[p] <= Len(node[q].log)
                                /\ node'[q].nextIndex[p] <= Len(node[q].log) + 1,
         ballots \subseteq ballots', elections' = elections, committed \subseteq committed',
         VotesFair, AcksReal(H), NewCommits(H, H),
         RequestsOK(H)', ResponsesOK(H)', CommitsKnown'
  PROVE  LogInv(H)'
<1>1. Step(H, H)
  <2>1. LogsKept(H)
    BY DEF LogsKept
  <2>2. Grows(H, H)
    BY DEF Grows
  <2>3. QED
    BY <2>1, <2>2, ExtendsItself DEF Step
<1>2. HistoryOK(H)'
  <2>1. \A t \in Nat : Led(t) => Led(t)'
    BY DEF Led
  <2>2. HistoryOK(H)
    BY DEF LogInv
  <2>3. QED
    BY <2>1, <2>2 DEF HistoryOK
<1>3. LogsOK(H)'
  <2> SUFFICES ASSUME NEW i \in Server
               PROVE  Explained(H, node'[i].log) /\ Monotone(node'[i].log, node'[i].term)
    BY DEF LogsOK
  <2>1. Explained(H, node[i].log) /\ Monotone(node[i].log, node[i].term)
    BY DEF LogInv, LogsOK
  <2>2. /\ node[i].term \in Nat /\ node'[i].term \in Nat /\ node[i].term <= node'[i].term
        /\ node[i].log \in Seq(Entry)
    BY NodesTyped DEF TermsGrow
  <2>3. \A k \in 1..Len(node[i].log) : node[i].log[k].term \in Nat
    BY <2>2, EntryType
  <2>4. Monotone(node[i].log, node'[i].term)
    BY <2>1, <2>2, <2>3 DEF Monotone
  <2>5. QED
    BY <2>1, <2>4
<1>4. LeadersOK(H)'
  <2> SUFFICES ASSUME NEW i \in Server, node'[i].state = "leader"
               PROVE  /\ <<node'[i].term, i>> \in elections'
                      /\ node'[i].log = H[node'[i].term] /\ node'[i].log # <<>>
                      /\ \A p \in Server : /\ node'[i].matchIndex[p] <= Len(node'[i].log)
                                           /\ node'[i].nextIndex[p] <= Len(node'[i].log) + 1
    BY DEF LeadersOK
  <2>1. /\ <<node[i].term, i>> \in elections
        /\ node[i].log = H[node[i].term] /\ node[i].log # <<>>
    BY DEF LogInv, LeadersOK
  <2>2. QED
    BY <2>1
<1>5. LaterLeadersHave(H)' /\ AcksHold(H)' /\ CommitsHeld(H)'
  BY <1>1, <1>2, LocksStep
<1>6. QED
  BY <1>2, <1>3, <1>4, <1>5 DEF LogInv

\* A step that changes no log, accepts no entries, answers none with success
\* and moves no commitIndex but to 0.
Calm ==
  /\ \A q \in Server :
       /\ node'[q].log = node[q].log /\ node[q].term <= node'[q].term
       /\ node'[q].commitIndex = node[q].commitIndex \/ node'[q].commitIndex = 0
       /\ node'[q].state = "leader" =>
            /\ node[q].state = "leader" /\ node'[q].term = node[q].term
            /\ node'[q].matchIndex = node[q].matchIndex
            /\ \A p \in Server : node'[q].nextIndex[p] <= node[q].nextIndex[p]
  /\ appendReq' \subseteq appendReq
  /\ \A r \in appendResp' : r \in appendResp \/ ~r.success
  /\ ballots \subseteq ballots' /\ elections' = elections /\ committed' = committed

\* A calm step keeps the invariant, with the same history.
LEMMA CalmStep ==
  ASSUME TypeInv, TypeInv', ElectionInv, ElectionInv', NEW H \in Histories, LogInv(H),
         Calm, VotesFair
  PROVE  LogInv(H)'
<1>1. TermsGrow /\ \A q \in Server : node'[q].log = node[q].log
  BY DEF Calm, TermsGrow
<1>2. \A t \in Nat, n \in Nat \ {0}, q \in Server : Acked(t, n, q)' => Acked(t, n, q)
  BY DEF Calm, Acked
<1>3. AcksReal(H)
  BY <1>2 DEF AcksReal
<1>4. NewCommits(H, H)
  BY DEF NewCommits, Calm
<1>5. ResponsesOK(H)'
  BY DEF LogInv, ResponsesOK, Calm
<1>6. committed \subseteq Seq(Entry) /\ \A c \in committed : c # <<>>
  BY DEF TypeInv, TypeOK, LogInv, CommitsHeld
<1>7. RequestsOK(H)'
  <2>1. \A log, n, t : Known(log, n, t) => Known(log, n, t)'
    BY DEF Known, Calm
  <2>2. RequestsOK(H)
    BY DEF LogInv
  <2>3. QED
    BY <2>1, <2>2 DEF RequestsOK, Calm
<1>8. CommitsKnown'
  <2> SUFFICES ASSUME NEW q \in Server
               PROVE  Known(node[q].log, node[q].commitIndex, node[q].term)'
    BY DEF CommitsKnown
  <2>1. Known(node[q].log, node[q].commitIndex, node[q].term)
    BY DEF LogInv, CommitsKnown
  <2>2. /\ node[q].term \in Nat /\ node'[q].term \in Nat /\ node[q].term <= node'[q].term
        /\ Len(node[q].log) \in Nat
    BY NodesTyped, LenType DEF Calm
  <2> DEFINE log == node[q].log
             n == node[q].commitIndex
             s == node[q].term
             t == node'[q].term
  <2>3. CASE node'[q].commitIndex = node[q].commitIndex
    <3>1. Known(log, n, s) /\ s \in Nat /\ t \in Nat /\ s <= t /\ committed \subseteq committed'
      BY <2>1, <2>2 DEF Calm
    <3>2. node'[q].log = log /\ node'[q].commitIndex = n
      BY <2>3 DEF Calm
    <3> HIDE DEF log, n, s, t
    <3>3. /\ n <= Len(log)
          /\ n > 0 => \E c \in committed' : c[Len(c)].term <= t /\ Agree(log, c, n)
      BY <1>6, <3>1, KnownKept
    <3>4. QED
      BY <3>2, <3>3 DEF Known, t
  <2>4. CASE node'[q].commitIndex = 0
    BY <2>2, <2>4 DEF Known, Calm
  <2>5. QED
    BY <2>3, <2>4 DEF Calm
<1>9. ASSUME NEW q \in Server, node'[q].state = "leader"
      PROVE  /\ node[q].state = "leader" /\ node'[q].term = node[q].term
             /\ \A p \in Server : /\ node'[q].matchIndex[p] <= Len(node[q].log)
                                  /\ node'[q].nextIndex[p] <= Len(node[q].log) + 1
  <2>1. /\ node[q].state = "leader" /\ node'[q].term = node[q].term
        /\ node'[q].matchIndex = node[q].matchIndex
        /\ \A p \in Server : node'[q].nextIndex[p] <= node[q].nextIndex[p]
    BY <1>9 DEF Calm
  <2>2. ASSUME NEW p \in Server
        PROVE  node'[q].nextIndex[p] <= Len(node[q].log) + 1
    <3>1. node[q] \in Node /\ node'[q] \in Node
      BY DEF TypeInv, TypeOK
    <3>2. node[q].nextIndex[p] \in Nat /\ node'[q].nextIndex[p] \in Nat
      BY <3>1, NodeType
    <3>3. node[q].nextIndex[p] <= Len(node[q].log) + 1 /\ Len(node[q].log) \in Nat
      BY <2>1, <3>1, NodeType, LenType DEF LogInv, LeadersOK
    <3>4. QED
      BY <2>1, <3>2, <3>3
  <2>3. QED
    BY <2>1, <2>2 DEF LogInv, LeadersOK
<1>10. QED
  BY <1>1, <1>3, <1>4, <1>5, <1>7, <1>8, <1>9, QuietLogs DEF Calm

\* Without new votes, candidates stay what they were or stop being candidates.
LEMMA NoNewVotes ==
  ASSUME ballots' = ballots,
         \A j \in Server : node'[j].state = "candidate" =>
           /\ node[j].state = "candidate" /\ node'[j].term = node[j].term
           /\ node'[j].log = node[j].log
  PROVE  VotesFair
BY DEF VotesFair

-----------------------------------------------------------------------------
(* A leader appends one entry, when it is elected or for Propose.          *)

\* What Append does to a log.
LEMMA AppendLog ==
  ASSUME NEW log \in Seq(Entry), NEW e \in Entry
  PROVE  /\ Append(log, e) \in Seq(Entry) /\ Len(Append(log, e)) = Len(log) + 1
         /\ \A k \in 1..Len(log) : Append(log, e)[k] = log[k]
         /\ Append(log, e)[Len(log) + 1] = e
OBVIOUS

\* A log with one more entry agrees with the log before.
LEMMA AgreeFront ==
  ASSUME NEW a, NEW b, Len(a) \in Nat, Len(b) = Len(a) + 1, \A k \in 1..Len(a) : b[k] = a[k]
  PROVE  Agree(a, b, Len(a))
BY DEF Agree

\* The new entry of the leader of term t: its log stays explained and monotone.
LEMMA AppendExplained ==
  ASSUME NEW H, NEW log \in Seq(Entry), Explained(H, log), NEW s \in Nat, Monotone(log, s),
         NEW t \in Nat, s <= t, NEW e \in Entry, e.term = t, H[t] = Append(log, e)
  PROVE  Explained(H, H[t]) /\ Monotone(H[t], t)
<1> DEFINE L == H[t]
           n == Len(log)
<1>1. n \in Nat /\ Len(L) = n + 1
  BY AppendLog, LenType
<1>2. (\A k \in 1..n : L[k] = log[k]) /\ L[n + 1] = e
  BY AppendLog
<1>3. \A k \in 1..n : log[k].term \in Nat
  BY EntryType
<1>4. \A k \in 1..n : Agree(log, H[log[k].term], k)
  BY DEF Explained
<1> HIDE DEF L, n
<1>5. ASSUME NEW k \in 1..Len(L)
      PROVE  /\ Agree(L, H[L[k].term], k)
             /\ L[k].term <= t /\ \A m \in 1..k : L[m].term <= L[k].term
  <2>1. CASE k = n + 1
    <3>1. L[k].term = t
      BY <1>2, <2>1
    <3>2. Agree(L, L, k)
      BY <1>1, <2>1 DEF Agree
    <3>3. \A m \in 1..n : L[m].term <= t
      <4>1. \A m \in 1..n : log[m].term <= s
        BY DEF Monotone, n
      <4>2. QED
        BY <1>2, <1>3, <4>1
    <3>4. \A m \in 1..k : m = k \/ m \in 1..n
      BY <1>1, <2>1
    <3>5. H[L[k].term] = L /\ L[k].term <= t
      BY <3>1 DEF L
    <3>6. \A m \in 1..k : L[m].term <= L[k].term
      BY <3>1, <3>3, <3>4
    <3>7. QED
      BY <3>2, <3>5, <3>6
  <2>2. CASE k # n + 1
    <3>1. k \in 1..n /\ k <= Len(L)
      BY <1>1, <2>2
    <3>2. L[k] = log[k] /\ \A m \in 1..k : L[m] = log[m]
      BY <1>1, <1>2, <3>1
    <3>3. Agree(log, H[log[k].term], k)
      BY <1>4, <3>1
    <3>4. Agree(L, log, k)
      <4>1. k <= Len(log)
        BY <1>1, <3>1 DEF n
      <4>2. QED
        BY <3>1, <3>2, <4>1 DEF Agree
    <3>5. log[k].term <= s /\ \A m \in 1..k : log[m].term <= log[k].term
      BY <3>1 DEF Monotone, n
    <3>6. log[k].term \in Nat
      BY <1>3, <3>1
    <3>7. log[k].term <= t
      BY <3>5, <3>6
    <3>8. QED
      BY <3>2, <3>3, <3>4, <3>5, <3>7, AgreeTrans
  <2>3. QED
    BY <2>1, <2>2
<1>6. QED
  BY <1>5 DEF Explained, Monotone, L

\* A log whose terms are in order for one term is so for a later one.
LEMMA MonotoneLater ==
  ASSUME NEW log \in Seq(Entry), NEW s \in Nat, NEW t \in Nat, s <= t, Monotone(log, s)
  PROVE  Monotone(log, t)
<1>1. \A k \in 1..Len(log) : log[k].term \in Nat
  BY EntryType
<1>2. QED
  BY <1>1 DEF Monotone

\* Longer histories still explain what they did.
LEMMA RequestsLonger ==
  ASSUME TypeInv, NEW H \in Histories, NEW G \in Histories, Extends(H, G), RequestsOK(H)
  PROVE  RequestsOK(G)
<1> SUFFICES ASSUME NEW r \in appendReq
             PROVE  /\ G[r.term] # <<>>
                    /\ r.prevLogIndex + Len(r.entries) <= Len(G[r.term])
                    /\ r.prevLogTerm = termAtLocked(G[r.term], r.prevLogIndex)
                    /\ \A k \in 1..Len(r.entries) :
                         r.entries[k] = G[r.term][r.prevLogIndex + k]
                    /\ Known(G[r.term], r.leaderCommit, r.term)
  BY DEF RequestsOK
<1> DEFINE old == H[r.term]
           new == G[r.term]
           p == r.prevLogIndex
           n == Len(r.entries)
           c == r.leaderCommit
<1>1. /\ r.term \in Nat /\ p \in Nat /\ n \in Nat /\ c \in Nat
  BY LenType DEF TypeInv, TypeOK, AppendReq
<1>2. /\ old # <<>> /\ p + n <= Len(old) /\ r.prevLogTerm = termAtLocked(old, p)
      /\ \A k \in 1..n : r.entries[k] = old[p + k]
      /\ Known(old, c, r.term)
  BY DEF RequestsOK
<1>3. Agree(old, new, Len(old))
  BY <1>1 DEF Extends
<1>4. Len(old) \in Nat /\ Len(new) \in Nat /\ old \in Seq(Entry)
  BY <1>1, HistoryType
<1> HIDE DEF old, new, p, n, c
<1>5. Len(old) <= Len(new) /\ \A k \in 1..Len(old) : old[k] = new[k]
  BY <1>3 DEF Agree
<1>6. new # <<>>
  BY <1>2, <1>4, <1>5
<1>7. p + n <= Len(new)
  BY <1>1, <1>2, <1>4, <1>5
<1>8. termAtLocked(new, p) = termAtLocked(old, p)
  <2>1. p <= Len(old)
    BY <1>1, <1>2, <1>4
  <2>2. CASE p = 0
    BY <2>2 DEF termAtLocked
  <2>3. CASE p # 0
    <3>1. p \in 1..Len(old) /\ p \in 1..Len(new)
      BY <1>1, <1>4, <1>5, <2>1, <2>3
    <3>2. QED
      BY <1>5, <3>1 DEF termAtLocked
  <2>4. QED
    BY <2>2, <2>3
<1>9. ASSUME NEW k \in 1..n
      PROVE  r.entries[k] = new[p + k]
  <2>1. p + k \in 1..Len(old)
    BY <1>1, <1>2, <1>4
  <2>2. QED
    BY <1>2, <1>5, <2>1
<1>10. Known(new, c, r.term)
  <2>1. c <= Len(old) /\ (c > 0 => \E d \in committed : /\ d[Len(d)].term <= r.term
                                                        /\ Agree(old, d, c))
    BY <1>2 DEF Known
  <2>2. c <= Len(new)
    BY <1>1, <1>4, <1>5, <2>1
  <2>3. Agree(new, old, c)
    BY <1>1, <1>3, <1>4, <2>1, AgreeLess, AgreeSym
  <2>4. \A d : Agree(old, d, c) => Agree(new, d, c)
    BY <2>3, AgreeTrans
  <2>5. QED
    BY <2>1, <2>2, <2>4 DEF Known
<1>11. QED
  BY <1>2, <1>6, <1>7, <1>8, <1>9, <1>10 DEF old, new, p, n, c

\* Node i appends e as leader of its term: H grows by the same entry.
Appends(i, e) ==
  /\ \A q \in Server : q # i => node'[q] = node[q]
  /\ node'[i].state = "leader" /\ node'[i].log = Append(node[i].log, e)
  /\ e.term = node'[i].term /\ node[i].term <= node'[i].term
  /\ node'[i].commitIndex = node[i].commitIndex
  /\ committed' = committed /\ appendReq' = appendReq /\ appendResp' = appendResp
  /\ ballots \subseteq ballots' /\ \A b \in ballots' : b \in ballots \/ b[3] = i
  /\ elections \subseteq elections' /\ <<node'[i].term, i>> \in elections'
  /\ \/ /\ node[i].state = "leader" /\ node'[i].term = node[i].term
        /\ node'[i].matchIndex = node[i].matchIndex
        /\ node'[i].nextIndex = node[i].nextIndex
     \/ /\ <<node'[i].term, i>> \notin elections /\ Elected(i, node'[i].term)
        /\ \A p \in Server : /\ node'[i].matchIndex[p] = 0
                             /\ node'[i].nextIndex[p] <= Len(node'[i].log) + 1

\* What i appends to is the history of its term so far, or that is empty.
LEMMA AppendsToHistory ==
  ASSUME TypeInv', ElectionInv', NEW H \in Histories, LogInv(H),
         NEW i \in Server, NEW e, Appends(i, e)
  PROVE  \/ H[node'[i].term] # <<>> /\ node[i].log = H[node'[i].term]
         \/ H[node'[i].term] = <<>> /\ Elected(i, node'[i].term)
<1> DEFINE t == node'[i].term
<1>1. CASE node[i].state = "leader" /\ t = node[i].term
  BY <1>1 DEF LogInv, LeadersOK
<1>2. CASE <<t, i>> \notin elections /\ Elected(i, t)
  <2>1. t \in Nat
    BY NodeType DEF TypeInv, TypeOK
  <2>2. ASSUME H[t] # <<>>
        PROVE  FALSE
    <3>1. PICK l \in Server : <<t, l>> \in elections
      BY <2>1, <2>2 DEF LogInv, HistoryOK, Led
    <3>2. <<t, l>> \in elections' /\ <<t, i>> \in elections'
      BY <3>1 DEF Appends
    <3>3. PICK Q \in SUBSET Server : Majority(Q) /\ \A q \in Q : <<q, t, l>> \in ballots'
      BY <3>2 DEF ElectionInv, LeadersElected, Majority
    <3>4. PICK R \in SUBSET Server : Majority(R) /\ \A q \in R : <<q, t, i>> \in ballots'
      BY <3>2 DEF ElectionInv, LeadersElected, Majority
    <3>5. PICK q \in Server : q \in Q /\ q \in R
      BY <3>3, <3>4, MajoritiesMeet
    <3>6. l = i
      BY <3>3, <3>4, <3>5 DEF ElectionInv, VoteOnce
    <3>7. QED
      BY <1>2, <3>1, <3>6
  <2>3. QED
    BY <1>2, <2>2
<1>3. QED
  BY <1>1, <1>2 DEF Appends

\* With the new entry in the history of its leader's term, the invariant holds again.
LEMMA AppendsStep ==
  ASSUME TypeInv, TypeInv', ElectionInv, ElectionInv', NEW H \in Histories, LogInv(H),
         NEW i \in Server, NEW e \in Entry, Appends(i, e),
         NEW G \in Histories, G = [H EXCEPT ![node'[i].term] = node'[i].log]
  PROVE  LogInv(G)'
<1> DEFINE t == node'[i].term
           L == node'[i].log
           s == node[i].term
           log == node[i].log
<1>1. /\ t \in Nat /\ s \in Nat /\ log \in Seq(Entry) /\ L \in Seq(Entry)
      /\ Len(log) \in Nat /\ Len(L) \in Nat
  BY NodesTyped, LenType
<1>2. G[t] = L /\ \A u \in Nat : u # t => G[u] = H[u]
  BY <1>1 DEF Histories
<1>3. L = Append(log, e) /\ e.term = t /\ s <= t
  BY DEF Appends
<1>4. \/ H[t] # <<>> /\ log = H[t]
      \/ H[t] = <<>> /\ Elected(i, t)
  BY AppendsToHistory
<1>5. \A q \in Server : q # i => node'[q] = node[q]
  BY DEF Appends
<1>6. /\ node'[i].state = "leader" /\ <<t, i>> \in elections'
      /\ node'[i].commitIndex = node[i].commitIndex
      /\ elections \subseteq elections' /\ ballots \subseteq ballots'
      /\ committed' = committed /\ appendReq' = appendReq /\ appendResp' = appendResp
  BY DEF Appends
<1>7. Len(L) = Len(log) + 1 /\ L # <<>> /\ Agree(log, L, Len(log))
  <2>1. Len(L) = Len(log) + 1 /\ \A k \in 1..Len(log) : L[k] = log[k]
    BY <1>1, <1>3, AppendLog
  <2>2. QED
    BY <1>1, <2>1, AgreeFront
<1> HIDE DEF t, L, s, log
<1>8. Extends(H, G)
  <2> SUFFICES ASSUME NEW u \in Nat PROVE Agree(H[u], G[u], Len(H[u]))
    BY DEF Extends
  <2>1. CASE u # t
    <3>1. Len(H[u]) \in Nat
      BY HistoryType
    <3>2. QED
      BY <1>2, <2>1, <3>1 DEF Agree
  <2>2. CASE u = t /\ log = H[t]
    BY <1>2, <1>7, <2>2
  <2>3. CASE u = t /\ H[t] = <<>>
    <3>1. Len(H[u]) = 0
      BY <2>3
    <3>2. QED
      BY <1>1, <1>2, <2>3, <3>1 DEF Agree
  <2>4. QED
    BY <1>4, <2>1, <2>2, <2>3
<1>9. /\ HistoryOK(H) /\ LogsOK(H) /\ LeadersOK(H) /\ RequestsOK(H) /\ ResponsesOK(H)
      /\ CommitsKnown
  BY DEF LogInv
<1>10. Explained(G, L) /\ Monotone(L, t)
  <2>1. Explained(H, log) /\ Monotone(log, s)
    BY <1>9 DEF LogsOK, log, s
  <2>2. Explained(G, log)
    BY <1>1, <1>8, <2>1, ExplainedKept
  <2>3. G[t] = Append(log, e) /\ e.term = t /\ s <= t
    BY <1>2, <1>3
  <2>4. log \in Seq(Entry) /\ s \in Nat /\ t \in Nat
    BY <1>1
  <2>5. Explained(G, G[t]) /\ Monotone(G[t], t)
    BY <2>1, <2>2, <2>3, <2>4, AppendExplained, Zenon
  <2>6. QED
    BY <1>2, <2>5
<1>11. HistoryOK(G)'
  <2> SUFFICES ASSUME NEW u \in Nat
               PROVE  /\ Explained(G, G[u]) /\ Monotone(G[u], u)
                      /\ G[u] # <<>> => Led(u)'
    BY DEF HistoryOK
  <2>1. CASE u = t
    BY <1>2, <1>6, <1>10, <2>1 DEF Led
  <2>2. CASE u # t
    <3>1. Explained(H, H[u]) /\ Monotone(H[u], u) /\ (H[u] # <<>> => Led(u))
      BY <1>9 DEF HistoryOK
    <3>2. H[u] \in Seq(Entry)
      BY HistoryType
    <3>3. Explained(G, H[u])
      BY <1>8, <3>1, <3>2, ExplainedKept
    <3>4. Led(u) => Led(u)'
      BY <1>6 DEF Led
    <3>5. QED
      BY <1>2, <2>2, <3>1, <3>3, <3>4
  <2>3. QED
    BY <2>1, <2>2
<1>12. LogsOK(G)'
  <2> SUFFICES ASSUME NEW q \in Server
               PROVE  Explained(G, node'[q].log) /\ Monotone(node'[q].log, node'[q].term)
    BY DEF LogsOK
  <2>1. CASE q = i
    BY <1>10, <2>1 DEF L, t
  <2>2. CASE q # i
    <3>1. Explained(H, node[q].log) /\ Monotone(node[q].log, node[q].term)
      BY <1>9 DEF LogsOK
    <3>2. node[q].log \in Seq(Entry)
      BY NodesTyped
    <3>3. Explained(G, node[q].log)
      BY <1>8, <3>1, <3>2, ExplainedKept
    <3>4. QED
      BY <1>5, <2>2, <3>1, <3>3
  <2>3. QED
    BY <2>1, <2>2
<1>13. LeadersOK(G)'
  <2> SUFFICES ASSUME NEW q \in Server, node'[q].state = "leader"
               PROVE  /\ <<node'[q].term, q>> \in elections'
                      /\ node'[q].log = G[node'[q].term] /\ node'[q].log # <<>>
                      /\ \A p \in Server : /\ node'[q].matchIndex[p] <= Len(node'[q].log)
                                           /\ node'[q].nextIndex[p] <= Len(node'[q].log) + 1
    BY DEF LeadersOK
  <2>1. CASE q = i
    <3>1. \A p \in Server : node'[i].matchIndex[p] <= Len(L) /\ node'[i].nextIndex[p] <= Len(L) + 1
      <4>1. CASE /\ node[i].state = "leader"
                 /\ node'[i].matchIndex = node[i].matchIndex
                 /\ node'[i].nextIndex = node[i].nextIndex
        <5>1. \A p \in Server : /\ node[i].matchIndex[p] <= Len(log)
                                /\ node[i].nextIndex[p] <= Len(log) + 1
          BY <1>9, <4>1 DEF LeadersOK, log
        <5>2. \A p \in Server : node[i].matchIndex[p] \in Nat /\ node[i].nextIndex[p] \in Nat
          BY NodeType DEF TypeInv, TypeOK
        <5>3. QED
          BY <1>1, <1>7, <4>1, <5>1, <5>2
      <4>2. CASE \A p \in Server : /\ node'[i].matchIndex[p] = 0
                                   /\ node'[i].nextIndex[p] <= Len(L) + 1
        BY <1>1, <4>2
      <4>3. QED
        BY <4>1, <4>2 DEF Appends, L
    <3>2. QED
      BY <1>2, <1>6, <1>7, <2>1, <3>1 DEF L, t
  <2>2. CASE q # i
    <3>1. /\ node[q].state = "leader" /\ node'[q] = node[q]
      BY <1>5, <2>2
    <3>2. /\ <<node[q].term, q>> \in elections
          /\ node[q].log = H[node[q].term] /\ node[q].log # <<>>
          /\ \A p \in Server : /\ node[q].matchIndex[p] <= Len(node[q].log)
                               /\ node[q].nextIndex[p] <= Len(node[q].log) + 1
      BY <1>9, <3>1 DEF LeadersOK
    <3>3. node[q].term \in Nat
      BY NodesTyped
    <3>4. node[q].term # t
      <4>1. ASSUME node[q].term = t
            PROVE  FALSE
        <5>1. <<t, q>> \in elections' /\ <<t, i>> \in elections'
          BY <1>6, <3>2, <4>1
        <5>2. PICK Q \in SUBSET Server : Majority(Q) /\ \A v \in Q : <<v, t, q>> \in ballots'
          BY <5>1 DEF ElectionInv, LeadersElected, Majority
        <5>3. PICK R \in SUBSET Server : Majority(R) /\ \A v \in R : <<v, t, i>> \in ballots'
          BY <5>1 DEF ElectionInv, LeadersElected, Majority
        <5>4. PICK v \in Server : v \in Q /\ v \in R
          BY <5>2, <5>3, MajoritiesMeet
        <5>5. QED
          BY <2>2, <5>2, <5>3, <5>4 DEF ElectionInv, VoteOnce
      <4>2. QED
        BY <4>1
    <3>5. QED
      BY <1>2, <1>6, <3>1, <3>2, <3>3, <3>4
  <2>3. QED
    BY <2>1, <2>2
<1>14. RequestsOK(G)'
  <2>1. RequestsOK(G)
    BY <1>2, <1>8, <1>9, RequestsLonger
  <2>2. QED
    BY <1>6, <2>1 DEF RequestsOK, Known
<1>15. ResponsesOK(G)'
  <2> SUFFICES ASSUME NEW r \in appendResp, r.success PROVE r.lastNew <= Len(G[r.reqTerm])
    BY <1>6 DEF ResponsesOK
  <2>1. r.lastNew \in Nat /\ r.reqTerm \in Nat
    BY DEF TypeInv, TypeOK, AppendResp
  <2>2. r.lastNew <= Len(H[r.reqTerm])
    BY <1>9 DEF ResponsesOK
  <2>3. Len(H[r.reqTerm]) <= Len(G[r.reqTerm])
    BY <1>8, <2>1 DEF Extends, Agree
  <2>4. Len(H[r.reqTerm]) \in Nat /\ Len(G[r.reqTerm]) \in Nat
    BY <1>2, <2>1, HistoryType
  <2>5. QED
    BY <2>1, <2>2, <2>3, <2>4
<1>16. CommitsKnown'
  <2> SUFFICES ASSUME NEW q \in Server
               PROVE  Known(node[q].log, node[q].commitIndex, node[q].term)'
    BY DEF CommitsKnown
  <2>1. CASE q # i
    BY <1>5, <1>6, <1>9, <2>1 DEF CommitsKnown, Known
  <2>2. CASE q = i
    <3> DEFINE n == node[i].commitIndex
    <3>1. Known(log, n, s)
      BY <1>9 DEF CommitsKnown, log, s
    <3>2. n \in Nat
      BY NodeType DEF TypeInv, TypeOK
    <3>3. committed \subseteq Seq(Entry) /\ \A c \in committed : c # <<>>
      BY DEF TypeInv, TypeOK, LogInv, CommitsHeld
    <3> HIDE DEF n
    <3>4. /\ n <= Len(log)
          /\ n > 0 => \E c \in committed' : c[Len(c)].term <= t /\ Agree(log, c, n)
      BY <1>1, <1>3, <1>6, <3>1, <3>3, KnownKept
    <3>5. Agree(L, log, n)
      BY <1>1, <1>7, <3>2, <3>4, AgreeLess, AgreeSym
    <3>6. \A c : Agree(log, c, n) => Agree(L, c, n)
      BY <3>5, AgreeTrans
    <3>7. n <= Len(L)
      BY <1>1, <1>7, <3>2, <3>4
    <3>8. node'[i].commitIndex = n /\ node'[i].log = L /\ node'[i].term = t
      BY <1>6 DEF n, L, t
    <3>9. QED
      BY <2>2, <3>4, <3>6, <3>7, <3>8 DEF Known
  <2>3. QED
    BY <2>1, <2>2
<1>17. Step(H, G)
  <2>1. TermsGrow
    <3>1. \A q \in Server : node[q].term \in Nat
      BY NodesTyped
    <3>2. QED
      BY <1>3, <1>5, <3>1 DEF TermsGrow, s, t
  <2>2. LogsKept(H)
    <3> SUFFICES ASSUME NEW u \in Nat, NEW q \in Server, NEW n, Locked(H, u, n),
                        Agree(node[q].log, H[u], n)
                 PROVE  Agree(node'[q].log, H[u], n)
      BY DEF LogsKept
    <3>1. CASE q # i
      BY <1>5, <3>1
    <3>2. CASE q = i
      <4>1. n \in Nat
        BY LockedIsOwn, OwnWithin DEF LogInv
      <4>2. Agree(log, H[u], n)
        BY <3>2 DEF log
      <4>3. n <= Len(log)
        BY <4>2 DEF Agree
      <4>4. Agree(L, log, n)
        BY <1>1, <1>7, <4>1, <4>3, AgreeLess, AgreeSym
      <4>5. Agree(L, H[u], n)
        BY <4>2, <4>4, AgreeTrans
      <4>6. QED
        BY <3>2, <4>5 DEF L
    <3>3. QED
      BY <3>1, <3>2
  <2>3. VotesFair
    <3> SUFFICES ASSUME NEW j \in Server, NEW q \in Server, node'[j].state = "candidate",
                        <<q, node'[j].term, j>> \in ballots'
                 PROVE  /\ node'[j].log = node[j].log
                        /\ node[j].state = "candidate" /\ node[j].term = node'[j].term
                        /\ <<q, node[j].term, j>> \in ballots
      BY DEF VotesFair
    <3>1. j # i
      BY <1>6
    <3>2. QED
      BY <1>5, <3>1 DEF Appends
  <2>4. AcksReal(G)
    <3>1. ASSUME NEW u \in Nat, NEW n \in Nat \ {0}, NEW q \in Server, Acked(u, n, q)'
          PROVE  Acked(u, n, q)
      <4>1. CASE \E r \in appendResp' : r.peer = q /\ r.reqTerm = u /\ r.success /\ r.lastNew >= n
        BY <1>6, <4>1 DEF Acked
      <4>2. CASE \E j \in Server : /\ node'[j].state = "leader" /\ node'[j].term = u
                                   /\ node'[j].matchIndex[q] >= n
        <5>1. PICK j \in Server : /\ node'[j].state = "leader" /\ node'[j].term = u
                                  /\ node'[j].matchIndex[q] >= n
          BY <4>2
        <5>2. CASE j # i
          BY <1>5, <5>1, <5>2 DEF Acked
        <5>3. CASE j = i
          <6>1. ~(node'[i].matchIndex[q] = 0)
            BY <5>1, <5>3
          <6>2. /\ node[i].state = "leader" /\ node'[i].term = node[i].term
                /\ node'[i].matchIndex = node[i].matchIndex
            BY <6>1 DEF Appends
          <6>3. QED
            BY <5>1, <5>3, <6>2 DEF Acked
        <5>4. QED
          BY <5>2, <5>3
      <4>3. QED
        BY <3>1, <4>1, <4>2 DEF Acked
    <3>2. QED
      BY <3>1 DEF AcksReal
  <2>5. Grows(H, G)
    <3> SUFFICES ASSUME NEW u \in Nat
                 PROVE  \/ G[u] = H[u]
                        \/ \E j \in Server, f \in Entry :
                             /\ G[u] = Append(node[j].log, f)
                             /\ \/ H[u] # <<>> /\ node[j].log = H[u]
                                \/ H[u] = <<>> /\ Elected(j, u)
      BY DEF Grows
    <3>1. CASE u # t
      BY <1>2, <3>1
    <3>2. CASE u = t
      BY <1>2, <1>3, <1>4, <3>2 DEF log
    <3>3. QED
      BY <3>1, <3>2
  <2>6. NewCommits(H, G)
    BY <1>6 DEF NewCommits
  <2>7. QED
    BY <1>6, <1>8, <2>1, <2>2, <2>3, <2>4, <2>5, <2>6 DEF Step
<1>18. LaterLeadersHave(G)' /\ AcksHold(G)' /\ CommitsHeld(G)'
  BY <1>2, <1>11, <1>17, LocksStep
<1>19. QED
  BY <1>11, <1>12, <1>13, <1>14, <1>15, <1>16, <1>18 DEF LogInv

\* Some history explains the state after a leader has appended an entry.
LEMMA AppendsLogInv ==
  ASSUME TypeInv, TypeInv', ElectionInv, ElectionInv', NEW H \in Histories, LogInv(H),
         NEW i \in Server, NEW e \in Entry, Appends(i, e)
  PROVE  \E G : LogInv(G)'
<1>1. node'[i].term \in Nat /\ node'[i].log \in Seq(Entry)
  BY NodesTyped
<1>2. PICK G \in Histories : G = [H EXCEPT ![node'[i].term] = node'[i].log]
  BY <1>1 DEF Histories
<1>3. LogInv(G)'
  BY <1>2, AppendsStep
<1>4. QED
  BY <1>3

-----------------------------------------------------------------------------
(* A node takes the entries of an AppendEntries call.                      *)

\* A prefix of an explained log is explained.
LEMMA PrefixExplained ==
  ASSUME NEW H, NEW L \in Seq(Entry), NEW t, Explained(H, L), Monotone(L, t),
         NEW M \in Seq(Entry), Agree(M, L, Len(M))
  PROVE  Explained(H, M) /\ Monotone(M, t)
<1>1. Len(M) \in Nat /\ Len(L) \in Nat
  BY LenType
<1>2. Len(M) <= Len(L) /\ \A k \in 1..Len(M) : M[k] = L[k]
  BY DEF Agree
<1>3. ASSUME NEW k \in 1..Len(M)
      PROVE  /\ Agree(M, H[M[k].term], k)
             /\ M[k].term <= t /\ \A m \in 1..k : M[m].term <= M[k].term
  <2>1. k \in 1..Len(L) /\ k \in Nat /\ k <= Len(M) /\ M[k] = L[k]
    BY <1>1, <1>2
  <2>2. \A m \in 1..k : m \in 1..Len(M)
    BY <1>1
  <2>3. Agree(L, H[L[k].term], k)
    BY <2>1 DEF Explained
  <2>4. Agree(M, L, k)
    BY <1>1, <2>1, AgreeLess
  <2>5. L[k].term <= t /\ \A m \in 1..k : L[m].term <= L[k].term
    BY <2>1 DEF Monotone
  <2>6. QED
    BY <1>2, <2>1, <2>2, <2>3, <2>4, <2>5, AgreeTrans
<1>4. QED
  BY <1>3 DEF Explained, Monotone

\* Node i accepts the entries of call r.
Accepts(i, r) ==
  /\ node[i].term <= r.term /\ r.prevLogIndex <= Len(node[i].log)
  /\ termAtLocked(node[i].log, r.prevLogIndex) = r.prevLogTerm
  /\ \A q \in Server : q # i => node'[q] = node[q]
  /\ node'[i].state = "follower" /\ node'[i].term = r.term
  /\ node'[i].log = MergeEntries(node[i].log, r.prevLogIndex, r.entries)
  /\ \/ node'[i].commitIndex = node[i].commitIndex
     \/ /\ node'[i].commitIndex <= r.leaderCommit
        /\ node'[i].commitIndex <= r.prevLogIndex + Len(r.entries)
  /\ appendReq' \subseteq appendReq
  /\ \A a \in appendResp' :
       \/ a \in appendResp
       \/ /\ a.peer = i /\ a.reqTerm = r.term
          /\ a.lastNew = r.prevLogIndex + Len(r.entries)
  /\ ballots' = ballots /\ elections' = elections /\ committed' = committed

\* The merged log has the leader's entries and keeps what it shared with the leader.
LEMMA AcceptsMerge ==
  ASSUME TypeInv, NEW H \in Histories, LogInv(H), NEW i \in Server, NEW r \in appendReq,
         Accepts(i, r)
  PROVE  /\ H[r.term] # <<>> /\ r.prevLogIndex + Len(r.entries) <= Len(H[r.term])
         /\ node'[i].log \in Seq(Entry)
         /\ Agree(node'[i].log, H[r.term], r.prevLogIndex + Len(r.entries))
         /\ \/ node'[i].log = node[i].log
            \/ Len(node'[i].log) = r.prevLogIndex + Len(r.entries)
         /\ \A n \in Nat : Agree(node[i].log, H[r.term], n) => Agree(node[i].log, node'[i].log, n)
<1> DEFINE L == H[r.term]
           log == node[i].log
           prev == r.prevLogIndex
           entries == r.entries
<1>1. r.term \in Nat /\ prev \in Nat /\ entries \in Seq(Entry)
  BY DEF TypeInv, TypeOK, AppendReq
<1>2. log \in Seq(Entry) /\ Explained(H, log)
  BY NodeType DEF TypeInv, TypeOK, LogInv, LogsOK
<1>3. L \in Seq(Entry) /\ Explained(H, L)
  BY <1>1, HistoryType DEF LogInv, HistoryOK
<1>4. /\ L # <<>> /\ prev + Len(entries) <= Len(L) /\ r.prevLogTerm = termAtLocked(L, prev)
      /\ \A k \in 1..Len(entries) : entries[k] = L[prev + k]
  BY DEF LogInv, RequestsOK
<1>5. prev <= Len(log) /\ SameTerm(log, L, prev)
  BY <1>4 DEF Accepts, SameTerm
<1>6. node'[i].log = MergeEntries(log, prev, entries)
  BY DEF Accepts
<1> HIDE DEF L, log, prev, entries
<1> DEFINE merged == MergeEntries(log, prev, entries)
<1>7. /\ merged \in Seq(Entry)
      /\ Agree(merged, L, prev + Len(entries))
      /\ merged = log \/ Len(merged) = prev + Len(entries)
      /\ \A n \in Nat : Agree(log, L, n) => Agree(log, merged, n)
  BY <1>1, <1>2, <1>3, <1>4, <1>5, MergeAgrees
<1> HIDE DEF merged
<1>8. node'[i].log = merged
  BY <1>6 DEF merged
<1>9. QED
  BY <1>4, <1>7, <1>8 DEF L, log, prev, entries

\* No entry of a locked prefix is cut, and what the leader commits is what the node then has.
LEMMA AcceptsStep ==
  ASSUME TypeInv, TypeInv', ElectionInv, ElectionInv', NEW H \in Histories, LogInv(H),
         NEW i \in Server, NEW r \in appendReq, Accepts(i, r)
  PROVE  LogInv(H)'
<1> DEFINE t == r.term
           s == node[i].term
           L == H[t]
           log == node[i].log
           M == node'[i].log
           last == r.prevLogIndex + Len(r.entries)
<1>1. /\ t \in Nat /\ s \in Nat /\ log \in Seq(Entry) /\ L \in Seq(Entry)
      /\ Len(log) \in Nat /\ Len(L) \in Nat /\ last \in Nat /\ r.leaderCommit \in Nat
  <2>1. /\ r.term \in Nat /\ r.prevLogIndex \in Nat /\ r.entries \in Seq(Entry)
        /\ r.leaderCommit \in Nat
    BY DEF TypeInv, TypeOK, AppendReq
  <2>2. QED
    BY <2>1, NodesTyped, HistoryType, LenType
<1>2. /\ L # <<>> /\ last <= Len(L) /\ M \in Seq(Entry)
      /\ Agree(M, L, last) /\ (M = log \/ Len(M) = last)
      /\ \A n \in Nat : Agree(log, L, n) => Agree(log, M, n)
  BY AcceptsMerge
<1>3. /\ \A q \in Server : q # i => node'[q] = node[q]
      /\ s <= t /\ node'[i].term = t /\ node'[i].state = "follower"
      /\ \/ node'[i].commitIndex = node[i].commitIndex
         \/ node'[i].commitIndex <= r.leaderCommit /\ node'[i].commitIndex <= last
      /\ appendReq' \subseteq appendReq
      /\ \A a \in appendResp' :
           a \in appendResp \/ (a.peer = i /\ a.reqTerm = t /\ a.lastNew = last)
      /\ ballots' = ballots /\ elections' = elections /\ committed' = committed
  BY DEF Accepts
<1>4. /\ HistoryOK(H) /\ LogsOK(H) /\ LeadersOK(H) /\ RequestsOK(H) /\ ResponsesOK(H)
      /\ CommitsKnown /\ LaterLeadersHave(H) /\ CommitsHeld(H)
  BY DEF LogInv
<1>5. Explained(H, log) /\ Monotone(log, s) /\ Explained(H, L) /\ Monotone(L, t)
  BY <1>1, <1>4 DEF LogsOK, HistoryOK
<1>6. Known(L, r.leaderCommit, t)
  BY <1>4 DEF RequestsOK
<1> HIDE DEF t, s, L, log, M, last
\* What may have been committed up to the node's term is in the leader's log.
<1>7. ASSUME NEW u \in Nat, NEW n, Locked(H, u, n), u <= s
      PROVE  Agree(H[u], L, n)
  <2>1. n \in Nat \ {0} /\ n <= Len(H[u])
    BY <1>7, LockedIsOwn, OwnWithin DEF LogInv
  <2>2. CASE u = t
    BY <1>1, <2>1, <2>2 DEF Agree, L
  <2>3. CASE u # t
    <3>1. u < t
      BY <1>1, <1>3, <1>7, <2>3
    <3>2. QED
      BY <1>1, <1>2, <1>4, <1>7, <2>1, <3>1 DEF LaterLeadersHave, L
  <2>4. QED
    BY <2>2, <2>3
<1>8. Explained(H, M) /\ Monotone(M, t)
  <2>1. CASE M = log
    BY <1>1, <1>3, <1>5, <2>1, MonotoneLater
  <2>2. CASE Len(M) = last
    BY <1>1, <1>2, <1>5, <2>2, PrefixExplained
  <2>3. QED
    BY <1>2, <2>1, <2>2
<1>9. HistoryOK(H)'
  <2>1. \A u \in Nat : Led(u) => Led(u)'
    BY <1>3 DEF Led
  <2>2. QED
    BY <1>4, <2>1 DEF HistoryOK
<1>10. LogsOK(H)'
  <2> SUFFICES ASSUME NEW q \in Server
               PROVE  Explained(H, node'[q].log) /\ Monotone(node'[q].log, node'[q].term)
    BY DEF LogsOK
  <2>1. CASE q = i
    BY <1>3, <1>8, <2>1 DEF M
  <2>2. CASE q # i
    BY <1>3, <1>4, <2>2 DEF LogsOK
  <2>3. QED
    BY <2>1, <2>2
<1>11. LeadersOK(H)'
  <2> SUFFICES ASSUME NEW q \in Server, node'[q].state = "leader"
               PROVE  /\ <<node'[q].term, q>> \in elections'
                      /\ node'[q].log = H[node'[q].term] /\ node'[q].log # <<>>
                      /\ \A p \in Server : /\ node'[q].matchIndex[p] <= Len(node'[q].log)
                                           /\ node'[q].nextIndex[p] <= Len(node'[q].log) + 1
    BY DEF LeadersOK
  <2>1. node'[q] = node[q] /\ node[q].state = "leader"
    BY <1>3
  <2>2. QED
    BY <1>3, <1>4, <2>1 DEF LeadersOK
<1>12. RequestsOK(H)'
  <2>1. \A l, n, u : Known(l, n, u) => Known(l, n, u)'
    BY <1>3 DEF Known
  <2>2. QED
    BY <1>3, <1>4, <2>1 DEF RequestsOK
<1>13. ResponsesOK(H)'
  BY <1>2, <1>3, <1>4 DEF ResponsesOK, L
<1>14. CommitsKnown'
  <2> SUFFICES ASSUME NEW q \in Server
               PROVE  Known(node[q].log, node[q].commitIndex, node[q].term)'
    BY DEF CommitsKnown
  <2>1. CASE q # i
    BY <1>3, <1>4, <2>1 DEF CommitsKnown, Known
  <2>2. CASE q = i
    <3> DEFINE n == node'[i].commitIndex
    <3>1. n \in Nat
      BY NodeType DEF TypeInv, TypeOK
    <3>2. ASSUME NEW c \in committed, c[Len(c)].term <= t, Agree(M, c, n)
          PROVE  Known(node[q].log, node[q].commitIndex, node[q].term)'
      <4>1. n <= Len(M)
        BY <3>2 DEF Agree
      <4>2. QED
        BY <1>3, <2>2, <3>2, <4>1 DEF Known, M
    <3>3. CASE n = 0
      <4>1. Len(M) \in Nat
        BY <1>2, LenType
      <4>2. n <= Len(M) /\ ~(n > 0)
        BY <3>3, <4>1
      <4>3. QED
        BY <2>2, <4>2 DEF Known, M
    <3>4. CASE n > 0 /\ n = node[i].commitIndex
      <4>1. PICK c \in committed : c[Len(c)].term <= s /\ Agree(log, c, n)
        BY <1>4, <3>4 DEF CommitsKnown, Known, s, log
      <4> DEFINE m == Len(c)
                 u == c[m].term
      <4>2. c \in Seq(Entry) /\ c # <<>> /\ Agree(c, H[u], m)
        BY <1>4 DEF TypeInv, TypeOK, CommitsHeld
      <4>3. m \in Nat /\ m \in 1..m
        BY <4>2, LenType
      <4>4. u \in Nat
        BY <4>2, <4>3, EntryType
      <4>5. Locked(H, u, m)
        BY DEF Locked, Fixed
      <4>6. n <= m
        BY <4>1 DEF Agree
      <4>7. u <= s /\ u <= t
        BY <1>1, <1>3, <4>1, <4>4
      <4> HIDE DEF u
      <4>8. Agree(H[u], L, m)
        BY <1>7, <4>4, <4>5, <4>7
      <4>9. Agree(c, L, m)
        BY <4>2, <4>8, AgreeTrans DEF u
      <4> HIDE DEF m, n
      <4>10. Agree(c, L, n)
        BY <3>1, <4>3, <4>6, <4>9, AgreeLess
      <4>11. Agree(log, L, n)
        BY <4>1, <4>10, AgreeTrans
      <4>12. Agree(M, log, n)
        BY <1>2, <3>1, <4>11, AgreeSym
      <4>13. Agree(M, c, n)
        BY <4>1, <4>12, AgreeTrans
      <4>14. c[Len(c)].term <= t
        BY <4>7 DEF u, m
      <4>15. QED
        BY <3>2, <4>13, <4>14
    <3>5. CASE n > 0 /\ n <= r.leaderCommit /\ n <= last
      <4>1. r.leaderCommit > 0
        BY <1>1, <3>1, <3>5
      <4>2. PICK c \in committed : c[Len(c)].term <= t /\ Agree(L, c, r.leaderCommit)
        BY <1>6, <4>1 DEF Known
      <4> HIDE DEF n
      <4>3. Agree(L, c, n) /\ Agree(M, L, n)
        BY <1>1, <1>2, <3>1, <3>5, <4>2, AgreeLess
      <4>4. Agree(M, c, n)
        BY <4>3, AgreeTrans
      <4>5. QED
        BY <3>2, <4>2, <4>4
    <3>6. QED
      BY <1>3, <3>1, <3>3, <3>4, <3>5
  <2>3. QED
    BY <2>1, <2>2
<1>15. Step(H, H)
  <2>1. TermsGrow
    <3>1. \A q \in Server : node[q].term \in Nat
      BY NodesTyped
    <3>2. QED
      BY <1>3, <3>1 DEF TermsGrow, s
  <2>2. LogsKept(H)
    <3> SUFFICES ASSUME NEW u \in Nat, NEW q \in Server, NEW n, Locked(H, u, n),
                        u <= node[q].term, Agree(node[q].log, H[u], n)
                 PROVE  Agree(node'[q].log, H[u], n)
      BY DEF LogsKept
    <3>1. CASE q # i
      BY <1>3, <3>1
    <3>2. CASE q = i
      <4>1. n \in Nat
        BY LockedIsOwn, OwnWithin DEF LogInv
      <4>2. Agree(H[u], L, n) /\ Agree(log, H[u], n)
        BY <1>7, <3>2 DEF s, log
      <4>3. Agree(log, L, n)
        BY <4>2, AgreeTrans
      <4>4. Agree(M, log, n)
        BY <1>2, <4>1, <4>3, AgreeSym
      <4>5. QED
        BY <3>2, <4>2, <4>4, AgreeTrans DEF M
    <3>3. QED
      BY <3>1, <3>2
  <2>3. VotesFair
    <3>1. \A j \in Server : node'[j].state = "candidate" => j # i
      BY <1>3
    <3>2. QED
      BY <1>3, <3>1, NoNewVotes
  <2>4. AcksReal(H)
    <3> SUFFICES ASSUME NEW u \in Nat, NEW n \in Nat \ {0}, NEW q \in Server, Acked(u, n, q)'
                 PROVE  \/ Acked(u, n, q)
                        \/ /\ node[q].term <= u /\ node'[q].term = u
                           /\ Agree(node'[q].log, H[u], n)
      BY DEF AcksReal
    <3>1. CASE \E j \in Server : /\ node'[j].state = "leader" /\ node'[j].term = u
                                 /\ node'[j].matchIndex[q] >= n
      <4>1. PICK j \in Server : /\ node'[j].state = "leader" /\ node'[j].term = u
                                /\ node'[j].matchIndex[q] >= n
        BY <3>1
      <4>2. node'[j] = node[j]
        BY <1>3, <4>1
      <4>3. QED
        BY <4>1, <4>2 DEF Acked
    <3>2. CASE \E a \in appendResp' : a.peer = q /\ a.reqTerm = u /\ a.success /\ a.lastNew >= n
      <4>1. PICK a \in appendResp' : a.peer = q /\ a.reqTerm = u /\ a.success /\ a.lastNew >= n
        BY <3>2
      <4>2. CASE a \in appendResp
        BY <4>1, <4>2 DEF Acked
      <4>3. CASE a.peer = i /\ a.reqTerm = t /\ a.lastNew = last
        <5>1. q = i /\ u = t /\ n <= last
          BY <1>1, <4>1, <4>3
        <5>2. Agree(M, L, n)
          BY <1>1, <1>2, <5>1, AgreeLess
        <5>3. QED
          BY <1>3, <5>1, <5>2 DEF M, L, s
      <4>4. QED
        BY <1>3, <4>2, <4>3
    <3>3. QED
      BY <3>1, <3>2 DEF Acked
  <2>5. Grows(H, H) /\ NewCommits(H, H)
    BY <1>3 DEF Grows, NewCommits
  <2>6. QED
    BY <1>3, <2>1, <2>2, <2>3, <2>4, <2>5, ExtendsItself DEF Step
<1>16. LaterLeadersHave(H)' /\ AcksHold(H)' /\ CommitsHeld(H)'
  BY <1>9, <1>15, LocksStep
<1>17. QED
  BY <1>9, <1>10, <1>11, <1>12, <1>13, <1>14, <1>16 DEF LogInv

-----------------------------------------------------------------------------
(* Each action keeps SafetyInv.                                            *)

\* CandidatesOK holds after a step that elects nobody but a node that leads
\* in its term, and in which a new candidate raises its term.
LEMMA CandidatesStep ==
  ASSUME TypeInv, TypeInv', CandidatesOK, TermsGrow,
         \A e \in elections' : \/ e \in elections
                               \/ /\ e[1] = node'[e[2]].term
                                  /\ node'[e[2]].state = "leader",
         \A b \in ballots' : b \in ballots \/ b[2] <= node'[b[3]].term,
         \A r \in voteReq' :
           \/ r \in voteReq
           \/ /\ r.term = node'[r.caller].term
              /\ r.lastLogIndex = Len(node'[r.caller].log)
              /\ r.lastLogTerm = termAtLocked(node'[r.caller].log, Len(node'[r.caller].log)),
         \A j \in Server : node'[j].state = "candidate" =>
           \/ /\ node[j].state = "candidate" /\ node'[j].term = node[j].term
              /\ node'[j].log = node[j].log
           \/ node[j].term < node'[j].term
  PROVE  CandidatesOK'
<1>1. \A j \in Server : node[j].term \in Nat /\ node'[j].term \in Nat /\ node[j].term <= node'[j].term
  BY NodesTyped DEF TermsGrow
<1>2. ASSUME NEW e \in elections'
      PROVE  /\ e[1] <= node'[e[2]].term
             /\ e[1] = node'[e[2]].term => node'[e[2]].state # "candidate"
  <2>1. e[1] \in Nat /\ e[2] \in Server
    BY DEF TypeInv, TypeOK
  <2>2. CASE e \in elections
    <3>1. /\ e[1] <= node[e[2]].term
          /\ e[1] = node[e[2]].term => node[e[2]].state # "candidate"
      BY <2>2 DEF CandidatesOK
    <3>2. QED
      BY <1>1, <2>1, <3>1
  <2>3. CASE e[1] = node'[e[2]].term /\ node'[e[2]].state = "leader"
    BY <1>1, <2>1, <2>3
  <2>4. QED
    BY <2>2, <2>3
<1>3. ASSUME NEW b \in ballots'
      PROVE  b[2] <= node'[b[3]].term
  <2>1. b[2] \in Nat /\ b[3] \in Server
    BY DEF TypeInv, TypeOK
  <2>2. CASE b \in ballots
    <3>1. b[2] <= node[b[3]].term
      BY <2>2 DEF CandidatesOK
    <3>2. QED
      BY <1>1, <2>1, <3>1
  <2>3. QED
    BY <2>2
<1>4. ASSUME NEW r \in voteReq'
      PROVE  /\ r.term <= node'[r.caller].term
             /\ r.term = node'[r.caller].term /\ node'[r.caller].state = "candidate" =>
                  /\ r.lastLogIndex = Len(node'[r.caller].log)
                  /\ r.lastLogTerm =
                       termAtLocked(node'[r.caller].log, Len(node'[r.caller].log))
  <2>1. r.term \in Nat /\ r.caller \in Server
    BY DEF TypeInv, TypeOK, VoteReq
  <2>2. CASE r \in voteReq
    <3>1. /\ r.term <= node[r.caller].term
          /\ r.term = node[r.caller].term /\ node[r.caller].state = "candidate" =>
               /\ r.lastLogIndex = Len(node[r.caller].log)
               /\ r.lastLogTerm = termAtLocked(node[r.caller].log, Len(node[r.caller].log))
      BY <2>2 DEF CandidatesOK
    <3>2. r.term <= node'[r.caller].term
      BY <1>1, <2>1, <3>1
    <3>3. ASSUME r.term = node'[r.caller].term, node'[r.caller].state = "candidate"
          PROVE  /\ node[r.caller].state = "candidate" /\ node[r.caller].term = r.term
                 /\ node'[r.caller].log = node[r.caller].log
      BY <1>1, <2>1, <3>1, <3>3
    <3>4. QED
      BY <3>1, <3>2, <3>3
  <2>3. CASE /\ r.term = node'[r.caller].term
             /\ r.lastLogIndex = Len(node'[r.caller].log)
             /\ r.lastLogTerm = termAtLocked(node'[r.caller].log, Len(node'[r.caller].log))
    BY <1>1, <2>1, <2>3
  <2>4. QED
    BY <2>2, <2>3
<1>5. QED
  BY <1>2, <1>3, <1>4 DEF CandidatesOK

\* The log becomeLeaderLocked leaves, and the indexes it resets.
LEMMA BecomeLeaderLog ==
  ASSUME NEW n \in Node
  PROVE  LET l == becomeLeaderLocked(n)
             e == [term |-> n.term, cmd |-> NoOp]
         IN  /\ e \in Entry /\ e.term = n.term
             /\ l.log = Append(n.log, e) /\ l.term = n.term /\ l.state = "leader"
             /\ l.commitIndex = n.commitIndex
             /\ \A p \in Server : l.matchIndex[p] = 0 /\ l.nextIndex[p] = Len(l.log) + 1
<1> DEFINE e == [term |-> n.term, cmd |-> NoOp]
           log == Append(n.log, e)
           next == [p \in Server |-> Len(log) + 1]
           match == [p \in Server |-> 0]
<1>1. e \in Entry /\ e.term = n.term
  BY DEF Node, Entry
<1>2. \A p \in Server : match[p] = 0 /\ next[p] = Len(log) + 1
  OBVIOUS
<1>3. becomeLeaderLocked(n) =
        [n EXCEPT !.state = "leader", !.log = log,
                  !.nextIndex = next, !.matchIndex = match]
  BY DEF becomeLeaderLocked
<1> HIDE DEF e, next, match
<1>4. /\ becomeLeaderLocked(n).log = log /\ becomeLeaderLocked(n).term = n.term
      /\ becomeLeaderLocked(n).state = "leader"
      /\ becomeLeaderLocked(n).commitIndex = n.commitIndex
      /\ becomeLeaderLocked(n).matchIndex = match
      /\ becomeLeaderLocked(n).nextIndex = next
  <2> HIDE DEF log
  <2>1. QED
    BY <1>3 DEF Node
<1>5. QED
  BY <1>1, <1>2, <1>4 DEF e

\* stepDownLocked keeps the log and the commitIndex.
LEMMA StepDownLog ==
  ASSUME NEW n \in Node, NEW t \in Nat, t > n.term
  PROVE  /\ stepDownLocked(n, t).log = n.log /\ stepDownLocked(n, t).term = t
         /\ stepDownLocked(n, t).state = "follower"
         /\ stepDownLocked(n, t).commitIndex = n.commitIndex
BY DEF stepDownLocked, Node

\* startElection: the candidate's own vote is for its own log; alone in the
\* cluster it is leader at once.
LEMMA SafetyStart ==
  ASSUME TypeInv, TypeInv', ElectionInv, ElectionInv', SafetyInv,
         NEW i \in Server, NEW P \in SUBSET (Server \ {i}), startElection(i, P)
  PROVE  SafetyInv'
<1> DEFINE n == [node[i] EXCEPT !.state = "candidate", !.term = @ + 1,
                                !.votedFor = i, !.votes = {i}]
           req(p) == [caller |-> i, peer |-> p, term |-> n.term,
                      lastLogIndex |-> Len(n.log),
                      lastLogTerm |-> termAtLocked(n.log, Len(n.log))]
           b0 == <<i, n.term, i>>
<1>1. node[i] \in Node /\ node \in [Server -> Node] /\ node[i].term \in Nat
  BY DEF TypeInv, TypeOK, Node
<1>2. /\ n.state = "candidate" /\ n.term = node[i].term + 1 /\ n.votes = {i}
      /\ n.log = node[i].log /\ n.commitIndex = node[i].commitIndex
  BY <1>1 DEF Node
<1>3. n \in Node
  BY <1>1, CandidateType
<1>4. /\ ballots' = ballots \cup {b0}
      /\ appendReq' = appendReq /\ appendResp' = appendResp /\ committed' = committed
      /\ \/ /\ Majority(n.votes) /\ node' = [node EXCEPT ![i] = becomeLeaderLocked(n)]
            /\ elections' = elections \cup {<<n.term, i>>}
            /\ voteReq' = voteReq
         \/ /\ node' = [node EXCEPT ![i] = n]
            /\ elections' = elections
            /\ voteReq' = voteReq \cup {req(p) : p \in P}
  BY DEF startElection, Persist
<1>5. \A p \in P : /\ req(p).caller = i /\ req(p).term = n.term
                   /\ req(p).lastLogIndex = Len(n.log)
                   /\ req(p).lastLogTerm = termAtLocked(n.log, Len(n.log))
  OBVIOUS
<1> HIDE DEF n, req
<1>6. PICK m : /\ node' = [node EXCEPT ![i] = m] /\ m.term = n.term
               /\ m.log = n.log \/ m.state = "leader"
               /\ m.state = "candidate" => m = n
  BY <1>2, <1>3, <1>4, BecomeLeaderLog
<1>7. node'[i] = m /\ \A j \in Server : j # i => node'[j] = node[j]
  BY <1>1, <1>6
<1>8. TermsGrow
  <2>1. \A j \in Server : node[j].term \in Nat
    BY NodesTyped
  <2>2. QED
    BY <1>1, <1>2, <1>6, <1>7, <2>1 DEF TermsGrow
<1>9. CandidatesOK
  BY DEF SafetyInv
<1>10. node[i].term < m.term /\ m.term \in Nat
  BY <1>1, <1>2, <1>6
<1>11. CandidatesOK'
  <2>1. \A e \in elections' : \/ e \in elections
                              \/ e[1] = node'[e[2]].term /\ node'[e[2]].state = "leader"
    <3>1. CASE elections' = elections
      BY <3>1
    <3>2. CASE /\ node' = [node EXCEPT ![i] = becomeLeaderLocked(n)]
               /\ elections' = elections \cup {<<n.term, i>>}
      <4>1. node'[i] = becomeLeaderLocked(n)
        BY <1>1, <3>2
      <4>2. node'[i].term = n.term /\ node'[i].state = "leader"
        BY <1>3, <4>1, BecomeLeaderLog
      <4>3. QED
        BY <3>2, <4>2
    <3>3. QED
      BY <1>4, <3>1, <3>2
  <2>2. \A b \in ballots' : b \in ballots \/ b[2] <= node'[b[3]].term
    BY <1>4, <1>6, <1>7, <1>10
  <2>3. \A r \in voteReq' :
          \/ r \in voteReq
          \/ /\ r.term = node'[r.caller].term
             /\ r.lastLogIndex = Len(node'[r.caller].log)
             /\ r.lastLogTerm = termAtLocked(node'[r.caller].log, Len(node'[r.caller].log))
    <3>1. CASE voteReq' = voteReq
      BY <3>1
    <3>2. CASE node' = [node EXCEPT ![i] = n] /\ voteReq' = voteReq \cup {req(p) : p \in P}
      <4>1. node'[i] = n
        BY <1>1, <3>2
      <4>2. QED
        BY <1>5, <3>2, <4>1
    <3>3. QED
      BY <1>4, <3>1, <3>2
  <2>4. \A j \in Server : node'[j].state = "candidate" =>
          \/ /\ node[j].state = "candidate" /\ node'[j].term = node[j].term
             /\ node'[j].log = node[j].log
          \/ node[j].term < node'[j].term
    BY <1>7, <1>10
  <2>5. QED
    BY <1>8, <1>9, <2>1, <2>2, <2>3, <2>4, CandidatesStep
<1>12. PICK H : LogInv(H)
  BY DEF SafetyInv
<1>13. H \in Histories
  BY <1>12 DEF LogInv
<1>14. CASE /\ Majority(n.votes) /\ node' = [node EXCEPT ![i] = becomeLeaderLocked(n)]
            /\ elections' = elections \cup {<<n.term, i>>}
  <2> DEFINE e == [term |-> n.term, cmd |-> NoOp]
  <2>1. /\ e \in Entry /\ e.term = n.term
        /\ node'[i].log = Append(node[i].log, e) /\ node'[i].term = n.term
        /\ node'[i].state = "leader" /\ node'[i].commitIndex = node[i].commitIndex
        /\ \A p \in Server : /\ node'[i].matchIndex[p] = 0
                             /\ node'[i].nextIndex[p] = Len(node'[i].log) + 1
    <3>1. node'[i] = becomeLeaderLocked(n)
      BY <1>1, <1>14
    <3>2. QED
      BY <1>2, <1>3, <3>1, BecomeLeaderLog
  <2> HIDE DEF e
  <2>2. <<n.term, i>> \notin elections
    <3>1. \A f \in elections : f[1] <= node[f[2]].term
      BY <1>9 DEF CandidatesOK
    <3>2. QED
      BY <1>1, <1>2, <3>1
  <2>3. Elected(i, n.term)
    BY <1>2, <1>4, <1>14 DEF Elected
  <2>4. \A p \in Server : node'[i].nextIndex[p] <= Len(node'[i].log) + 1
    <3>1. Len(node'[i].log) \in Nat
      BY NodesTyped, LenType
    <3>2. QED
      BY <2>1, <3>1
  <2>5. Appends(i, e)
    <3>1. <<node'[i].term, i>> \notin elections /\ Elected(i, node'[i].term)
      BY <2>1, <2>2, <2>3
    <3>2. node[i].term <= node'[i].term
      BY <1>8 DEF TermsGrow
    <3>3. /\ ballots \subseteq ballots' /\ \A b \in ballots' : b \in ballots \/ b[3] = i
          /\ elections \subseteq elections' /\ <<node'[i].term, i>> \in elections'
      BY <1>4, <1>14, <2>1
    <3>4. QED
      BY <1>4, <1>7, <2>1, <2>4, <3>1, <3>2, <3>3 DEF Appends
  <2>6. \E G : LogInv(G)'
    BY <1>12, <1>13, <2>1, <2>5, AppendsLogInv
  <2>7. QED
    BY <1>11, <2>6 DEF SafetyInv
<1>15. CASE node' = [node EXCEPT ![i] = n] /\ elections' = elections
  <2>1. node'[i] = n
    BY <1>1, <1>15
  <2>2. Calm
    <3>1. \A q \in Server :
            /\ node'[q].log = node[q].log /\ node[q].term <= node'[q].term
            /\ node'[q].commitIndex = node[q].commitIndex
            /\ node'[q].state = "leader" => node'[q] = node[q]
      BY <1>2, <1>7, <1>8, <2>1 DEF TermsGrow
    <3>2. \A q \in Server : \A p \in Server : node[q].nextIndex[p] <= node[q].nextIndex[p]
      BY NodeType DEF TypeInv, TypeOK
    <3>3. QED
      BY <1>4, <1>15, <3>1, <3>2 DEF Calm
  <2>3. VotesFair
    <3> SUFFICES ASSUME NEW j \in Server, NEW q \in Server, node'[j].state = "candidate",
                        <<q, node'[j].term, j>> \in ballots'
                 PROVE  /\ node'[j].log = node[j].log
                        /\ \/ q = j
                           \/ /\ node[j].state = "candidate" /\ node[j].term = node'[j].term
                              /\ <<q, node[j].term, j>> \in ballots
      BY DEF VotesFair
    <3>1. CASE j # i
      BY <1>4, <1>7, <3>1
    <3>2. CASE j = i
      <4>1. <<q, n.term, i>> \notin ballots
        <5>1. \A b \in ballots : b[2] <= node[b[3]].term
          BY <1>9 DEF CandidatesOK
        <5>2. QED
          BY <1>1, <1>2, <5>1
      <4>2. q = i
        BY <1>4, <2>1, <3>2, <4>1
      <4>3. QED
        BY <1>2, <2>1, <3>2, <4>2
    <3>3. QED
      BY <3>1, <3>2
  <2>4. LogInv(H)'
    BY <1>12, <1>13, <2>2, <2>3, CalmStep
  <2>5. QED
    BY <1>11, <2>4 DEF SafetyInv
<1>16. QED
  BY <1>4, <1>14, <1>15

\* Node i keeps its log and its role, or becomes a follower, maybe of a later term.
Settles(i, m) ==
  /\ m.log = node[i].log /\ node[i].term <= m.term
  /\ m.commitIndex = node[i].commitIndex \/ m.commitIndex = 0
  /\ m.state \in {"candidate", "leader"} => m.state = node[i].state /\ m.term = node[i].term
  /\ m.state = "leader" => /\ m.matchIndex = node[i].matchIndex
                           /\ \A p \in Server : m.nextIndex[p] <= node[i].nextIndex[p]

\* Nothing is voted, won or committed, and no entry is accepted or acknowledged.
NothingNew ==
  /\ ballots' = ballots /\ elections' = elections /\ committed' = committed
  /\ voteReq' \subseteq voteReq /\ appendReq' \subseteq appendReq
  /\ \A r \in appendResp' : r \in appendResp \/ ~r.success

\* Such a step, and whatever calls it loses, keeps the invariant.
LEMMA SafetySettles ==
  ASSUME TypeInv, TypeInv', ElectionInv, ElectionInv', SafetyInv,
         NEW i \in Server, NEW m, Settles(i, m), node' = [node EXCEPT ![i] = m], NothingNew
  PROVE  SafetyInv'
<1>1. node'[i] = m /\ \A q \in Server : q # i => node'[q] = node[q]
  BY DEF TypeInv, TypeOK
<1>2. \A q \in Server : /\ node[q].term \in Nat /\ node[q].commitIndex \in Nat
                        /\ \A p \in Server : node[q].nextIndex[p] \in Nat
  BY NodeType DEF TypeInv, TypeOK
<1>3. Calm
  <2> SUFFICES ASSUME NEW q \in Server
               PROVE  /\ node'[q].log = node[q].log /\ node[q].term <= node'[q].term
                      /\ node'[q].commitIndex = node[q].commitIndex \/ node'[q].commitIndex = 0
                      /\ node'[q].state = "leader" =>
                           /\ node[q].state = "leader" /\ node'[q].term = node[q].term
                           /\ node'[q].matchIndex = node[q].matchIndex
                           /\ \A p \in Server : node'[q].nextIndex[p] <= node[q].nextIndex[p]
    BY DEF Calm, NothingNew
  <2>1. CASE q = i
    BY <1>1, <2>1 DEF Settles
  <2>2. CASE q # i
    <3>1. node'[q] = node[q]
      BY <1>1, <2>2
    <3>2. node[q].term <= node[q].term /\ \A p \in Server : node[q].nextIndex[p] <= node[q].nextIndex[p]
      BY <1>2
    <3>3. QED
      BY <3>1, <3>2
  <2>3. QED
    BY <2>1, <2>2
<1>4. \A j \in Server : node'[j].state = "candidate" =>
        /\ node[j].state = "candidate" /\ node'[j].term = node[j].term
        /\ node'[j].log = node[j].log
  BY <1>1 DEF Settles
<1>5. VotesFair
  BY <1>4, NoNewVotes DEF NothingNew
<1>6. CandidatesOK'
  <2>1. TermsGrow
    BY <1>3 DEF Calm, TermsGrow
  <2>2. QED
    BY <1>4, <2>1, CandidatesStep DEF SafetyInv, NothingNew
<1>7. PICK H : LogInv(H)
  BY DEF SafetyInv
<1>8. H \in Histories
  BY <1>7 DEF LogInv
<1>9. LogInv(H)'
  BY <1>3, <1>5, <1>7, <1>8, CalmStep
<1>10. QED
  BY <1>6, <1>9 DEF SafetyInv

\* HandleRequestVote: a vote goes to a candidate whose log is not behind.
LEMMA SafetyRequestVote ==
  ASSUME TypeInv, TypeInv', ElectionInv, ElectionInv', SafetyInv,
         NEW req \in voteReq, HandleRequestVote(req)
  PROVE  SafetyInv'
<1> DEFINE i == req.peer
           c == req.caller
           higher == req.term > node[i].term
           n == IF higher THEN stepDownLocked(node[i], req.term) ELSE node[i]
           granted == /\ req.term = n.term
                      /\ n.votedFor \in {Nil, req.caller}
                      /\ upToDate(req, n.log)
           m == IF granted THEN [n EXCEPT !.votedFor = req.caller] ELSE n
           b0 == <<i, req.term, c>>
<1>1. /\ i \in Server /\ c \in Server /\ req.term \in Nat
      /\ node[i] \in Node /\ node[i].term \in Nat /\ node \in [Server -> Node]
  BY DEF TypeInv, TypeOK, VoteReq, Node
<1>2. /\ node' = [node EXCEPT ![i] = m]
      /\ voteReq' \subseteq voteReq
      /\ ballots' = IF granted THEN ballots \cup {b0} ELSE ballots
      /\ elections' = elections /\ committed' = committed
      /\ appendReq' = appendReq /\ appendResp' = appendResp
  BY DEF HandleRequestVote, PersistIf, Persist
<1>3. /\ n \in Node /\ node[i].term <= n.term
      /\ n.log = node[i].log /\ n.commitIndex = node[i].commitIndex
      /\ n.state \in {"candidate", "leader"} => n = node[i]
  <2>1. CASE higher
    <3> DEFINE low == stepDownLocked(node[i], req.term)
    <3>1. n = low /\ req.term > node[i].term
      BY <2>1
    <3>2. /\ low \in Node /\ low.term = req.term /\ low.log = node[i].log
          /\ low.state = "follower" /\ low.commitIndex = node[i].commitIndex
      BY <1>1, <3>1, StepDownType, StepDownLog
    <3> HIDE DEF low, n
    <3>3. QED
      BY <1>1, <3>1, <3>2
  <2>2. CASE ~higher
    <3>1. n = node[i]
      BY <2>2
    <3> HIDE DEF n
    <3>2. QED
      BY <1>1, <3>1
  <2>3. QED
    BY <2>1, <2>2
<1>4. granted => req.term = n.term /\ upToDate(req, n.log)
  OBVIOUS
<1> HIDE DEF higher, n, granted
<1>5. /\ m.log = n.log /\ m.commitIndex = n.commitIndex /\ m.term = n.term
      /\ m.state = n.state /\ m.matchIndex = n.matchIndex /\ m.nextIndex = n.nextIndex
  BY <1>1, <1>3 DEF Node
<1> HIDE DEF m
<1>6. node'[i] = m /\ \A q \in Server : q # i => node'[q] = node[q]
  BY <1>1, <1>2
<1>7. \A q \in Server : /\ node[q].term \in Nat /\ node[q].commitIndex \in Nat
                        /\ \A p \in Server : node[q].nextIndex[p] \in Nat
  BY NodeType DEF TypeInv, TypeOK
<1>8. \A q \in Server :
        /\ node'[q].log = node[q].log /\ node[q].term <= node'[q].term
        /\ node'[q].commitIndex = node[q].commitIndex
        /\ node'[q].state \in {"candidate", "leader"} =>
             /\ node'[q].state = node[q].state /\ node'[q].term = node[q].term
             /\ node'[q].matchIndex = node[q].matchIndex
             /\ node'[q].nextIndex = node[q].nextIndex
  <2> SUFFICES ASSUME NEW q \in Server
               PROVE  /\ node'[q].log = node[q].log /\ node[q].term <= node'[q].term
                      /\ node'[q].commitIndex = node[q].commitIndex
                      /\ node'[q].state \in {"candidate", "leader"} =>
                           /\ node'[q].state = node[q].state /\ node'[q].term = node[q].term
                           /\ node'[q].matchIndex = node[q].matchIndex
                           /\ node'[q].nextIndex = node[q].nextIndex
    OBVIOUS
  <2>1. CASE q = i
    BY <1>3, <1>5, <1>6, <2>1
  <2>2. CASE q # i
    BY <1>6, <1>7, <2>2
  <2>3. QED
    BY <2>1, <2>2
<1>9. Calm
  BY <1>2, <1>7, <1>8 DEF Calm
<1>10. CandidatesOK
  BY DEF SafetyInv
<1>11. VotesFair
  <2> SUFFICES ASSUME NEW j \in Server, NEW q \in Server, node'[j].state = "candidate",
                      <<q, node'[j].term, j>> \in ballots'
               PROVE  \/ q = j
                      \/ /\ node[j].state = "candidate" /\ node[j].term = node'[j].term
                         /\ <<q, node[j].term, j>> \in ballots
                      \/ NotBehind(node[j].log, node[q].log)
    BY <1>8 DEF VotesFair
  <2>1. node[j].state = "candidate" /\ node[j].term = node'[j].term
    BY <1>8
  <2>2. CASE <<q, node[j].term, j>> \in ballots
    BY <2>1, <2>2
  <2>3. CASE <<q, node[j].term, j>> \notin ballots
    <3>1. granted /\ q = i /\ j = c /\ node[j].term = req.term
      BY <1>2, <2>1, <2>3
    <3>2. /\ req.lastLogIndex = Len(node[c].log)
          /\ req.lastLogTerm = termAtLocked(node[c].log, Len(node[c].log))
      BY <1>10, <2>1, <3>1 DEF CandidatesOK
    <3>3. upToDate(req, node[i].log)
      BY <1>3, <1>4, <3>1
    <3>4. NotBehind(node[c].log, node[i].log)
      BY <3>2, <3>3 DEF upToDate, NotBehind
    <3>5. QED
      BY <3>1, <3>4
  <2>4. QED
    BY <2>2, <2>3
<1>12. CandidatesOK'
  <2>1. TermsGrow
    BY <1>8 DEF TermsGrow
  <2>2. \A b \in ballots' : b \in ballots \/ b[2] <= node'[b[3]].term
    <3>1. req.term <= node[c].term
      BY <1>10 DEF CandidatesOK
    <3>2. req.term <= node'[c].term
      BY <1>1, <1>8, <3>1, NodesTyped
    <3>3. QED
      BY <1>2, <3>2
  <2>3. QED
    BY <1>2, <1>8, <1>10, <2>1, <2>2, CandidatesStep
<1>13. PICK H : LogInv(H)
  BY DEF SafetyInv
<1>14. H \in Histories
  BY <1>13 DEF LogInv
<1>15. LogInv(H)'
  BY <1>9, <1>11, <1>13, <1>14, CalmStep
<1>16. QED
  BY <1>12, <1>15 DEF SafetyInv

\* The reply goroutine of startElection: the vote that makes the majority
\* makes the candidate leader of a term that had none.
LEMMA SafetyVoteReply ==
  ASSUME TypeInv, TypeInv', ElectionInv, ElectionInv', SafetyInv,
         NEW resp \in voteResp, VoteReply(resp)
  PROVE  SafetyInv'
<1> DEFINE i == resp.caller
           n == node[i]
           votes == n.votes \cup {resp.peer}
           m == [n EXCEPT !.votes = votes]
<1>1. /\ i \in Server /\ resp.peer \in Server /\ resp.term \in Nat
      /\ n \in Node /\ n.term \in Nat /\ node \in [Server -> Node]
  BY DEF TypeInv, TypeOK, VoteResp, Node
<1>2. /\ ballots' = ballots /\ committed' = committed /\ voteReq' = voteReq
      /\ appendReq' = appendReq /\ appendResp' = appendResp
  BY DEF VoteReply
<1>3. \A p \in Server : n.nextIndex[p] <= n.nextIndex[p]
  BY <1>1, NodeType
<1>4. n.term <= n.term
  BY <1>1
<1>5. CASE /\ resp.term > n.term
           /\ Persist(i, stepDownLocked(n, resp.term))
           /\ elections' = elections
  <2>1. Settles(i, stepDownLocked(n, resp.term))
    BY <1>1, <1>5, StepDownLog DEF Settles
  <2>2. QED
    BY <1>1, <1>2, <1>5, <2>1, SafetySettles DEF NothingNew, Persist
<1>6. CASE UNCHANGED <<node, disk, elections>>
  <2>1. Settles(i, n) /\ node' = [node EXCEPT ![i] = n]
    BY <1>1, <1>3, <1>4, <1>6 DEF Settles
  <2>2. QED
    BY <1>1, <1>2, <1>6, <2>1, SafetySettles DEF NothingNew
<1>7. CASE /\ n.state = "candidate" /\ n.term = resp.reqTerm /\ resp.granted
           /\ \/ /\ Majority(votes)
                 /\ Persist(i, becomeLeaderLocked(m))
                 /\ elections' = elections \cup {<<n.term, i>>}
              \/ /\ PersistIf(FALSE, i, m)
                 /\ elections' = elections
  <2>1. \A q \in votes : <<q, n.term, i>> \in ballots
    BY <1>1, <1>7 DEF ElectionInv, VotesReal, RepliesHonest
  <2>2. votes \in SUBSET Server
    BY <1>1 DEF Node
  <2> HIDE DEF votes
  <2>3. /\ m \in Node /\ m.term = n.term /\ m.log = n.log
        /\ m.commitIndex = n.commitIndex /\ m.state = n.state
    BY <1>1, <2>2 DEF Node
  <2> HIDE DEF m
  <2>4. CASE /\ Majority(votes)
             /\ Persist(i, becomeLeaderLocked(m))
             /\ elections' = elections \cup {<<n.term, i>>}
    <3> DEFINE e == [term |-> m.term, cmd |-> NoOp]
    <3>1. node'[i] = becomeLeaderLocked(m) /\ \A q \in Server : q # i => node'[q] = node[q]
      BY <1>1, <2>4 DEF Persist
    <3>2. /\ e \in Entry /\ e.term = n.term
          /\ node'[i].log = Append(node[i].log, e) /\ node'[i].term = n.term
          /\ node'[i].state = "leader" /\ node'[i].commitIndex = node[i].commitIndex
          /\ \A p \in Server : /\ node'[i].matchIndex[p] = 0
                               /\ node'[i].nextIndex[p] = Len(node'[i].log) + 1
      BY <2>3, <3>1, BecomeLeaderLog
    <3> HIDE DEF e
    <3>3. <<n.term, i>> \notin elections
      <4>1. \A f \in elections : f[1] = node[f[2]].term => node[f[2]].state # "candidate"
        BY DEF SafetyInv, CandidatesOK
      <4>2. QED
        BY <1>7, <4>1
    <3>4. Elected(i, n.term)
      BY <1>2, <1>7, <2>1, <2>2, <2>4 DEF Elected
    <3>5. \A p \in Server : node'[i].nextIndex[p] <= Len(node'[i].log) + 1
      <4>1. Len(node'[i].log) \in Nat
        BY <1>1, NodesTyped, LenType
      <4>2. QED
        BY <3>2, <4>1
    <3>6. Appends(i, e)
      <4>1. <<node'[i].term, i>> \notin elections /\ Elected(i, node'[i].term)
        BY <3>2, <3>3, <3>4
      <4>2. node[i].term <= node'[i].term
        BY <1>4, <3>2
      <4>3. /\ ballots \subseteq ballots' /\ \A b \in ballots' : b \in ballots \/ b[3] = i
            /\ elections \subseteq elections' /\ <<node'[i].term, i>> \in elections'
        BY <1>2, <2>4, <3>2
      <4>4. QED
        BY <1>2, <3>1, <3>2, <3>5, <4>1, <4>2, <4>3 DEF Appends
    <3>7. CandidatesOK'
      <4>1. TermsGrow
        <5>1. \A q \in Server : node[q].term \in Nat
          BY NodesTyped
        <5>2. QED
          BY <1>4, <3>1, <3>2, <5>1 DEF TermsGrow
      <4>2. \A f \in elections' : \/ f \in elections
                                  \/ f[1] = node'[f[2]].term /\ node'[f[2]].state = "leader"
        BY <2>4, <3>2
      <4>3. \A j \in Server : node'[j].state = "candidate" =>
              /\ node[j].state = "candidate" /\ node'[j].term = node[j].term
              /\ node'[j].log = node[j].log
        BY <3>1, <3>2
      <4>4. QED
        BY <1>2, <4>1, <4>2, <4>3, CandidatesStep DEF SafetyInv
    <3>8. PICK H : LogInv(H)
      BY DEF SafetyInv
    <3>9. H \in Histories
      BY <3>8 DEF LogInv
    <3>10. \E G : LogInv(G)'
      BY <1>1, <3>2, <3>6, <3>8, <3>9, AppendsLogInv
    <3>11. QED
      BY <3>7, <3>10 DEF SafetyInv
  <2>5. CASE PersistIf(FALSE, i, m) /\ elections' = elections
    <3>1. m.state # "leader"
      BY <1>7, <2>3
    <3>2. Settles(i, m)
      BY <1>4, <2>3, <3>1 DEF Settles
    <3>3. node' = [node EXCEPT ![i] = m]
      BY <2>5 DEF PersistIf
    <3>4. QED
      BY <1>1, <1>2, <2>5, <3>2, <3>3, SafetySettles DEF NothingNew
  <2>6. QED
    BY <1>7, <2>4, <2>5
<1>8. QED
  BY <1>5, <1>6, <1>7 DEF VoteReply

\* Propose: the command goes behind everything the leader has.
LEMMA SafetyPropose ==
  ASSUME TypeInv, TypeInv', ElectionInv, ElectionInv', SafetyInv,
         NEW i \in Server, NEW cmd \in Cmd, Propose(i, cmd)
  PROVE  SafetyInv'
<1> DEFINE n == node[i]
           e == [term |-> n.term, cmd |-> cmd]
           log == Append(n.log, e)
           m == [n EXCEPT !.log = log]
<1>1. n \in Node /\ n.term \in Nat /\ node \in [Server -> Node]
  BY DEF TypeInv, TypeOK, Node
<1>2. /\ n.state = "leader" /\ node' = [node EXCEPT ![i] = m]
      /\ UNCHANGED <<calls, history, restarts>>
  BY DEF Propose, Persist
<1>3. e \in Entry /\ e.term = n.term
  BY <1>1 DEF Entry
<1> HIDE DEF e
<1>4. /\ m.log = log /\ m.term = n.term /\ m.state = "leader" /\ m.commitIndex = n.commitIndex
      /\ m.matchIndex = n.matchIndex /\ m.nextIndex = n.nextIndex
  <2> HIDE DEF log, n
  <2>1. QED
    BY <1>1, <1>2 DEF Node
<1> HIDE DEF m
<1>5. node'[i] = m /\ \A q \in Server : q # i => node'[q] = node[q]
  BY <1>1, <1>2
<1>6. PICK H : LogInv(H)
  BY DEF SafetyInv
<1>7. H \in Histories /\ <<n.term, i>> \in elections
  BY <1>2, <1>6 DEF LogInv, LeadersOK
<1>8. TermsGrow
  <2>1. \A q \in Server : node[q].term \in Nat
    BY NodesTyped
  <2>2. QED
    BY <1>4, <1>5, <2>1 DEF TermsGrow
<1>9. Appends(i, e)
  <2>1. node[i].term <= node'[i].term
    BY <1>8 DEF TermsGrow
  <2>2. QED
    BY <1>2, <1>3, <1>4, <1>5, <1>7, <2>1 DEF Appends, calls, history
<1>10. \E G : LogInv(G)'
  BY <1>3, <1>6, <1>7, <1>9, AppendsLogInv
<1>11. CandidatesOK'
  <2>1. \A j \in Server : node'[j].state = "candidate" =>
          /\ node[j].state = "candidate" /\ node'[j].term = node[j].term
          /\ node'[j].log = node[j].log
    BY <1>4, <1>5
  <2>2. ballots' = ballots /\ elections' = elections /\ voteReq' = voteReq
    BY <1>2 DEF calls, history
  <2>3. QED
    BY <1>8, <2>1, <2>2, CandidatesStep DEF SafetyInv
<1>12. QED
  BY <1>10, <1>11 DEF SafetyInv

\* A restart brings the log back and forgets the commitIndex.
LEMMA SafetyRestart ==
  ASSUME TypeInv, TypeInv', ElectionInv, ElectionInv', SafetyInv, NEW i \in Server, Restart(i)
  PROVE  SafetyInv'
<1> DEFINE m == NewNode(disk[i])
<1>1. node[i] \in Node /\ node[i].term \in Nat
  BY DEF TypeInv, TypeOK, Node
<1>2. m.log = node[i].log /\ m.term = node[i].term /\ m.commitIndex = 0 /\ m.state = "follower"
  <2>1. disk[i] = HardStateOf(node[i])
    BY DEF ElectionInv, Durable
  <2>2. disk[i].log = node[i].log /\ disk[i].term = node[i].term
    BY <2>1 DEF HardStateOf
  <2>3. QED
    BY <2>2 DEF NewNode
<1>3. node' = [node EXCEPT ![i] = m] /\ NothingNew
  BY DEF Restart, history, NothingNew
<1> HIDE DEF m
<1>4. Settles(i, m)
  BY <1>1, <1>2 DEF Settles
<1>5. QED
  BY <1>3, <1>4, SafetySettles

\* Nothing happens to the nodes, and at most calls are lost.
LEMMA SafetyIdle ==
  ASSUME TypeInv, TypeInv', ElectionInv, ElectionInv', SafetyInv, node' = node, NothingNew
  PROVE  SafetyInv'
<1>1. PICK i : i \in Server
  BY ServerAssumption
<1>2. node[i] \in Node /\ node[i].term \in Nat /\ node \in [Server -> Node]
  BY <1>1 DEF TypeInv, TypeOK, Node
<1>3. \A p \in Server : node[i].nextIndex[p] <= node[i].nextIndex[p]
  BY <1>2, NodeType
<1>4. Settles(i, node[i])
  BY <1>2, <1>3 DEF Settles
<1>5. node' = [node EXCEPT ![i] = node[i]]
  BY <1>2
<1>6. QED
  BY <1>1, <1>4, <1>5, SafetySettles

\* HandleAppendEntries: a call with success merges the entries, any other
\* only makes the node a follower.
LEMMA SafetyAppendEntries ==
  ASSUME TypeInv, TypeInv', ElectionInv, ElectionInv', SafetyInv,
         NEW req \in appendReq, HandleAppendEntries(req)
  PROVE  SafetyInv' /\ (Accepts(req.peer, req) \/ \A q \in Server : node'[q].log = node[q].log)
<1> DEFINE i == req.peer
           higher == req.term > node[i].term
           n == IF higher THEN stepDownLocked(node[i], req.term) ELSE node[i]
           accepted == req.term = n.term
           lastNew == req.prevLogIndex + Len(req.entries)
           success == /\ accepted
                      /\ req.prevLogIndex <= Len(n.log)
                      /\ termAtLocked(n.log, req.prevLogIndex) = req.prevLogTerm
           merged == MergeEntries(n.log, req.prevLogIndex, req.entries)
           commit == IF req.leaderCommit <= n.commitIndex THEN n.commitIndex
                     ELSE IF req.leaderCommit < lastNew THEN req.leaderCommit
                     ELSE lastNew
           m == CASE ~accepted -> n
                  [] accepted /\ ~success -> [n EXCEPT !.state = "follower"]
                  [] success -> [n EXCEPT !.state = "follower", !.log = merged,
                                          !.commitIndex = commit]
           resp == [caller |-> req.caller, peer |-> i, reqTerm |-> req.term,
                    lastNew |-> lastNew, term |-> n.term, success |-> success]
<1>1. /\ i \in Server /\ req.term \in Nat /\ req.prevLogIndex \in Nat
      /\ req.entries \in Seq(Entry) /\ req.leaderCommit \in Nat
      /\ node[i] \in Node /\ node[i].term \in Nat /\ node \in [Server -> Node]
  BY DEF TypeInv, TypeOK, AppendReq, Node
<1>2. /\ node' = [node EXCEPT ![i] = m]
      /\ appendReq' \subseteq appendReq
      /\ appendResp' = appendResp \cup {resp}
      /\ UNCHANGED <<voteReq, voteResp, history, restarts>>
  BY DEF HandleAppendEntries, PersistIf, Persist
<1>3. /\ n \in Node /\ node[i].term <= n.term
      /\ n.log = node[i].log /\ n.commitIndex = node[i].commitIndex
      /\ n.state \in {"candidate", "leader"} => n = node[i]
  <2>1. CASE higher
    <3> DEFINE low == stepDownLocked(node[i], req.term)
    <3>1. n = low /\ req.term > node[i].term
      BY <2>1
    <3>2. /\ low \in Node /\ low.term = req.term /\ low.log = node[i].log
          /\ low.state = "follower" /\ low.commitIndex = node[i].commitIndex
      BY <1>1, <3>1, StepDownType, StepDownLog
    <3> HIDE DEF low, n
    <3>3. QED
      BY <1>1, <3>1, <3>2
  <2>2. CASE ~higher
    <3>1. n = node[i]
      BY <2>2
    <3> HIDE DEF n
    <3>2. QED
      BY <1>1, <3>1
  <2>3. QED
    BY <2>1, <2>2
<1>4. n.log \in Seq(Entry) /\ n.commitIndex \in Nat /\ n.term \in Nat /\ lastNew \in Nat
  <2> HIDE DEF n
  <2>1. QED
    BY <1>1, <1>3, NodeType
<1> HIDE DEF higher, n
<1>5. /\ resp.peer = i /\ resp.reqTerm = req.term /\ resp.lastNew = lastNew
      /\ resp.success = success
  OBVIOUS
<1>6. /\ success => accepted
      /\ accepted => req.term = n.term
      /\ success => /\ req.prevLogIndex <= Len(n.log)
                    /\ termAtLocked(n.log, req.prevLogIndex) = req.prevLogTerm
      /\ success \in BOOLEAN /\ accepted \in BOOLEAN
  OBVIOUS
<1>7. commit = n.commitIndex \/ (commit <= req.leaderCommit /\ commit <= lastNew)
  BY <1>1, <1>4
<1> HIDE DEF lastNew, accepted, success, merged, commit, resp
<1>8. CASE success
  <2>1. /\ m.log = merged /\ m.term = n.term /\ m.state = "follower"
        /\ m.commitIndex = commit
    BY <1>3, <1>6, <1>8 DEF Node
  <2> HIDE DEF m
  <2>2. node'[i] = m /\ \A q \in Server : q # i => node'[q] = node[q]
    BY <1>1, <1>2
  <2>3. ballots' = ballots /\ elections' = elections /\ committed' = committed /\ voteReq' = voteReq
    BY <1>2 DEF history
  <2>4. merged = MergeEntries(node[i].log, req.prevLogIndex, req.entries)
    BY <1>3 DEF merged
  <2>5. /\ node'[i].state = "follower" /\ node'[i].term = req.term
        /\ node'[i].log = MergeEntries(node[i].log, req.prevLogIndex, req.entries)
        /\ node[i].term <= req.term /\ req.prevLogIndex <= Len(node[i].log)
        /\ termAtLocked(node[i].log, req.prevLogIndex) = req.prevLogTerm
    BY <1>3, <1>6, <1>8, <2>1, <2>2, <2>4
  <2>6. \/ node'[i].commitIndex = node[i].commitIndex
        \/ /\ node'[i].commitIndex <= req.leaderCommit
           /\ node'[i].commitIndex <= req.prevLogIndex + Len(req.entries)
    BY <1>3, <1>7, <2>1, <2>2 DEF lastNew
  <2>7. \A a \in appendResp' :
          \/ a \in appendResp
          \/ /\ a.peer = i /\ a.reqTerm = req.term
             /\ a.lastNew = req.prevLogIndex + Len(req.entries)
    BY <1>2, <1>5 DEF lastNew
  <2>8. Accepts(i, req)
    BY <1>2, <2>2, <2>3, <2>5, <2>6, <2>7 DEF Accepts
  <2>9. PICK H : LogInv(H)
    BY DEF SafetyInv
  <2>10. H \in Histories
    BY <2>9 DEF LogInv
  <2>11. LogInv(H)'
    BY <1>1, <2>8, <2>9, <2>10, AcceptsStep
  <2>12. CandidatesOK'
    <3>1. TermsGrow
      <4>1. \A q \in Server : node[q].term \in Nat
        BY NodesTyped
      <4>2. QED
        BY <2>2, <2>5, <4>1 DEF TermsGrow
    <3>2. \A j \in Server : node'[j].state = "candidate" =>
            /\ node[j].state = "candidate" /\ node'[j].term = node[j].term
            /\ node'[j].log = node[j].log
      BY <2>2, <2>5
    <3>3. QED
      BY <2>3, <3>1, <3>2, CandidatesStep DEF SafetyInv
  <2>13. QED
    BY <2>8, <2>11, <2>12 DEF SafetyInv
<1>9. CASE ~success
  <2>1. /\ m.log = n.log /\ m.term = n.term /\ m.commitIndex = n.commitIndex
        /\ m.state = "follower" \/ m = n
    BY <1>3, <1>6, <1>9 DEF Node
  <2> HIDE DEF m
  <2>2. \A p \in Server : node[i].nextIndex[p] <= node[i].nextIndex[p]
    BY <1>1, NodeType
  <2>3. Settles(i, m)
    BY <1>3, <2>1, <2>2 DEF Settles
  <2>4. NothingNew
    BY <1>2, <1>5, <1>9 DEF NothingNew, history
  <2>5. SafetyInv'
    BY <1>1, <1>2, <2>3, <2>4, SafetySettles
  <2>6. \A q \in Server : node'[q].log = node[q].log
    BY <1>1, <1>2, <2>3 DEF Settles
  <2>7. QED
    BY <2>5, <2>6
<1>10. QED
  BY <1>8, <1>9

\* replicateTo: the call carries what the leader has from nextIndex on.
LEMMA SafetyReplicate ==
  ASSUME TypeInv, TypeInv', ElectionInv, ElectionInv', SafetyInv,
         NEW i \in Server, NEW p \in Server, replicateTo(i, p)
  PROVE  SafetyInv'
<1> DEFINE n == node[i]
           prev == n.nextIndex[p] - 1
           req == [caller |-> i, peer |-> p, term |-> n.term,
                   prevLogIndex |-> prev, prevLogTerm |-> termAtLocked(n.log, prev),
                   entries |-> SubSeq(n.log, prev + 1, Len(n.log)),
                   leaderCommit |-> n.commitIndex]
<1>1. /\ n \in Node /\ n.term \in Nat /\ n.log \in Seq(Entry) /\ Len(n.log) \in Nat
      /\ n.nextIndex[p] \in Nat
  BY NodeType, LenType DEF TypeInv, TypeOK
<1>2. /\ n.state = "leader" /\ appendReq' = appendReq \cup {req}
      /\ UNCHANGED <<node, disk, voteReq, voteResp, appendResp, history, restarts>>
  BY DEF replicateTo
<1>3. PICK H : LogInv(H)
  BY DEF SafetyInv
<1>4. H \in Histories
  BY <1>3 DEF LogInv
<1>5. /\ n.log = H[n.term] /\ n.log # <<>>
      /\ n.nextIndex[p] <= Len(n.log) + 1 /\ n.nextIndex[p] >= 1
  BY <1>2, <1>3 DEF LogInv, LeadersOK, TypeInv, LeaderNext
<1>6. prev \in Nat /\ prev <= Len(n.log)
  BY <1>1, <1>5
<1>7. /\ req.term = n.term /\ req.prevLogIndex = prev
      /\ req.prevLogTerm = termAtLocked(n.log, prev) /\ req.leaderCommit = n.commitIndex
      /\ req.entries = SubSeq(n.log, prev + 1, Len(n.log))
  OBVIOUS
<1> HIDE DEF prev, req
<1>8. /\ Len(req.entries) = Len(n.log) - prev
      /\ \A k \in 1..Len(req.entries) : req.entries[k] = n.log[prev + k]
  <2> DEFINE log == n.log
             rest == SubSeq(log, prev + 1, Len(log))
  <2>1. log \in Seq(Entry) /\ Len(log) \in Nat /\ prev \in Nat /\ prev <= Len(log)
    BY <1>1, <1>6
  <2> HIDE DEF log
  <2>2. Len(rest) = Len(log) - prev /\ \A k \in 1..Len(rest) : rest[k] = log[prev + k]
    BY <2>1
  <2>3. QED
    BY <1>7, <2>2 DEF log
<1>9. \A log, k, t : Known(log, k, t) => Known(log, k, t)'
  BY <1>2 DEF Known, history
<1>10. RequestsOK(H)'
  <2> SUFFICES ASSUME NEW r \in appendReq'
               PROVE  /\ H[r.term] # <<>>
                      /\ r.prevLogIndex + Len(r.entries) <= Len(H[r.term])
                      /\ r.prevLogTerm = termAtLocked(H[r.term], r.prevLogIndex)
                      /\ \A k \in 1..Len(r.entries) : r.entries[k] = H[r.term][r.prevLogIndex + k]
                      /\ Known(H[r.term], r.leaderCommit, r.term)'
    BY DEF RequestsOK
  <2>1. CASE r \in appendReq
    BY <1>3, <1>9, <2>1 DEF LogInv, RequestsOK
  <2>2. CASE r = req
    <3>1. Known(n.log, n.commitIndex, n.term)'
      <4>1. Known(n.log, n.commitIndex, n.term)
        BY <1>3 DEF LogInv, CommitsKnown
      <4>2. QED
        BY <1>2, <1>9, <4>1
    <3>2. Known(H[r.term], r.leaderCommit, r.term)'
      BY <1>2, <1>5, <1>7, <2>2, <3>1
    <3>3. r.prevLogIndex + Len(r.entries) <= Len(H[r.term])
      <4>1. r.prevLogIndex = prev /\ Len(r.entries) = Len(n.log) - prev
        BY <1>7, <1>8, <2>2
      <4>2. Len(H[r.term]) = Len(n.log)
        BY <1>5, <1>7, <2>2
      <4>3. prev + (Len(n.log) - prev) <= Len(n.log)
        BY <1>1, <1>6
      <4>4. QED
        BY <4>1, <4>2, <4>3
    <3>4. QED
      BY <1>5, <1>7, <1>8, <2>2, <3>2, <3>3
  <2>3. QED
    BY <1>2, <2>1, <2>2
<1>11. TermsGrow /\ \A q \in Server : node'[q].log = node[q].log
  <2>1. \A q \in Server : node[q].term \in Nat
    BY NodesTyped
  <2>2. QED
    BY <1>2, <2>1 DEF TermsGrow
<1>12. /\ ballots' = ballots /\ elections' = elections /\ committed' = committed
       /\ voteReq' = voteReq /\ appendResp' = appendResp /\ node' = node
  BY <1>2 DEF history
<1>13. VotesFair
  BY <1>12, NoNewVotes
<1>14. AcksReal(H) /\ NewCommits(H, H) /\ ResponsesOK(H)' /\ CommitsKnown'
  <2>1. \A t, k, q : Acked(t, k, q)' => Acked(t, k, q)
    BY <1>12 DEF Acked
  <2>2. CommitsKnown'
    <3>1. CommitsKnown
      BY <1>3 DEF LogInv
    <3>2. QED
      BY <1>9, <1>12, <3>1 DEF CommitsKnown
  <2>3. QED
    BY <1>3, <1>12, <2>1, <2>2 DEF AcksReal, NewCommits, LogInv, ResponsesOK
<1>15. \A q \in Server : node'[q].state = "leader" =>
         /\ node[q].state = "leader" /\ node'[q].term = node[q].term
         /\ \A s \in Server : /\ node'[q].matchIndex[s] <= Len(node[q].log)
                              /\ node'[q].nextIndex[s] <= Len(node[q].log) + 1
  BY <1>3, <1>12 DEF LogInv, LeadersOK
<1>16. LogInv(H)'
  BY <1>3, <1>4, <1>10, <1>11, <1>12, <1>13, <1>14, <1>15, QuietLogs
<1>17. CandidatesOK'
  BY <1>11, <1>12, CandidatesStep DEF SafetyInv
<1>18. QED
  BY <1>16, <1>17 DEF SafetyInv

\* n, the leader i, may count its first c entries as committed, or c is not new.
MayCommit(n, i, c) ==
  \/ c = n.commitIndex
  \/ /\ c > n.commitIndex /\ c <= Len(n.log) /\ c >= 1
     /\ termAtLocked(n.log, c) = n.term
     /\ Majority({i} \cup {p \in Server \ {i} : n.matchIndex[p] >= c})

\* What advanceCommitLocked commits is an entry of the current term a majority has.
LEMMA AdvanceCommitMeans ==
  ASSUME NEW n \in Node, NEW i \in Server
  PROVE  \E c \in Nat :
           advanceCommitLocked(n, i) = [n EXCEPT !.commitIndex = c] /\ MayCommit(n, i, c)
<1> DEFINE C == Committable(n, i)
<1>1. n.commitIndex \in Nat /\ Len(n.log) \in Nat
  BY NodeType, LenType
<1>2. C \in SUBSET Nat /\ \A N \in C : N <= Len(n.log)
  BY <1>1 DEF Committable
<1>3. ASSUME NEW N \in C
      PROVE  MayCommit(n, i, N)
  <2>1. /\ N \in (n.commitIndex + 1)..Len(n.log)
        /\ \A k \in N..Len(n.log) : termAtLocked(n.log, k) = n.term
        /\ Majority({i} \cup {p \in Server \ {i} : n.matchIndex[p] >= N})
    BY DEF Committable
  <2>2. N \in N..Len(n.log) /\ N > n.commitIndex /\ N <= Len(n.log) /\ N >= 1
    BY <1>1, <2>1
  <2>3. QED
    BY <2>1, <2>2 DEF MayCommit
<1> HIDE DEF C
<1>4. CASE C = {}
  <2>1. advanceCommitLocked(n, i) = n
    BY <1>4 DEF advanceCommitLocked, C
  <2>2. n = [n EXCEPT !.commitIndex = n.commitIndex]
    BY DEF Node
  <2>3. MayCommit(n, i, n.commitIndex)
    BY DEF MayCommit
  <2>4. QED
    BY <1>1, <2>1, <2>2, <2>3
<1>5. CASE C # {}
  <2> DEFINE c == CHOOSE N \in C : \A M \in C : M <= N
  <2>1. \E N \in C : \A M \in C : M <= N
    BY <1>1, <1>2, <1>5, NatMax
  <2>2. c \in C
    BY <2>1
  <2>3. advanceCommitLocked(n, i) = [n EXCEPT !.commitIndex = c]
    BY <1>5 DEF advanceCommitLocked, C
  <2> HIDE DEF c
  <2>4. c \in Nat
    BY <1>2, <2>2
  <2>5. QED
    BY <1>3, <2>2, <2>3, <2>4
<1>6. QED
  BY <1>4, <1>5

\* walkBack only lowers nextIndex.
LEMMA WalkBackLowers ==
  ASSUME NEW n \in Node, NEW p \in Server
  PROVE  /\ walkBack(n, p).log = n.log /\ walkBack(n, p).term = n.term
         /\ walkBack(n, p).commitIndex = n.commitIndex /\ walkBack(n, p).state = n.state
         /\ walkBack(n, p).matchIndex = n.matchIndex
         /\ \A q \in Server : walkBack(n, p).nextIndex[q] <= n.nextIndex[q]
<1> DEFINE next == [n.nextIndex EXCEPT ![p] = @ - 1]
<1>1. n.nextIndex \in [Server -> Nat] /\ n.matchIndex \in [Server -> Nat]
  BY NodeType
<1>2. \A q \in Server : n.nextIndex[q] \in Nat /\ n.nextIndex[q] <= n.nextIndex[q]
  BY <1>1
<1>3. \A q \in Server : next[q] <= n.nextIndex[q]
  <2> SUFFICES ASSUME NEW q \in Server PROVE next[q] <= n.nextIndex[q]
    OBVIOUS
  <2>1. CASE q = p
    <3>1. next[q] = n.nextIndex[q] - 1
      BY <1>1, <2>1
    <3>2. QED
      BY <1>2, <3>1
  <2>2. CASE q # p
    <3>1. next[q] = n.nextIndex[q]
      BY <1>1, <2>2
    <3>2. QED
      BY <1>2, <3>1
  <2>3. QED
    BY <2>1, <2>2
<1>4. walkBack(n, p) = IF n.nextIndex[p] > 1 THEN [n EXCEPT !.nextIndex = next] ELSE n
  BY DEF walkBack
<1> HIDE DEF next
<1>5. CASE n.nextIndex[p] > 1
  BY <1>3, <1>4, <1>5 DEF Node
<1>6. CASE ~(n.nextIndex[p] > 1)
  BY <1>2, <1>4, <1>6
<1>7. QED
  BY <1>5, <1>6

\* A leader that takes an answer with success, and maybe commits its first c entries.
Counts(i, r, c) ==
  /\ node[i].state = "leader" /\ node[i].term = r.reqTerm /\ r.success /\ r.caller = i
  /\ \A q \in Server : q # i => node'[q] = node[q]
  /\ node'[i].state = "leader" /\ node'[i].term = node[i].term
  /\ node'[i].log = node[i].log /\ node'[i].commitIndex = c
  /\ \A q \in Server :
       \/ /\ node'[i].matchIndex[q] = node[i].matchIndex[q]
          /\ node'[i].nextIndex[q] = node[i].nextIndex[q] \/ node'[i].nextIndex[q] = node'[i].matchIndex[q] + 1
       \/ /\ q = r.peer /\ node'[i].matchIndex[q] = r.lastNew
          /\ node'[i].nextIndex[q] = r.lastNew + 1
  /\ \/ c = node[i].commitIndex /\ committed' = committed
     \/ /\ c \in 1..Len(node[i].log) /\ committed' = committed \cup {SubSeq(node[i].log, 1, c)}
        /\ termAtLocked(node[i].log, c) = node[i].term
        /\ Majority({i} \cup {p \in Server \ {i} : node'[i].matchIndex[p] >= c})
  /\ voteReq' = voteReq /\ appendReq' = appendReq /\ appendResp' \subseteq appendResp
  /\ ballots' = ballots /\ elections' = elections

\* What AppendReply counts a peer for, the peer has told the leader.
LEMMA CountsAcked ==
  ASSUME TypeInv, TypeInv', NEW i \in Server, NEW r \in appendResp, NEW c, Counts(i, r, c),
         NEW q \in Server, NEW k \in Nat, node'[i].matchIndex[q] >= k
  PROVE  Acked(node[i].term, k, q)
<1>1. CASE node'[i].matchIndex[q] = node[i].matchIndex[q]
  BY <1>1 DEF Counts, Acked
<1>2. CASE q = r.peer /\ node'[i].matchIndex[q] = r.lastNew
  <2>1. r.peer = q /\ r.reqTerm = node[i].term /\ r.success /\ r.lastNew >= k
    BY <1>2 DEF Counts
  <2>2. QED
    BY <2>1 DEF Acked
<1>3. QED
  BY <1>1, <1>2 DEF Counts

\* The answers a leader counts make its commits: its own entry, with a majority.
LEMMA CountsStep ==
  ASSUME TypeInv, TypeInv', ElectionInv, ElectionInv', NEW H \in Histories, LogInv(H),
         NEW i \in Server, NEW r \in appendResp, NEW c, Counts(i, r, c)
  PROVE  LogInv(H)'
<1> DEFINE t == node[i].term
           log == node[i].log
           cut == SubSeq(log, 1, c)
<1>1. /\ t \in Nat /\ log \in Seq(Entry) /\ Len(log) \in Nat
      /\ r.lastNew \in Nat /\ r.peer \in Server /\ node[i].commitIndex \in Nat
  BY NodeType, LenType DEF TypeInv, TypeOK, AppendResp
<1>2. log = H[t] /\ log # <<>> /\ r.lastNew <= Len(log)
  <2>1. log = H[t] /\ log # <<>>
    BY DEF LogInv, LeadersOK, Counts
  <2>2. r.lastNew <= Len(H[r.reqTerm])
    BY DEF LogInv, ResponsesOK, Counts
  <2>3. r.reqTerm = t
    BY DEF Counts
  <2> HIDE DEF log, t
  <2>4. QED
    BY <2>1, <2>2, <2>3
<1>3. \A q \in Server : node'[q].log = node[q].log /\ node'[q].term = node[q].term
  BY DEF Counts
<1>4. TermsGrow
  <2>1. \A q \in Server : node[q].term \in Nat
    BY NodesTyped
  <2>2. QED
    BY <1>3, <2>1 DEF TermsGrow
<1>5. /\ committed \subseteq committed'
      /\ ballots' = ballots /\ elections' = elections /\ appendReq' = appendReq
      /\ appendResp' \subseteq appendResp
  BY DEF Counts
<1>6. ASSUME c \in 1..Len(log)
      PROVE  /\ cut \in Seq(Entry) /\ Len(cut) = c /\ cut # <<>>
             /\ Agree(log, cut, c) /\ Agree(cut, log, c)
             /\ termAtLocked(log, c) = t => cut[c].term = t
  <2> HIDE DEF log, t
  <2>1. c \in Nat /\ c >= 1 /\ c <= Len(log)
    BY <1>1, <1>6
  <2>2. /\ cut \in Seq(Entry) /\ Len(cut) = c /\ \A k \in 1..c : cut[k] = log[k]
    BY <1>1, <2>1
  <2> HIDE DEF cut
  <2>3. cut # <<>>
    BY <2>1, <2>2
  <2>4. Agree(log, cut, c) /\ Agree(cut, log, c)
    BY <2>1, <2>2 DEF Agree
  <2>5. c \in 1..c /\ cut[c] = log[c]
    BY <2>1, <2>2
  <2>6. QED
    BY <1>6, <2>2, <2>3, <2>4, <2>5 DEF termAtLocked
<1>7. ASSUME NEW q \in Server
      PROVE  /\ node'[i].matchIndex[q] <= Len(log)
             /\ node'[i].nextIndex[q] <= Len(log) + 1
  <2>1. node[i].matchIndex[q] <= Len(log) /\ node[i].nextIndex[q] <= Len(log) + 1
    BY DEF Counts, LogInv, LeadersOK
  <2>2. /\ node[i].matchIndex[q] \in Nat /\ node[i].nextIndex[q] \in Nat
        /\ node'[i].matchIndex[q] \in Nat /\ node'[i].nextIndex[q] \in Nat
    BY NodeType DEF TypeInv, TypeOK
  <2>3. \/ /\ node'[i].matchIndex[q] = node[i].matchIndex[q]
           /\ \/ node'[i].nextIndex[q] = node[i].nextIndex[q]
              \/ node'[i].nextIndex[q] = node'[i].matchIndex[q] + 1
        \/ node'[i].matchIndex[q] = r.lastNew /\ node'[i].nextIndex[q] = r.lastNew + 1
    BY DEF Counts
  <2> HIDE DEF log
  <2>4. QED
    BY <1>1, <1>2, <2>1, <2>2, <2>3
<1>8. \A q \in Server : node'[q].state = "leader" =>
        /\ node[q].state = "leader" /\ node'[q].term = node[q].term
        /\ \A p \in Server : /\ node'[q].matchIndex[p] <= Len(node[q].log)
                             /\ node'[q].nextIndex[p] <= Len(node[q].log) + 1
  <2> SUFFICES ASSUME NEW q \in Server, node'[q].state = "leader"
               PROVE  /\ node[q].state = "leader" /\ node'[q].term = node[q].term
                      /\ \A p \in Server : /\ node'[q].matchIndex[p] <= Len(node[q].log)
                                           /\ node'[q].nextIndex[p] <= Len(node[q].log) + 1
    OBVIOUS
  <2>1. CASE q = i
    BY <1>3, <1>7, <2>1 DEF Counts
  <2>2. CASE q # i
    BY <2>2 DEF Counts, LogInv, LeadersOK
  <2>3. QED
    BY <2>1, <2>2
<1>9. VotesFair
  <2>1. \A j \in Server : node'[j].state = "candidate" => node'[j] = node[j]
    BY DEF Counts
  <2>2. QED
    BY <1>5, <2>1, NoNewVotes
<1>10. AcksReal(H)
  <2> SUFFICES ASSUME NEW u \in Nat, NEW k \in Nat \ {0}, NEW q \in Server, Acked(u, k, q)'
               PROVE  Acked(u, k, q)
    BY DEF AcksReal
  <2>1. ASSUME NEW j \in Server, node'[j].state = "leader", node'[j].term = u,
               node'[j].matchIndex[q] >= k
        PROVE  Acked(u, k, q)
    <3>1. CASE j = i
      <4>1. u = node[i].term
        BY <1>3, <2>1, <3>1
      <4>2. QED
        BY <2>1, <3>1, <4>1, CountsAcked
    <3>2. CASE j # i
      BY <2>1, <3>2 DEF Counts, Acked
    <3>3. QED
      BY <3>1, <3>2
  <2>2. QED
    BY <1>5, <2>1 DEF Acked
<1>11. NewCommits(H, H)
  <2> SUFFICES ASSUME NEW d \in committed', d \notin committed
               PROVE  /\ d # <<>> /\ Agree(d, H[d[Len(d)].term], Len(d))
                      /\ \E Q \in SUBSET Server :
                           /\ Majority(Q)
                           /\ \A q \in Q :
                                \/ Acked(d[Len(d)].term, Len(d), q)
                                \/ node[q].term = d[Len(d)].term /\ node[q].log = H[d[Len(d)].term]
    BY DEF NewCommits
  <2> DEFINE Q == {i} \cup {p \in Server \ {i} : node'[i].matchIndex[p] >= c}
  <2>1. /\ d = cut /\ c \in 1..Len(log) /\ termAtLocked(log, c) = t /\ Majority(Q)
    BY DEF Counts
  <2>2. /\ Len(d) = c /\ d # <<>> /\ d[Len(d)].term = t /\ Agree(d, log, c)
    BY <1>6, <2>1
  <2>3. c \in Nat
    BY <1>1, <2>1
  <2>4. ASSUME NEW q \in Q
        PROVE  Acked(t, c, q) \/ (node[q].term = t /\ node[q].log = H[t])
    <3>1. CASE q = i
      BY <1>2, <3>1
    <3>2. CASE q # i
      <4>1. q \in Server /\ node'[i].matchIndex[q] >= c
        BY <3>2
      <4>2. QED
        BY <2>3, <4>1, CountsAcked
    <3>3. QED
      BY <3>1, <3>2
  <2>5. Q \in SUBSET Server
    OBVIOUS
  <2> HIDE DEF Q, t, log
  <2>6. QED
    BY <1>2, <2>1, <2>2, <2>4, <2>5
<1>12. committed \subseteq Seq(Entry) /\ \A d \in committed : d # <<>>
  BY DEF TypeInv, TypeOK, LogInv, CommitsHeld
<1>13. RequestsOK(H)'
  <2>1. \A a, k : \A s \in Nat : Known(a, k, s) => Known(a, k, s)'
    BY <1>5 DEF Known
  <2>2. \A a \in appendReq : a.term \in Nat
    BY DEF TypeInv, TypeOK, AppendReq
  <2>3. RequestsOK(H)
    BY DEF LogInv
  <2>4. QED
    BY <1>5, <2>1, <2>2, <2>3 DEF RequestsOK
<1>14. ResponsesOK(H)'
  BY <1>5 DEF LogInv, ResponsesOK
<1>15. CommitsKnown'
  <2> SUFFICES ASSUME NEW q \in Server
               PROVE  Known(node[q].log, node[q].commitIndex, node[q].term)'
    BY DEF CommitsKnown
  <2>1. Known(node[q].log, node[q].commitIndex, node[q].term)
    BY DEF LogInv, CommitsKnown
  <2>2. CASE node'[q].commitIndex = node[q].commitIndex
    <3>1. node'[q].log = node[q].log /\ node'[q].term = node[q].term
      BY <1>3
    <3>2. QED
      BY <1>5, <2>1, <2>2, <3>1 DEF Known
  <2>3. CASE /\ q = i /\ c \in 1..Len(log) /\ termAtLocked(log, c) = t
             /\ committed' = committed \cup {cut}
    <3>1. /\ node'[q].log = log /\ node'[q].term = t /\ node'[q].commitIndex = c
      BY <2>3 DEF Counts
    <3>2. Len(cut) = c /\ cut[c].term = t /\ Agree(log, cut, c) /\ cut \in committed'
      BY <1>6, <2>3
    <3>3. c <= Len(log) /\ t <= t
      BY <1>1, <2>3
    <3> HIDE DEF cut, log, t
    <3>4. QED
      BY <3>1, <3>2, <3>3 DEF Known
  <2>4. CASE q # i
    BY <2>2, <2>4 DEF Counts
  <2>5. QED
    BY <2>2, <2>3, <2>4 DEF Counts
<1>16. \A q \in Server : node'[q].log = node[q].log
  BY <1>3
<1>17. QED
  BY <1>4, <1>5, <1>8, <1>9, <1>10, <1>11, <1>13, <1>14, <1>15, <1>16, QuietLogs

\* AppendReply: a step down, a step back of nextIndex, or one more peer that has entries.
LEMMA SafetyAppendReply ==
  ASSUME TypeInv, TypeInv', ElectionInv, ElectionInv', SafetyInv,
         NEW resp \in appendResp, AppendReply(resp)
  PROVE  SafetyInv' /\ \A q \in Server : node'[q].log = node[q].log
<1> DEFINE i == resp.caller
           p == resp.peer
           n == node[i]
           match == IF resp.lastNew > n.matchIndex[p] THEN resp.lastNew
                                                      ELSE n.matchIndex[p]
           acked == advanceCommitLocked([n EXCEPT !.matchIndex[p] = match,
                                                  !.nextIndex[p] = match + 1], i)
<1>1. /\ i \in Server /\ p \in Server /\ resp.term \in Nat /\ resp.lastNew \in Nat
      /\ n \in Node /\ n.term \in Nat /\ node \in [Server -> Node]
  BY DEF TypeInv, TypeOK, AppendResp, Node
<1>2. /\ appendResp' \subseteq appendResp
      /\ UNCHANGED <<voteReq, voteResp, appendReq, ballots, elections, restarts>>
  BY DEF AppendReply
<1>3. ASSUME NEW m, Settles(i, m), node' = [node EXCEPT ![i] = m], committed' = committed
      PROVE  SafetyInv' /\ \A q \in Server : node'[q].log = node[q].log
  <2>1. NothingNew
    BY <1>2, <1>3 DEF NothingNew
  <2>2. SafetyInv'
    BY <1>1, <1>3, <2>1, SafetySettles
  <2>3. \A q \in Server : node'[q].log = node[q].log
    BY <1>1, <1>3 DEF Settles
  <2>4. QED
    BY <2>2, <2>3
<1>4. CASE resp.term > n.term /\ Persist(i, stepDownLocked(n, resp.term)) /\ committed' = committed
  <2>1. Settles(i, stepDownLocked(n, resp.term))
    BY <1>1, <1>4, StepDownLog DEF Settles
  <2>2. QED
    BY <1>3, <1>4, <2>1 DEF Persist
<1>5. CASE UNCHANGED <<node, disk, committed>>
  <2>1. NothingNew
    BY <1>2, <1>5 DEF NothingNew
  <2>2. SafetyInv'
    BY <1>5, <2>1, SafetyIdle
  <2>3. QED
    BY <1>5, <2>2
<1>6. CASE /\ n.state = "leader" /\ n.term = resp.reqTerm /\ resp.success
           /\ PersistIf(FALSE, i, acked)
           /\ committed' = IF acked.commitIndex = n.commitIndex THEN committed
                           ELSE committed \cup {SubSeq(n.log, 1, acked.commitIndex)}
  <2> DEFINE mi == [n.matchIndex EXCEPT ![p] = match]
             ni == [n.nextIndex EXCEPT ![p] = match + 1]
             stored == [n EXCEPT !.matchIndex = mi, !.nextIndex = ni]
  <2>1. n.matchIndex \in [Server -> Nat] /\ n.nextIndex \in [Server -> Nat]
    BY <1>1, NodeType
  <2>2. match \in Nat /\ (match = n.matchIndex[p] \/ match = resp.lastNew)
    BY <1>1, <2>1
  <2>3. node' = [node EXCEPT ![i] = acked]
    BY <1>6 DEF PersistIf
  <2>4. acked = advanceCommitLocked(stored, i)
    OBVIOUS
  <2> HIDE DEF match, acked
  <2>5. mi \in [Server -> Nat] /\ ni \in [Server -> Nat]
    <3>1. mi \in [Server -> Nat]
      BY <2>1, <2>2
    <3>2. match + 1 \in Nat
      BY <2>2
    <3>3. ni \in [Server -> Nat]
      BY <2>1, <3>2
    <3>4. QED
      BY <3>1, <3>3
  <2>6. \A q \in Server :
          \/ mi[q] = n.matchIndex[q] /\ (ni[q] = n.nextIndex[q] \/ ni[q] = mi[q] + 1)
          \/ q = p /\ mi[q] = resp.lastNew /\ ni[q] = resp.lastNew + 1
    BY <2>1, <2>2
  <2> HIDE DEF mi, ni
  <2>7. /\ stored \in Node /\ stored.term = n.term /\ stored.state = n.state
        /\ stored.log = n.log /\ stored.commitIndex = n.commitIndex
        /\ stored.matchIndex = mi /\ stored.nextIndex = ni
    BY <1>1, <2>5 DEF Node
  <2> HIDE DEF stored
  <2>8. PICK c \in Nat : acked = [stored EXCEPT !.commitIndex = c] /\ MayCommit(stored, i, c)
    BY <1>1, <2>4, <2>7, AdvanceCommitMeans
  <2>9. /\ acked.term = n.term /\ acked.state = n.state /\ acked.log = n.log
        /\ acked.commitIndex = c /\ acked.matchIndex = mi /\ acked.nextIndex = ni
    BY <2>7, <2>8 DEF Node
  <2>10. node'[i] = acked /\ \A q \in Server : q # i => node'[q] = node[q]
    BY <1>1, <2>3
  <2>11. \/ c = node[i].commitIndex /\ committed' = committed
         \/ /\ c \in 1..Len(node[i].log)
            /\ committed' = committed \cup {SubSeq(node[i].log, 1, c)}
            /\ termAtLocked(node[i].log, c) = node[i].term
            /\ Majority({i} \cup {q \in Server \ {i} : node'[i].matchIndex[q] >= c})
    <3>1. CASE c = n.commitIndex
      BY <1>6, <2>9, <3>1
    <3>2. CASE c # n.commitIndex
      <4>1. /\ c <= Len(n.log) /\ c >= 1 /\ termAtLocked(n.log, c) = n.term
            /\ Majority({i} \cup {q \in Server \ {i} : mi[q] >= c})
        BY <2>7, <2>8, <3>2 DEF MayCommit
      <4>2. Len(n.log) \in Nat
        BY <1>1, NodeType, LenType
      <4>3. c \in 1..Len(n.log)
        BY <4>1, <4>2
      <4>4. committed' = committed \cup {SubSeq(n.log, 1, c)}
        BY <1>6, <2>9, <3>2
      <4>5. node'[i].matchIndex = mi
        BY <2>9, <2>10
      <4>6. QED
        BY <4>1, <4>3, <4>4, <4>5
    <3>3. QED
      BY <3>1, <3>2
  <2>12. Counts(i, resp, c)
    BY <1>2, <1>6, <2>6, <2>9, <2>10, <2>11 DEF Counts
  <2>13. PICK H : LogInv(H)
    BY DEF SafetyInv
  <2>14. H \in Histories
    BY <2>13 DEF LogInv
  <2>15. LogInv(H)'
    BY <1>1, <2>12, <2>13, <2>14, CountsStep
  <2>16. CandidatesOK'
    <3>1. TermsGrow
      <4>1. \A q \in Server : node[q].term \in Nat
        BY NodesTyped
      <4>2. QED
        BY <2>9, <2>10, <4>1 DEF TermsGrow
    <3>2. \A j \in Server : node'[j].state = "candidate" =>
            /\ node[j].state = "candidate" /\ node'[j].term = node[j].term
            /\ node'[j].log = node[j].log
      BY <2>9, <2>10
    <3>3. QED
      BY <1>2, <3>1, <3>2, CandidatesStep DEF SafetyInv
  <2>17. QED
    BY <2>9, <2>10, <2>15, <2>16 DEF SafetyInv
<1>7. CASE /\ n.state = "leader" /\ PersistIf(FALSE, i, walkBack(n, p)) /\ committed' = committed
  <2> DEFINE m == walkBack(n, p)
  <2>1. /\ m.log = n.log /\ m.term = n.term /\ m.commitIndex = n.commitIndex
        /\ m.state = n.state /\ m.matchIndex = n.matchIndex
        /\ \A q \in Server : m.nextIndex[q] <= n.nextIndex[q]
    BY <1>1, WalkBackLowers
  <2>2. node' = [node EXCEPT ![i] = m]
    BY <1>7 DEF PersistIf
  <2> HIDE DEF m
  <2>3. n.term <= n.term
    BY <1>1
  <2>4. Settles(i, m)
    BY <2>1, <2>3 DEF Settles
  <2>5. QED
    BY <1>3, <1>7, <2>2, <2>4
<1>8. QED
  BY <1>4, <1>5, <1>6, <1>7 DEF AppendReply

\* Nothing is logged, promised or committed at the start.
LEMMA SafetyInit == Init => SafetyInv
<1> SUFFICES ASSUME Init PROVE SafetyInv
  OBVIOUS
<1> DEFINE H == [t \in Nat |-> <<>>]
<1>1. \A i \in Server : node[i] = NewNode(ZeroHardState)
  BY DEF Init
<1>2. \A i \in Server : /\ node[i].state = "follower" /\ node[i].term = 0
                        /\ node[i].log = <<>> /\ node[i].commitIndex = 0
  BY <1>1 DEF NewNode, ZeroHardState
<1>3. /\ voteReq = {} /\ voteResp = {} /\ appendReq = {} /\ appendResp = {}
      /\ ballots = {} /\ elections = {} /\ committed = {}
  BY DEF Init
<1>4. H \in Histories /\ \A t \in Nat : H[t] = <<>>
  BY DEF Histories
<1> HIDE DEF H
<1>5. Len(<<>>) = 0 /\ \A k \in 1..0 : FALSE
  OBVIOUS
<1>6. HistoryOK(H) /\ LogsOK(H) /\ LeadersOK(H) /\ RequestsOK(H) /\ ResponsesOK(H)
  BY <1>2, <1>3, <1>4, <1>5
     DEF HistoryOK, LogsOK, LeadersOK, RequestsOK, ResponsesOK, Explained, Monotone
<1>7. CommitsKnown
  BY <1>2, <1>5 DEF CommitsKnown, Known
<1>8. CommitsHeld(H) /\ LaterLeadersHave(H)
  BY <1>3, <1>4 DEF CommitsHeld, LaterLeadersHave
<1>9. AcksHold(H)
  BY <1>2, <1>3 DEF AcksHold, Acked
<1>10. CandidatesOK
  BY <1>3 DEF CandidatesOK
<1>11. QED
  BY <1>4, <1>6, <1>7, <1>8, <1>9, <1>10 DEF SafetyInv, LogInv

\* No step of the cluster breaks the invariant.
LEMMA SafetyNext ==
  TypeInv /\ TypeInv' /\ ElectionInv /\ ElectionInv' /\ SafetyInv /\ [Next]_vars => SafetyInv'
<1> SUFFICES ASSUME TypeInv, TypeInv', ElectionInv, ElectionInv', SafetyInv, [Next]_vars
             PROVE  SafetyInv'
  OBVIOUS
<1>1. CASE CallFails
  <2>1. node' = node /\ NothingNew
    BY <1>1 DEF CallFails, history, NothingNew
  <2>2. QED
    BY <2>1, SafetyIdle
<1>2. CASE UNCHANGED vars
  <2>1. node' = node /\ NothingNew
    BY <1>2 DEF vars, calls, history, NothingNew
  <2>2. QED
    BY <2>1, SafetyIdle
<1>3. QED
  BY <1>1, <1>2, SafetyStart, SafetyRequestVote, SafetyVoteReply, SafetyPropose,
     SafetyReplicate, SafetyAppendEntries, SafetyAppendReply, SafetyRestart
     DEF Next

\* Every reachable state is explained by a history of its leaders' logs.
LEMMA SafetyInvariant == Spec => []SafetyInv
<1>1. QED
  BY TypeInit, TypeNext, ElectionInit, ElectionNext, SafetyInit, SafetyNext, PTL DEF Spec

-----------------------------------------------------------------------------
(* What the invariant says of the committed entries.                       *)

\* Two logs that agree to the end of the first: it is a prefix of the other.
LEMMA AgreeIsPrefix ==
  ASSUME NEW a \in Seq(Entry), NEW b \in Seq(Entry), Agree(a, b, Len(a))
  PROVE  IsPrefix(a, b)
<1>1. Len(a) \in Nat /\ Len(b) \in Nat /\ Len(a) <= Len(b) /\ \A k \in 1..Len(a) : a[k] = b[k]
  BY LenType DEF Agree
<1> DEFINE x == SubSeq(a, 1, Len(a))
           y == SubSeq(b, 1, Len(a))
<1>2. /\ x \in Seq(Entry) /\ Len(x) = Len(a) /\ \A k \in 1..Len(a) : x[k] = a[k]
  BY <1>1
<1>3. /\ y \in Seq(Entry) /\ Len(y) = Len(a) /\ \A k \in 1..Len(a) : y[k] = b[k]
  BY <1>1
<1> HIDE DEF x, y
<1>4. x = y
  BY <1>1, <1>2, <1>3
<1>5. QED
  BY <1>1, <1>4 DEF IsPrefix, x, y

\* The first n entries of a log, as a log: they agree with what the log agrees with.
LEMMA FrontAgrees ==
  ASSUME NEW log \in Seq(Entry), NEW n \in Nat, n <= Len(log), NEW b, Agree(log, b, n)
  PROVE  /\ SubSeq(log, 1, n) \in Seq(Entry)
         /\ Agree(SubSeq(log, 1, n), b, Len(SubSeq(log, 1, n)))
<1>1. Len(log) \in Nat
  BY LenType
<1> DEFINE x == SubSeq(log, 1, n)
<1>2. x \in Seq(Entry) /\ Len(x) = n /\ \A k \in 1..n : x[k] = log[k]
  BY <1>1
<1> HIDE DEF x
<1>3. Agree(x, b, Len(x))
  BY <1>2 DEF Agree
<1>4. QED
  BY <1>2, <1>3 DEF x

\* A committed prefix is a prefix of the log of its own and of every later leader.
LEMMA CommitsInHistory ==
  ASSUME TypeInv, NEW H \in Histories, LogInv(H), NEW c \in committed
  PROVE  /\ c \in Seq(Entry) /\ Len(c) \in Nat /\ Len(c) >= 1 /\ c[Len(c)].term \in Nat
         /\ H[c[Len(c)].term] # <<>>
         /\ \A t \in Nat : c[Len(c)].term <= t /\ H[t] # <<>> => Agree(c, H[t], Len(c))
<1> DEFINE n == Len(c)
           u == c[n].term
<1>1. c \in Seq(Entry) /\ n \in Nat /\ c # <<>>
  BY LenType DEF TypeInv, TypeOK, LogInv, CommitsHeld
<1>2. n >= 1 /\ n \in 1..n
  BY <1>1
<1>3. u \in Nat
  BY <1>1, <1>2, EntryType
<1>4. Fixed(u, n) /\ Agree(c, H[u], n)
  BY DEF Fixed, LogInv, CommitsHeld
<1>5. Locked(H, u, n)
  BY <1>4 DEF Locked
<1>6. H[u] # <<>>
  <2>1. Own(H, u, n)
    BY <1>5, LockedIsOwn DEF LogInv
  <2> HIDE DEF u, n
  <2>2. QED
    BY <1>3, <2>1, OwnWithin
<1>7. ASSUME NEW t \in Nat, u <= t, H[t] # <<>>
      PROVE  Agree(c, H[t], n)
  <2> HIDE DEF u, n
  <2>1. CASE u = t
    BY <1>4, <2>1
  <2>2. CASE u < t
    <3>1. Agree(H[u], H[t], n)
      BY <1>1, <1>3, <1>5, <1>7, <2>2 DEF LogInv, LaterLeadersHave
    <3>2. QED
      BY <1>4, <3>1, AgreeTrans
  <2>3. QED
    BY <1>3, <1>7, <2>1, <2>2
<1>8. QED
  BY <1>1, <1>2, <1>3, <1>6, <1>7

\* Committed prefixes agree, and what a node has committed is inside one.
LEMMA SafetyImplies == TypeInv /\ SafetyInv => StateMachineSafety
<1> SUFFICES ASSUME TypeInv, SafetyInv PROVE StateMachineSafety
  OBVIOUS
<1>1. PICK H : LogInv(H)
  BY DEF SafetyInv
<1>2. H \in Histories
  BY <1>1 DEF LogInv
<1>3. ASSUME NEW c \in committed, NEW d \in committed, c[Len(c)].term <= d[Len(d)].term
      PROVE  IsPrefix(c, d) \/ IsPrefix(d, c)
  <2> DEFINE t == d[Len(d)].term
  <2>1. /\ c \in Seq(Entry) /\ Len(c) \in Nat /\ d \in Seq(Entry) /\ Len(d) \in Nat
        /\ t \in Nat /\ H[t] # <<>>
    BY <1>1, <1>2, CommitsInHistory
  <2>2. Agree(c, H[t], Len(c))
    BY <1>1, <1>2, <1>3, <2>1, CommitsInHistory
  <2>3. Agree(d, H[t], Len(d))
    <3>1. t <= t
      BY <2>1
    <3>2. QED
      BY <1>1, <1>2, <2>1, <3>1, CommitsInHistory
  <2> HIDE DEF t
  <2>4. CASE Len(c) <= Len(d)
    <3>1. Agree(H[t], d, Len(c))
      BY <2>1, <2>3, <2>4, AgreeLess, AgreeSym
    <3>2. Agree(c, d, Len(c))
      BY <2>2, <3>1, AgreeTrans
    <3>3. QED
      BY <2>1, <3>2, AgreeIsPrefix
  <2>5. CASE Len(d) <= Len(c)
    <3>1. Agree(H[t], c, Len(d))
      BY <2>1, <2>2, <2>5, AgreeLess, AgreeSym
    <3>2. Agree(d, c, Len(d))
      BY <2>3, <3>1, AgreeTrans
    <3>3. QED
      BY <2>1, <3>2, AgreeIsPrefix
  <2>6. QED
    BY <2>1, <2>4, <2>5
<1>4. ASSUME NEW c \in committed, NEW d \in committed
      PROVE  IsPrefix(c, d) \/ IsPrefix(d, c)
  <2>1. c[Len(c)].term \in Nat /\ d[Len(d)].term \in Nat
    BY <1>1, <1>2, CommitsInHistory
  <2>2. c[Len(c)].term <= d[Len(d)].term \/ d[Len(d)].term <= c[Len(c)].term
    BY <2>1
  <2>3. QED
    BY <1>3, <2>2
<1>5. ASSUME NEW i \in Server, node[i].commitIndex > 0
      PROVE  \E c \in committed : IsPrefix(SubSeq(node[i].log, 1, node[i].commitIndex), c)
  <2>1. node[i].log \in Seq(Entry) /\ node[i].commitIndex \in Nat
    BY NodeType DEF TypeInv, TypeOK
  <2>2. Known(node[i].log, node[i].commitIndex, node[i].term)
    BY <1>1 DEF LogInv, CommitsKnown
  <2>3. PICK c \in committed : Agree(node[i].log, c, node[i].commitIndex)
    BY <1>5, <2>2 DEF Known
  <2>4. c \in Seq(Entry)
    BY DEF TypeInv, TypeOK
  <2>5. node[i].commitIndex <= Len(node[i].log)
    BY <2>2 DEF Known
  <2>6. QED
    BY <2>1, <2>3, <2>4, <2>5, FrontAgrees, AgreeIsPrefix
<1>6. QED
  BY <1>4, <1>5 DEF StateMachineSafety

\* Whatever any two nodes deliver to their state machines agrees, for every
\* cluster size, any number of crashes and any loss, delay or reordering of calls.
THEOREM CommitsAgree == Spec => []StateMachineSafety
<1>1. QED
  BY TypeInvariant, SafetyInvariant, SafetyImplies, PTL

\* A node that takes entries from a leader keeps what it has committed.
LEMMA AcceptsKeeps ==
  ASSUME TypeInv, SafetyInv, NEW i \in Server, NEW r \in appendReq, Accepts(i, r)
  PROVE  Agree(node[i].log, node'[i].log, node[i].commitIndex)
<1> DEFINE log == node[i].log
           n == node[i].commitIndex
<1>1. PICK H : LogInv(H)
  BY DEF SafetyInv
<1>2. H \in Histories
  BY <1>1 DEF LogInv
<1>3. /\ log \in Seq(Entry) /\ n \in Nat /\ node[i].term \in Nat /\ r.term \in Nat
      /\ node[i].term <= r.term
  BY NodeType DEF TypeInv, TypeOK, AppendReq, Accepts
<1>4. /\ H[r.term] # <<>>
      /\ \A m \in Nat : Agree(log, H[r.term], m) => Agree(log, node'[i].log, m)
  BY <1>1, <1>2, AcceptsMerge
<1>5. Known(log, n, node[i].term)
  BY <1>1 DEF LogInv, CommitsKnown
<1>6. CASE n = 0
  <2>1. Agree(log, H[r.term], 0)
    <3>1. Len(log) \in Nat /\ Len(H[r.term]) \in Nat
      BY <1>2, <1>3, HistoryType, LenType
    <3>2. QED
      BY <3>1 DEF Agree
  <2>2. QED
    BY <1>4, <1>6, <2>1
<1>7. CASE n > 0
  <2>1. PICK c \in committed : c[Len(c)].term <= node[i].term /\ Agree(log, c, n)
    BY <1>5, <1>7 DEF Known
  <2>2. /\ Len(c) \in Nat /\ c[Len(c)].term \in Nat
        /\ c[Len(c)].term <= r.term => Agree(c, H[r.term], Len(c))
    BY <1>1, <1>2, <1>3, <1>4, CommitsInHistory
  <2>3. c[Len(c)].term <= r.term
    BY <1>3, <2>1, <2>2
  <2>4. n <= Len(c)
    BY <2>1 DEF Agree
  <2> HIDE DEF n, log
  <2>5. Agree(c, H[r.term], n)
    BY <1>3, <2>2, <2>3, <2>4, AgreeLess
  <2>6. Agree(log, H[r.term], n)
    BY <2>1, <2>5, AgreeTrans
  <2>7. Agree(log, node'[i].log, n)
    BY <1>3, <1>4, <2>6
  <2>8. QED
    BY <2>7 DEF log, n
<1>8. QED
  BY <1>3, <1>6, <1>7

\* HandleAppendEntries apart, a log changes only by the entry its leader appends.
LEMMA OnlyAppends ==
  ASSUME TypeInv, ElectionInv, [Next]_vars, ~\E req \in appendReq : HandleAppendEntries(req),
         TypeInv', ElectionInv', SafetyInv, NEW q \in Server
  PROVE  node'[q].log = node[q].log \/ \E e \in Entry : node'[q].log = Append(node[q].log, e)
<1>1. node \in [Server -> Node] /\ node[q] \in Node
  BY DEF TypeInv, TypeOK
<1>2. ASSUME NEW i \in Server, NEW P \in SUBSET (Server \ {i}), startElection(i, P)
      PROVE  node'[q].log = node[q].log \/ \E e \in Entry : node'[q].log = Append(node[q].log, e)
  <2> DEFINE n == [node[i] EXCEPT !.state = "candidate", !.term = @ + 1,
                                  !.votedFor = i, !.votes = {i}]
  <2>1. n.log = node[i].log
    BY <1>1 DEF Node, TypeInv, TypeOK
  <2>2. n \in Node
    BY <1>1, CandidateType
  <2>3. node' = [node EXCEPT ![i] = becomeLeaderLocked(n)] \/ node' = [node EXCEPT ![i] = n]
    BY <1>2 DEF startElection, Persist
  <2> HIDE DEF n
  <2>4. \E e \in Entry : becomeLeaderLocked(n).log = Append(node[i].log, e)
    BY <2>1, <2>2, BecomeLeaderLog
  <2>5. QED
    BY <1>1, <2>1, <2>3, <2>4
<1>3. ASSUME NEW req \in voteReq, HandleRequestVote(req)
      PROVE  node'[q].log = node[q].log
  <2> DEFINE i == req.peer
             higher == req.term > node[i].term
             n == IF higher THEN stepDownLocked(node[i], req.term) ELSE node[i]
             granted == /\ req.term = n.term
                        /\ n.votedFor \in {Nil, req.caller}
                        /\ upToDate(req, n.log)
             m == IF granted THEN [n EXCEPT !.votedFor = req.caller] ELSE n
  <2>1. i \in Server /\ req.caller \in Server /\ req.term \in Nat
    BY DEF TypeInv, TypeOK, VoteReq
  <2>2. node' = [node EXCEPT ![i] = m]
    BY <1>3 DEF HandleRequestVote, PersistIf, Persist
  <2>3. n \in Node /\ n.log = node[i].log
    BY <1>1, <2>1, StepDownType
  <2> HIDE DEF n, granted
  <2>4. m.log = n.log
    BY <2>1, <2>3 DEF Node
  <2> HIDE DEF m
  <2>5. QED
    BY <1>1, <2>1, <2>2, <2>3, <2>4
<1>4. ASSUME NEW resp \in voteResp, VoteReply(resp)
      PROVE  node'[q].log = node[q].log \/ \E e \in Entry : node'[q].log = Append(node[q].log, e)
  <2> DEFINE i == resp.caller
             votes == node[i].votes \cup {resp.peer}
             m == [node[i] EXCEPT !.votes = votes]
  <2>1. i \in Server /\ resp.peer \in Server /\ resp.term \in Nat
    BY DEF TypeInv, TypeOK, VoteResp
  <2>2. \/ node' = node
        \/ node' = [node EXCEPT ![i] = stepDownLocked(node[i], resp.term)]
        \/ node' = [node EXCEPT ![i] = becomeLeaderLocked(m)]
        \/ node' = [node EXCEPT ![i] = m]
    BY <1>4 DEF VoteReply, PersistIf, Persist
  <2>3. stepDownLocked(node[i], resp.term).log = node[i].log
    BY <1>1, <2>1, StepDownType
  <2>4. node[i] \in Node
    BY <1>1, <2>1
  <2>5. votes \in SUBSET Server
    BY <2>1, <2>4 DEF Node
  <2> HIDE DEF votes
  <2>6. m \in Node /\ m.log = node[i].log
    BY <2>4, <2>5 DEF Node
  <2> HIDE DEF m
  <2>7. \E e \in Entry : becomeLeaderLocked(m).log = Append(node[i].log, e)
    BY <2>6, BecomeLeaderLog
  <2>8. QED
    BY <1>1, <2>1, <2>2, <2>3, <2>6, <2>7
<1>5. ASSUME NEW i \in Server, NEW cmd \in Cmd, Propose(i, cmd)
      PROVE  node'[q].log = node[q].log \/ \E e \in Entry : node'[q].log = Append(node[q].log, e)
  <2> DEFINE e == [term |-> node[i].term, cmd |-> cmd]
             log == Append(node[i].log, e)
             m == [node[i] EXCEPT !.log = log]
  <2>1. e \in Entry
    BY <1>1, NodeType DEF Entry, TypeInv, TypeOK
  <2>2. node' = [node EXCEPT ![i] = m]
    BY <1>5 DEF Propose, Persist
  <2> HIDE DEF e
  <2>3. m.log = log
    BY <1>1 DEF Node
  <2> HIDE DEF m
  <2>4. QED
    BY <1>1, <2>1, <2>2, <2>3
<1>6. ASSUME NEW resp \in appendResp, AppendReply(resp)
      PROVE  node'[q].log = node[q].log
  BY <1>6, SafetyAppendReply
<1>7. ASSUME NEW i \in Server, Restart(i)
      PROVE  node'[q].log = node[q].log
  <2>1. node' = [node EXCEPT ![i] = NewNode(disk[i])]
    BY <1>7 DEF Restart
  <2>2. disk[i] = HardStateOf(node[i])
    BY DEF ElectionInv, Durable
  <2>3. NewNode(disk[i]).log = node[i].log
    BY <2>2 DEF NewNode, HardStateOf
  <2>4. QED
    BY <1>1, <2>1, <2>3
<1>8. CASE (\E i, p \in Server : replicateTo(i, p)) \/ CallFails \/ UNCHANGED vars
  BY <1>8 DEF replicateTo, CallFails, vars
<1>9. QED
  BY <1>2, <1>3, <1>4, <1>5, <1>6, <1>7, <1>8 DEF Next

\* No step changes what a node has up to its commitIndex.
LEMMA NeverCutStep ==
  ASSUME TypeInv, TypeInv', ElectionInv, ElectionInv', SafetyInv, [Next]_vars, NEW i \in Server
  PROVE  IsPrefix(SubSeq(node[i].log, 1, node[i].commitIndex), node'[i].log)
<1> DEFINE log == node[i].log
           new == node'[i].log
           n == node[i].commitIndex
<1>1. log \in Seq(Entry) /\ new \in Seq(Entry) /\ n \in Nat /\ Len(log) \in Nat
  BY NodeType, LenType DEF TypeInv, TypeOK
<1>2. n <= Len(log)
  BY DEF SafetyInv, LogInv, CommitsKnown, Known
<1>3. ASSUME new = log \/ \E e \in Entry : new = Append(log, e)
      PROVE  Agree(log, new, n)
  <2> HIDE DEF log, new, n
  <2>1. CASE new = log
    BY <1>1, <1>2, <2>1 DEF Agree
  <2>2. CASE \E e \in Entry : new = Append(log, e)
    <3>1. Len(new) = Len(log) + 1 /\ \A k \in 1..Len(log) : new[k] = log[k]
      BY <1>1, <2>2, AppendLog
    <3>2. QED
      BY <1>1, <1>2, <3>1 DEF Agree
  <2>3. QED
    BY <1>3, <2>1, <2>2
<1>4. CASE \E req \in appendReq : HandleAppendEntries(req)
  <2>1. PICK req \in appendReq : HandleAppendEntries(req)
    BY <1>4
  <2>2. req.peer \in Server
    BY DEF TypeInv, TypeOK, AppendReq
  <2>3. Accepts(req.peer, req) \/ \A q \in Server : node'[q].log = node[q].log
    BY <2>1, SafetyAppendEntries
  <2>4. new = log => Agree(log, new, n)
    BY <1>3
  <2>5. ASSUME Accepts(req.peer, req)
        PROVE  Agree(log, new, n)
    <3>1. CASE req.peer = i
      BY <2>1, <2>5, <3>1, AcceptsKeeps
    <3>2. CASE req.peer # i
      <4>1. node'[i] = node[i]
        BY <2>5, <3>2 DEF Accepts
      <4>2. QED
        BY <2>4, <4>1
    <3>3. QED
      BY <3>1, <3>2
  <2>6. Agree(log, new, n)
    BY <2>3, <2>4, <2>5
  <2>7. QED
    BY <1>1, <1>2, <2>6, FrontAgrees, AgreeIsPrefix
<1>5. CASE ~\E req \in appendReq : HandleAppendEntries(req)
  <2>1. new = log \/ \E e \in Entry : new = Append(log, e)
    BY <1>5, OnlyAppends
  <2>2. Agree(log, new, n)
    BY <1>3, <2>1
  <2>3. QED
    BY <1>1, <1>2, <2>2, FrontAgrees, AgreeIsPrefix
<1>6. QED
  BY <1>4, <1>5

\* "A committed entry is never cut here": no step of any node, restarts included,
\* removes or changes an entry below its commitIndex.
THEOREM NeverCut == Spec => CommittedNeverCut
<1>1. TypeInv /\ TypeInv' /\ ElectionInv /\ ElectionInv' /\ SafetyInv /\ [Next]_vars
        => [\A i \in Server :
              IsPrefix(SubSeq(node[i].log, 1, node[i].commitIndex), node'[i].log)]_vars
  BY NeverCutStep
<1>2. QED
  BY <1>1, TypeInvariant, ElectionInvariant, SafetyInvariant, PTL DEF Spec, CommittedNeverCut
=============================================================================
