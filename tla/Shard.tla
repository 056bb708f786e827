------------------------------- MODULE Shard --------------------------------
(***************************************************************************)
(* services/shard: the raft group of one shard, as Manager.Available sees  *)
(* it.  The question is one of time, so time is in the model and the log   *)
(* is not (that is Raft.tla's): a unit is a heartbeat interval, an age is  *)
(* counted up to where it stops to matter, and whether a candidate's log   *)
(* is good enough for a voter is left open.                                *)
(*                                                                         *)
(* Leaders beat on time, and the calls of an election take less than a     *)
(* unit, as does the answer to a heartbeat: the network of a group is      *)
(* inside the process.                                                     *)
(***************************************************************************)
EXTENDS Integers, FiniteSets, FiniteSetsExt

CONSTANTS Replicas,      \* Options.Replicas
          QuorumWindow,  \* quorumWindow, in heartbeats
          ElectionMin,   \* the shortest election timeout, in heartbeats
          MaxTerm,       \* bound on terms
          MaxSplits      \* bound on partitions and heals

ASSUME ShardAssumption ==
  \A n \in {Replicas, QuorumWindow, ElectionMin, MaxTerm, MaxSplits} : n \in Nat \ {0}

\* Group.ids, in the order in which Leader asks them.
Node == 1..Replicas
NoLeader == 0

VARIABLES leads,    \* leads[n]: state is Leader
          term,
          voted,    \* voted[n]: votedFor is set
          idle,     \* idle[n]: age of electionReset
          acked,    \* acked[n][p]: age of lastAck[p] at n
          replies,  \* answers to AppendEntries on their way
          group,    \* Network.group
          elected,  \* elected[n]: age of n's last election
          cut,      \* how long no side of a partition has had a majority
          splits

shardVars == <<leads, term, voted, idle, acked, replies, group, elected, cut, splits>>

Stale == QuorumWindow + 1   \* an age past the window, or no acknowledgement at all
Age == 0..Stale
Reply == [to : Node, from : Node, asked : 0..MaxTerm, term : 0..MaxTerm]

\* A partition names each node's side by the first node of that side.
Partitions == {g \in [Node -> Node] : \A n \in Node : g[n] <= n /\ g[g[n]] = g[n]}

\* Type invariant.
ShardTypeOK ==
  /\ leads \in [Node -> BOOLEAN] /\ voted \in [Node -> BOOLEAN]
  /\ term \in [Node -> 0..MaxTerm]
  /\ idle \in [Node -> 0..ElectionMin]
  /\ acked \in [Node -> [Node -> Age]]
  /\ replies \subseteq Reply
  /\ group \in Partitions
  /\ elected \in [Node -> Age] /\ cut \in Age /\ splits \in 0..MaxSplits

\* NewGroup.
ShardInit ==
  /\ leads = [n \in Node |-> FALSE] /\ voted = [n \in Node |-> FALSE]
  /\ term = [n \in Node |-> 0]
  /\ idle = [n \in Node |-> 0]
  /\ acked = [n \in Node |-> [p \in Node |-> Stale]]
  /\ replies = {}
  /\ group = [n \in Node |-> 1]
  /\ elected = [n \in Node |-> Stale] /\ cut = 0 /\ splits = 0

Majority(S) == 2 * Cardinality(S) > Replicas

\* The nodes n can call.
Peers(n) == {p \in Node \ {n} : group[p] = group[n]}

Whole(g) == \E n \in Node : Majority({p \in Node : g[p] = g[n]})

-----------------------------------------------------------------------------
(* pkg/raft, as far as time goes. *)

\* A timed out follower or candidate asks the peers it reaches for their votes;
\* those that grant it one, and do not know of a later term, decide the election.
Elect(n, reached, granting) ==
  LET T == term[n] + 1
      behind == {v \in reached : term[v] < T}
      ahead == {v \in reached : term[v] > T}
      wins == ahead = {} /\ Majority(granting \cup {n})
      later == Max({term[v] : v \in ahead} \cup {T})
  IN  /\ ~leads[n] /\ idle[n] >= ElectionMin /\ T <= MaxTerm
      /\ granting \subseteq behind \cup {v \in reached : term[v] = T /\ ~voted[v]}
      /\ leads' = [m \in Node |-> IF m = n THEN wins ELSE leads[m] /\ m \notin behind]
      /\ term' = [m \in Node |-> IF m = n THEN later ELSE IF m \in behind THEN T ELSE term[m]]
      /\ voted' = [m \in Node |-> CASE m = n -> later = T
                                    [] m \in granting -> TRUE
                                    [] OTHER -> voted[m] /\ m \notin behind]
      /\ idle' = [m \in Node |-> IF m \in {n} \cup behind \cup granting THEN 0 ELSE idle[m]]
      /\ elected' = [elected EXCEPT ![n] = IF wins THEN 0 ELSE @]
      /\ UNCHANGED <<acked, replies, group, cut, splits>>

\* replicateTo, up to the answer of HandleAppendEntries.
Beat(l, p) ==
  /\ leads[l] /\ p \in Peers(l)
  /\ replies' = replies \cup {[to |-> l, from |-> p, asked |-> term[l],
                               term |-> Max({term[l], term[p]})]}
  /\ IF term[p] > term[l]
     THEN UNCHANGED <<leads, term, voted, idle>>
     ELSE /\ leads' = [leads EXCEPT ![p] = FALSE]
          /\ term' = [term EXCEPT ![p] = term[l]]
          /\ voted' = [voted EXCEPT ![p] = @ /\ term[p] = term[l]]
          /\ idle' = [idle EXCEPT ![p] = 0]
  /\ UNCHANGED <<acked, group, elected, cut, splits>>

\* Mutant: an answer of a later term counts as contact too.
MutCounts(r) == TRUE

\* The answer is one to this leadership.
Counts(r) == r.term = r.asked

\* The rest of replicateTo.  A partition does not stop an answer that is on its way.
Answered(r) ==
  /\ r \in replies
  /\ replies' = replies \ {r}
  /\ \/ /\ ~Counts(r) /\ r.term > term[r.to]
        /\ leads' = [leads EXCEPT ![r.to] = FALSE]
        /\ term' = [term EXCEPT ![r.to] = r.term]
        /\ voted' = [voted EXCEPT ![r.to] = FALSE]
        /\ idle' = [idle EXCEPT ![r.to] = 0]
        /\ UNCHANGED acked
     \/ /\ Counts(r) /\ leads[r.to] /\ term[r.to] = r.asked
        /\ acked' = [acked EXCEPT ![r.to][r.from] = 0]
        /\ UNCHANGED <<leads, term, voted, idle>>
     \/ /\ r.term <= term[r.to] /\ ~(leads[r.to] /\ term[r.to] = r.asked)
        /\ UNCHANGED <<leads, term, voted, idle, acked>>
  /\ UNCHANGED <<group, elected, cut, splits>>

-----------------------------------------------------------------------------
(* The group. *)

\* Partition, IsolateAll, Heal.
Partition(g) ==
  /\ splits < MaxSplits /\ splits' = splits + 1
  /\ g # group /\ group' = g
  /\ cut' = 0
  /\ UNCHANGED <<leads, term, voted, idle, acked, replies, elected>>

Older(age) == Min({age + 1, Stale})

\* The ticker of leader l has called every peer it reaches.
Beaten(l) == \A p \in Peers(l) : idle[p] = 0 \/ term[p] > term[l]

\* A heartbeat interval passes.
Pass ==
  /\ replies = {} /\ \A l \in Node : leads[l] => Beaten(l)
  /\ idle' = [n \in Node |-> Min({idle[n] + 1, ElectionMin})]
  /\ acked' = [n \in Node |-> [p \in Node |-> Older(acked[n][p])]]
  /\ elected' = [n \in Node |-> Older(elected[n])]
  /\ cut' = IF Whole(group) THEN 0 ELSE Older(cut)
  /\ UNCHANGED <<leads, term, voted, replies, group, splits>>

\* Mutant: half of the group is enough.
MutQuorumActive(n) ==
  leads[n] /\ 2 * Cardinality({n} \cup {p \in Node : acked[n][p] <= QuorumWindow}) >= Replicas - 1

QuorumActive(n) == leads[n] /\ Majority({n} \cup {p \in Node : acked[n][p] <= QuorumWindow})

Leader == LET active == {n \in Node : QuorumActive(n)}
          IN  IF active = {} THEN NoLeader ELSE Min(active)

Available == Leader # NoLeader

ShardNext ==
  \/ \E n \in Node : \E reached \in SUBSET Peers(n) : \E granting \in SUBSET reached :
       Elect(n, reached, granting)
  \/ \E l, p \in Node : Beat(l, p)
  \/ \E r \in replies : Answered(r)
  \/ \E g \in Partitions : Partition(g)
  \/ Pass

ShardSpec == ShardInit /\ [][ShardNext]_shardVars

-----------------------------------------------------------------------------
(* Properties. *)

\* "Without a majority the shard is unavailable" (package comment): once no side
\* has had a majority for longer than the window, no replica is taken for the leader.
CutOffIsUnavailable == cut > QuorumWindow => ~Available

\* A leader that has been replaced is not taken for one for longer than the
\* window after the election of the next.
SplitIsShort ==
  \A m, n \in Node :
    QuorumActive(m) /\ QuorumActive(n) /\ term[m] < term[n] => elected[n] <= QuorumWindow
=============================================================================
