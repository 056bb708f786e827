-------------------------------- MODULE World --------------------------------
(***************************************************************************)
(* services/world: the region actors, the handoff of a player between      *)
(* regions, and the session that follows him (services/gateway).           *)
(*                                                                         *)
(* Mailboxes are FIFO.  A region's blocks its senders when it is full, so  *)
(* nothing is lost there; a session's drops the newest message (drops).    *)
(* Positions are floating point: where a tick puts a player is a choice.   *)
(* Chat, gathering and snapshots do not move anybody and are left out.     *)
(***************************************************************************)
EXTENDS Integers, Sequences, FiniteSets, SequencesExt

CONSTANTS Player, Region,
          Spawn,      \* the region of the middle of the world
          MaxTicks,   \* bound on ticks in which somebody crosses a border
          MaxTrouble  \* bound, together, on changes of a shard's availability,
                      \* messages a full session mailbox drops, matches players
                      \* are moved to and lost connections

ASSUME WorldAssumption ==
  /\ Spawn \in Region /\ IsFiniteSet(Player) /\ IsFiniteSet(Region)
  /\ MaxTicks \in Nat /\ MaxTrouble \in Nat

None == 0
Conn == 1..MaxTrouble+1

VARIABLES entity,    \* entity[r][p]: the connection region r simulates p for, or None
          inbox,     \* inbox[r]: the mailbox of region r
          session,   \* session[p]: the actor of p's connection
          mail,      \* mail[p]: its mailbox
          shardUp,   \* shardUp[r]: Router.ShardUp of the shard of r
          away,      \* away[p]: p is in a match that is to bring him back
          todo,      \* todo[r][p]: while r ticks, the region of p's new position; r
                     \* itself when there is nothing to do about p
          tell,      \* tell[r]: the AssignedRegion r is to send before it goes on
          late,      \* history: the players a region handed on before the region they
                     \* came from had told their session
          conns, ticks, drops, matches,
          upsets     \* changes of availability and lost connections

turn == <<todo, tell, late>>
vars == <<entity, inbox, session, mail, shardUp, away, turn, conns, ticks, drops, matches, upsets>>
counters == <<conns, ticks, drops, matches, upsets>>

RegionMsg == [type : {"Join"}, player : Player, conn : Conn]
               \cup [type : {"Leave"}, player : Player]
SessionMsg == [type : {"AssignedRegion"}, region : Region]
                \cup [type : {"enterArena", "enterHub"}]
Notice == [player : Player, conn : Conn, region : Region]

\* Type invariant.
TypeOK ==
  /\ entity \in [Region -> [Player -> Conn \cup {None}]]
  /\ inbox \in [Region -> Seq(RegionMsg)]
  /\ session \in [Player -> [up : BOOLEAN, region : Region, arena : BOOLEAN]]
  /\ mail \in [Player -> Seq(SessionMsg)]
  /\ shardUp \in [Region -> BOOLEAN]
  /\ away \in [Player -> BOOLEAN]
  /\ todo \in [Region -> [Player -> Region]]
  /\ tell \in [Region -> SUBSET Notice] /\ late \subseteq Player
  /\ conns \in [Player -> 0..MaxTrouble+1]
  /\ ticks \in 0..MaxTicks /\ matches \in [Player -> Nat]
  /\ drops \in Nat /\ upsets \in Nat

Init ==
  /\ entity = [r \in Region |-> [p \in Player |-> None]]
  /\ inbox = [r \in Region |-> <<>>]
  /\ session = [p \in Player |-> [up |-> FALSE, region |-> Spawn, arena |-> FALSE]]
  /\ mail = [p \in Player |-> <<>>]
  /\ shardUp = [r \in Region |-> TRUE]
  /\ away = [p \in Player |-> FALSE]
  /\ todo = [r \in Region |-> [p \in Player |-> r]]
  /\ tell = [r \in Region |-> {}] /\ late = {}
  /\ conns = [p \in Player |-> 0] /\ matches = [p \in Player |-> 0]
  /\ ticks = 0 /\ drops = 0 /\ upsets = 0

\* n more disturbances are within the bound.
Spared(n) == drops + upsets + FoldFunction(+, 0, matches) + n <= MaxTrouble

Join(p, c) == [type |-> "Join", player |-> p, conn |-> c]
Leave(p) == [type |-> "Leave", player |-> p]

Send(r, msg) == inbox' = [inbox EXCEPT ![r] = Append(@, msg)]

-----------------------------------------------------------------------------
(* The session. *)

\* PreStart.
Connect(p) ==
  LET c == conns[p] + 1
  IN  /\ ~session[p].up
      /\ conns' = [conns EXCEPT ![p] = c]
      /\ session' = [session EXCEPT ![p] = [up |-> TRUE, region |-> Spawn, arena |-> FALSE]]
      /\ Send(Spawn, Join(p, c))
      /\ UNCHANGED <<entity, mail, shardUp, away, turn, ticks, drops, matches, upsets>>

\* The connection is gone: Stop goes ahead of the mailbox, which is discarded,
\* and PostStop leaves the region the session knows of.
Disconnect(p) ==
  /\ session[p].up
  /\ Spared(1) /\ upsets' = upsets + 1
  /\ session' = [session EXCEPT ![p].up = FALSE]
  /\ mail' = [mail EXCEPT ![p] = <<>>]
  /\ Send(session[p].region, Leave(p))
  /\ UNCHANGED <<entity, shardUp, away, turn, conns, ticks, drops, matches>>

\* Mutant: the new region is not taken over.
MutAssigned(s, m) == s

\* The session after AssignedRegion.
Assigned(s, m) == [s EXCEPT !.region = m.region]

\* What onEnterHub sends to the spawn region.
HubSends(p) == <<Join(p, conns[p])>>

\* Receive: AssignedRegion, onEnterArena, onEnterHub.
Receive(p) ==
  LET m == Head(mail[p])
      s == session[p]
  IN  /\ s.up /\ mail[p] # <<>>
      /\ mail' = [mail EXCEPT ![p] = Tail(@)]
      /\ \/ /\ m.type = "AssignedRegion"
            /\ session' = [session EXCEPT ![p] = Assigned(s, m)]
            /\ UNCHANGED inbox
         \/ /\ m.type = "enterArena"
            /\ session' = [session EXCEPT ![p].arena = TRUE]
            /\ Send(s.region, Leave(p))
         \/ /\ m.type = "enterHub"
            /\ session' = [session EXCEPT ![p].arena = FALSE, ![p].region = Spawn]
            /\ inbox' = [inbox EXCEPT ![Spawn] = @ \o HubSends(p)]
      /\ UNCHANGED <<entity, shardUp, away, turn, counters>>

\* The gateway's orders for a match (Assign) and after it (Release, which finds
\* whatever session p has then).  Handoff.tla has the locks and the tokens.
Order(p) ==
  /\ session[p].up
  /\ \/ /\ ~away[p] /\ Spared(1)
        /\ matches' = [matches EXCEPT ![p] = @ + 1]
        /\ mail' = [mail EXCEPT ![p] = Append(@, [type |-> "enterArena"])]
     \/ /\ away[p]
        /\ mail' = [mail EXCEPT ![p] = Append(@, [type |-> "enterHub"])]
        /\ UNCHANGED matches
  /\ away' = [away EXCEPT ![p] = ~@]
  /\ UNCHANGED <<entity, inbox, session, shardUp, turn, conns, ticks, drops, upsets>>

-----------------------------------------------------------------------------
(* The region. *)

\* A tick of region r is under way: it handles nothing else.
Ticking(r) == tell[r] # {} \/ \E p \in Player : todo[r][p] # r

\* Receive: Join, Leave.
Handle(r) ==
  LET m == Head(inbox[r])
  IN  /\ ~Ticking(r) /\ inbox[r] # <<>>
      /\ inbox' = [inbox EXCEPT ![r] = Tail(@)]
      /\ entity' = [entity EXCEPT ![r][m.player] = IF m.type = "Join" THEN m.conn ELSE None]
      /\ UNCHANGED <<session, mail, shardUp, away, turn, counters>>

\* The players region r simulates.
In(r) == {p \in Player : entity[r][p] # None}

\* tickStep, to its loop: dst[p] is the region of p's new position.
Tick(r, dst) ==
  /\ ~Ticking(r) /\ shardUp[r] /\ ticks < MaxTicks
  /\ \E p \in In(r) : dst[p] # r
  /\ ticks' = ticks + 1
  /\ todo' = [todo EXCEPT ![r] = [p \in Player |-> IF p \in In(r) THEN dst[p] ELSE r]]
  /\ UNCHANGED <<entity, inbox, session, mail, shardUp, away, tell, late, conns, drops, matches, upsets>>

\* Mutant: the player stays in the region he was handed over from.
MutKept(r, p) == entity[r]

\* Region r's players without p.
Kept(r, p) == [entity[r] EXCEPT ![p] = None]

\* The region across the border can take the player.
Reachable(dst) == shardUp[dst]

\* The session of p has yet to be told where he is.
Untold(p) == \E r \in Region : \E n \in tell[r] : n.player = p

\* The loop comes to p, who has crossed a border (a Go map is visited in any order):
\* Join to the other region, or he stays where he is.  The code deletes him from the
\* map after the loop, which nobody sees: the map is the region's own.
HandOver(r, p) ==
  LET d == todo[r][p]
  IN  /\ d # r /\ tell[r] = {}
      /\ todo' = [todo EXCEPT ![r][p] = r]
      /\ \/ /\ Reachable(d)
            /\ Send(d, Join(p, entity[r][p]))
            /\ entity' = [entity EXCEPT ![r] = Kept(r, p)]
            /\ tell' = [tell EXCEPT ![r] = {[player |-> p, conn |-> entity[r][p], region |-> d]}]
            /\ late' = IF Untold(p) THEN late \cup {p} ELSE late
         \/ /\ ~Reachable(d)
            /\ UNCHANGED <<inbox, entity, tell, late>>
      /\ UNCHANGED <<session, mail, shardUp, away, counters>>

\* The send after it: AssignedRegion to the session, unless that is full or gone.
Tell(r, n) ==
  /\ n \in tell[r]
  /\ tell' = [tell EXCEPT ![r] = @ \ {n}]
  /\ \/ /\ session[n.player].up /\ n.conn = conns[n.player]
        /\ mail' = [mail EXCEPT ![n.player] =
                      Append(@, [type |-> "AssignedRegion", region |-> n.region])]
        /\ UNCHANGED drops
     \/ /\ session[n.player].up /\ n.conn = conns[n.player]
        /\ Spared(1) /\ drops' = drops + 1
        /\ UNCHANGED mail
     \/ /\ ~(session[n.player].up /\ n.conn = conns[n.player])
        /\ UNCHANGED <<mail, drops>>
  /\ UNCHANGED <<entity, inbox, session, shardUp, away, todo, late, conns, ticks, matches, upsets>>

\* Router.SetShardUp, or the raft group of the shard loses or finds a majority.
Flip(r) ==
  /\ Spared(1) /\ upsets' = upsets + 1
  /\ shardUp' = [shardUp EXCEPT ![r] = ~@]
  /\ UNCHANGED <<entity, inbox, session, mail, away, turn, conns, ticks, drops, matches>>

-----------------------------------------------------------------------------

Next ==
  \/ \E p \in Player : Connect(p) \/ Disconnect(p) \/ Receive(p) \/ Order(p)
  \/ \E r \in Region : \/ Handle(r) \/ Flip(r)
                        \/ \E dst \in [In(r) -> Region] : Tick(r, dst)
                        \/ \E p \in Player : HandOver(r, p)
                        \/ \E n \in tell[r] : Tell(r, n)

Spec == Init /\ [][Next]_vars

-----------------------------------------------------------------------------
(* Properties. *)

\* No message about p is on its way, or about to be sent.
Settled(p) ==
  /\ mail[p] = <<>> /\ ~Untold(p)
  /\ \A r \in Region : \A i \in DOMAIN inbox[r] : inbox[r][i].player # p

\* A connected player on his first connection, whom no match has moved.
AtHome(p) == session[p].up /\ conns[p] = 1 /\ matches[p] = 0

\* p's entity is in the region that his session sends his input to, and nowhere else.
Followed(p) ==
  \A r \in Region : entity[r][p] = IF r = session[p].region THEN conns[p] ELSE None

\* What the comment of type session promises: when no message is on its way the
\* session has followed its player.  It has not when an AssignedRegion was dropped,
\* nor when a region was slower to send it than the next region was to hand on.
InStep == \A p \in Player : AtHome(p) /\ Settled(p) => Followed(p)

\* In the order of the handoffs, and with nothing dropped, it holds.
InStepInOrder ==
  \A p \in Player \ late : AtHome(p) /\ drops = 0 /\ Settled(p) => Followed(p)

\* "At most a harmless Leave goes to the old region" (comment of PostStop): when a
\* player has gone, and no message about him is on its way, no region simulates him.
\* The code does not keep it: README, section 3.
GoneForGood ==
  \A p \in Player :
    ~session[p].up /\ Settled(p) => \A r \in Region : entity[r][p] = None

\* How often region r has p: as an entity, or as a Join to come.
Copies(r, p) ==
  (IF entity[r][p] = None THEN 0 ELSE 1)
    + Cardinality({i \in DOMAIN inbox[r] : inbox[r][i] = Join(p, conns[p])})

\* A handoff between regions neither loses nor doubles a player: at any time
\* exactly one region has him, or is about to, messages to his session dropped
\* and shards lost included.
OneOwner ==
  \A p \in Player :
    AtHome(p) => \E r \in Region : /\ Copies(r, p) = 1
                                   /\ \A s \in Region \ {r} : Copies(s, p) = 0
=============================================================================
