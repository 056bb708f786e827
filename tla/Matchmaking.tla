---------------------------- MODULE Matchmaking -----------------------------
(***************************************************************************)
(* services/matchmaking: the queues of Matcher, the saga that sets a match *)
(* up, and its end, with LocalProvisioner and the gateway as Assigner.     *)
(*                                                                         *)
(* What a transfer does inside is Handoff.tla's; here Assign and Release   *)
(* move the player in one step or fail, and one whose ask times out leaves *)
(* its order in the mailbox of the session, which may still carry it out.  *)
(* The saga of a match and its onMatchEnd are two goroutines: saga[m] and  *)
(* ending[m].                                                              *)
(***************************************************************************)
EXTENDS Integers, Sequences, FiniteSets, SequencesExt

CONSTANTS Player, Mode,
          Need,         \* 2 * teamSizeFor(mode)
          Hub,          \* not in an arena
          NoMode,       \* not in inQueue
          MaxMatches,   \* bound on matches formed
          MaxTrouble    \* bound, together, on Provision, Assign and Release that fail or
                        \* time out, matches over before the saga is, players who queue
                        \* twice and players who connect twice

ASSUME MatchmakingAssumption ==
  /\ IsFiniteSet(Player) /\ Mode # {} /\ Need \in Nat \ {0}
  /\ MaxMatches \in Nat /\ MaxTrouble \in Nat /\ Hub \notin 1..MaxMatches

Match == 1..MaxMatches

VARIABLES queues,    \* queues[mode]: players, in order
          inQueue,   \* inQueue[p]: a mode, or NoMode
          conn,      \* the connection of each player
          orders,    \* orders[p]: where orders send p whose ask has timed out, in order
          place,     \* place[p]: Hub, or the match in whose arena p's session is
          picked,    \* picked[m]: the players of match m, in order
          saga,      \* saga[m]: runSaga's step, how many players it has assigned, and
                     \* how many of those it has released again
          ending,    \* ending[m]: onMatchEnd's step and how many players it has released
          arenas,    \* LocalProvisioner.arenas
          enqueues, connects,
          faults,    \* Provisions and Assigns that failed
          misses,    \* Releases that failed
          early      \* matches over before their saga was

vars == <<queues, inQueue, conn, orders, place, picked, saga, ending, arenas,
          enqueues, connects, faults, misses, early>>
counters == <<enqueues, connects, faults, misses, early>>

\* Type invariant.
TypeOK ==
  /\ queues \in [Mode -> Seq(Player)]
  /\ inQueue \in [Player -> Mode \cup {NoMode}]
  /\ conn \in [Player -> {"off", "on", "stopped"}]
  /\ orders \in [Player -> Seq({Hub} \cup Match)]
  /\ place \in [Player -> {Hub} \cup Match]
  /\ picked \in [Match -> [mode : Mode, players : Seq(Player)]]
  /\ saga \in [Match -> [pc : {"none", "provision", "assign", "undo", "destroy", "cancel",
                               "done", "cancelled"}, n : 0..Need, undone : 0..Need]]
  /\ ending \in [Match -> [pc : {"none", "release", "destroy", "done"}, n : 0..Need]]
  /\ arenas \subseteq Match
  /\ \A m \in Match : saga[m].pc # "none" => Len(picked[m].players) = Need

Init ==
  /\ queues = [mode \in Mode |-> <<>>]
  /\ inQueue = [p \in Player |-> NoMode]
  /\ conn = [p \in Player |-> "off"]
  /\ orders = [p \in Player |-> <<>>]
  /\ place = [p \in Player |-> Hub]
  /\ picked = [m \in Match |-> [mode |-> CHOOSE mode \in Mode : TRUE, players |-> <<>>]]
  /\ saga = [m \in Match |-> [pc |-> "none", n |-> 0, undone |-> 0]]
  /\ ending = [m \in Match |-> [pc |-> "none", n |-> 0]]
  /\ arenas = {}
  /\ enqueues = [p \in Player |-> 0] /\ connects = [p \in Player |-> 0]
  /\ faults = 0 /\ misses = 0 /\ early = 0

InMatch(m) == {picked[m].players[i] : i \in 1..Len(picked[m].players)}

Twice(f) == {p \in Player : f[p] = 2}

\* One more disturbance is within the bound.
Spared ==
  faults + misses + early + Cardinality(Twice(enqueues)) + Cardinality(Twice(connects)) < MaxTrouble

\* The first call of p, or the second if there is room for it.
Allowed(f, p) == f[p] = 0 \/ (f[p] = 1 /\ Spared)

\* The i-th player of match m.
Nth(m, i) == picked[m].players[i]

-----------------------------------------------------------------------------
(* Connections. *)

\* handleWS: a new session, in the hub, and Register.
Connect(p) ==
  /\ conn[p] = "off" /\ Allowed(connects, p)
  /\ connects' = [connects EXCEPT ![p] = @ + 1]
  /\ conn' = [conn EXCEPT ![p] = "on"]
  /\ UNCHANGED <<queues, inQueue, orders, place, picked, saga, ending, arenas, enqueues, faults,
                 misses, early>>

\* The session stops; in an arena the player leaves it (CmdLeave).  What is left in
\* the mailbox goes to dead letters.
Disconnect(p) ==
  /\ conn[p] = "on"
  /\ conn' = [conn EXCEPT ![p] = "stopped"]
  /\ orders' = [orders EXCEPT ![p] = <<>>]
  /\ place' = [place EXCEPT ![p] = Hub]
  /\ UNCHANGED <<queues, inQueue, picked, saga, ending, arenas, counters>>

Without(q, p) == IF Contains(q, p) THEN RemoveFirst(q, p) ELSE q

\* The goroutine waiting for the session: Unregister.
Unregister(p) ==
  /\ conn[p] = "stopped"
  /\ conn' = [conn EXCEPT ![p] = "off"]
  /\ IF inQueue[p] = NoMode
     THEN UNCHANGED <<queues, inQueue>>
     ELSE /\ queues' = [queues EXCEPT ![inQueue[p]] = Without(@, p)]
          /\ inQueue' = [inQueue EXCEPT ![p] = NoMode]
  /\ UNCHANGED <<orders, place, picked, saga, ending, arenas, counters>>

\* The session carries out an order nobody waits for any more.
CarryOut(p) ==
  /\ orders[p] # <<>>
  /\ place' = [place EXCEPT ![p] = Head(orders[p])]
  /\ orders' = [orders EXCEPT ![p] = Tail(@)]
  /\ UNCHANGED <<queues, inQueue, conn, picked, saga, ending, arenas, counters>>

-----------------------------------------------------------------------------
(* The queue. *)

\* The players formLocked picks.
First(q) == SubSeq(q, 1, Need)

\* Mutant: the picked players stay in the queue.
MutTaken(q) == q

\* What formLocked leaves in the queue.
Taken(q) == SubSeq(q, Need + 1, Len(q))

\* matchID: ids count up.
NextMatch == Cardinality({m \in Match : saga[m].pc # "none"}) + 1

Queued(p) == inQueue[p] # NoMode /\ Contains(queues[inQueue[p]], p)

\* Enqueue, called by a session in the hub, with formLocked under the same lock.
\* A player who is queued already is told his place.
Enqueue(p, mode) ==
  LET q == Append(queues[mode], p)
      m == NextMatch
      first == First(q)
  IN  /\ conn[p] = "on" /\ place[p] = Hub
      /\ Allowed(enqueues, p)
      /\ enqueues' = [enqueues EXCEPT ![p] = @ + 1]
      /\ \/ /\ Queued(p)
            /\ UNCHANGED <<queues, inQueue, picked, saga>>
         \/ /\ ~Queued(p)
            /\ IF Len(q) < Need
               THEN /\ queues' = [queues EXCEPT ![mode] = q]
                    /\ inQueue' = [inQueue EXCEPT ![p] = mode]
                    /\ UNCHANGED <<picked, saga>>
               ELSE /\ m \in Match
                    /\ queues' = [queues EXCEPT ![mode] = Taken(q)]
                    /\ inQueue' = [r \in Player |->
                         IF Contains(first, r) THEN NoMode
                         ELSE IF r = p THEN mode ELSE inQueue[r]]
                    /\ picked' = [picked EXCEPT ![m] = [mode |-> mode, players |-> first]]
                    /\ saga' = [saga EXCEPT ![m].pc = "provision"]
      /\ UNCHANGED <<conn, orders, place, ending, arenas, connects, faults, misses, early>>

-----------------------------------------------------------------------------
(* runSaga. *)

Fault == Spared /\ faults' = faults + 1

Provision(m) ==
  /\ saga[m].pc = "provision"
  /\ \/ /\ arenas' = arenas \cup {m}
        /\ saga' = [saga EXCEPT ![m].pc = "assign"]
        /\ UNCHANGED faults
     \/ /\ Fault
        /\ saga' = [saga EXCEPT ![m].pc = "cancel"]
        /\ UNCHANGED arenas
  /\ UNCHANGED <<queues, inQueue, conn, orders, place, picked, ending, enqueues, connects,
                 misses, early>>

\* An order of the transfer reaches the session of p behind the older ones; when its
\* ask times out it may stay there or be lost.
TimesOut(p, dest) == orders' = [orders EXCEPT ![p] = Append(@, dest)] \/ UNCHANGED orders

\* Assign the next player; if that fails, those before him are to be released.
Assign(m) ==
  LET n == saga[m].n + 1
      p == Nth(m, n)
  IN  /\ saga[m].pc = "assign"
      /\ \/ /\ conn[p] = "on" /\ orders[p] = <<>>
            /\ place' = [place EXCEPT ![p] = m]
            /\ saga' = [saga EXCEPT ![m].pc = IF n = Need THEN "done" ELSE "assign",
                                    ![m].n = n]
            /\ UNCHANGED <<faults, orders>>
         \/ /\ IF conn[p] = "on" THEN Fault /\ TimesOut(p, m) ELSE UNCHANGED <<faults, orders>>
            /\ saga' = [saga EXCEPT ![m].pc = "undo"]
            /\ UNCHANGED place
      /\ UNCHANGED <<queues, inQueue, conn, picked, ending, arenas, enqueues, connects, misses, early>>

\* gateway.Release: ToHub, whatever arena the player is in; an error (ErrBusy, a
\* session that does not answer) is only logged.
Release(p) ==
  \/ orders[p] = <<>> /\ place' = [place EXCEPT ![p] = Hub] /\ UNCHANGED <<orders, misses>>
  \/ conn[p] = "on" /\ Spared /\ misses' = misses + 1 /\ TimesOut(p, Hub) /\ UNCHANGED place

\* Mutant: when an assignment fails the arena is left running.
MutAfterUndo == "cancel"

\* The step after the players are released.
AfterUndo == "destroy"

Undo(m) ==
  /\ saga[m].pc = "undo"
  /\ IF saga[m].undone = saga[m].n
     THEN /\ saga' = [saga EXCEPT ![m].pc = AfterUndo]
          /\ UNCHANGED <<orders, place, misses>>
     ELSE /\ Release(Nth(m, saga[m].undone + 1))
          /\ saga' = [saga EXCEPT ![m].undone = @ + 1]
  /\ UNCHANGED <<queues, inQueue, conn, picked, ending, arenas, enqueues, connects, faults, early>>

SagaDestroys(m) ==
  /\ saga[m].pc = "destroy"
  /\ arenas' = arenas \ {m}
  /\ saga' = [saga EXCEPT ![m].pc = "cancel"]
  /\ UNCHANGED <<queues, inQueue, conn, orders, place, picked, ending, counters>>

\* The players go back to the head of the queue.
Restored(m) == picked[m].players \o queues[picked[m].mode]

Cancel(m) ==
  /\ saga[m].pc = "cancel"
  /\ queues' = [queues EXCEPT ![picked[m].mode] = Restored(m)]
  /\ inQueue' = [p \in Player |-> IF p \in InMatch(m) THEN picked[m].mode ELSE inQueue[p]]
  /\ saga' = [saga EXCEPT ![m].pc = "cancelled"]
  /\ UNCHANGED <<conn, orders, place, picked, ending, arenas, counters>>

-----------------------------------------------------------------------------
(* The end of a match. *)

\* The arena calls OnEnd: time is up or a side is eliminated.  The arena runs
\* from Provision on, so a player who leaves (or a hit) can end the match while
\* the saga is still assigning; and the tick that is on its way when Destroy
\* stops the arena can still end it.
End(m) ==
  /\ ending[m].pc = "none"
  /\ \/ saga[m].pc = "done" /\ m \in arenas /\ UNCHANGED early
     \/ /\ saga[m].pc \in {"assign", "undo", "destroy", "cancel", "cancelled"} /\ saga[m].n > 0
        /\ Spared /\ early' = early + 1
  /\ ending' = [ending EXCEPT ![m].pc = "release"]
  /\ UNCHANGED <<queues, inQueue, conn, orders, place, picked, saga, arenas, enqueues, connects,
                 faults, misses>>

\* Mutant: the last player is not released.
MutAfterRelease(n) == IF n >= Need - 1 THEN "destroy" ELSE "release"

\* onMatchEnd's step after n players.
AfterRelease(n) == IF n = Need THEN "destroy" ELSE "release"

\* onMatchEnd releases every player of the match, and destroys the arena.
EndReleases(m) ==
  LET n == ending[m].n + 1
  IN  /\ ending[m].pc = "release"
      /\ Release(Nth(m, n))
      /\ ending' = [ending EXCEPT ![m] = [pc |-> AfterRelease(n), n |-> n]]
      /\ UNCHANGED <<queues, inQueue, conn, picked, saga, arenas, enqueues, connects, faults, early>>

EndDestroys(m) ==
  /\ ending[m].pc = "destroy"
  /\ arenas' = arenas \ {m}
  /\ ending' = [ending EXCEPT ![m].pc = "done"]
  /\ UNCHANGED <<queues, inQueue, conn, orders, place, picked, saga, counters>>

-----------------------------------------------------------------------------

Saga(m) == Provision(m) \/ Assign(m) \/ Undo(m) \/ SagaDestroys(m) \/ Cancel(m)
Ending(m) == EndReleases(m) \/ EndDestroys(m)

Next ==
  \/ \E p \in Player : \/ Connect(p) \/ Disconnect(p) \/ Unregister(p) \/ CarryOut(p)
                       \/ \E mode \in Mode : Enqueue(p, mode)
  \/ \E m \in Match : Saga(m) \/ End(m) \/ Ending(m)

Spec == Init /\ [][Next]_vars

-----------------------------------------------------------------------------
(* Properties. *)

\* The saga is at work, or the match is on.
Active(m) ==
  /\ saga[m].pc \notin {"none", "cancelled"}
  /\ ending[m].pc # "done"

\* "The same player cannot fall into two matches" (comment of formLocked).
\* The code does not keep it: README, section 3.
OneMatch ==
  \A m, n \in Match : Active(m) /\ Active(n) /\ m # n => InMatch(m) \cap InMatch(n) = {}

\* The same of the players who queue once: a picked player is in no queue, and may
\* enter one until he is assigned.
OneMatchAtATime ==
  \A m, n \in Match :
    Active(m) /\ Active(n) /\ m # n => InMatch(m) \cap InMatch(n) \subseteq Twice(enqueues)

\* No empty arena leaks (comment of runSaga): an arena that runs has a saga or an
\* end of match that will see to it.
NoArenaLeak ==
  \A m \in arenas : saga[m].pc \in {"assign", "undo", "destroy", "done"} /\ ending[m].pc # "done"

\* Somebody will take the player of the match out of its arena, or it runs.
SeenTo(m) == m \in arenas \/ saga[m].pc = "undo" \/ ending[m].pc = "release"

\* The saga of m counts p as assigned.
Assigned(p, m) == \E i \in 1..saga[m].n : Nth(m, i) = p

\* When an assignment fails those assigned are taken back, and onMatchEnd brings the
\* players back (comments of runSaga and onMatchEnd): nobody whom the saga has
\* assigned sits in an arena that does not run and that nobody will take him out
\* of, whatever Provision and Assign fail, as long as no Release fails and no match
\* is over before its saga is.  The saga does not count the player whose own Assign
\* timed out and is carried out after all: it knows nothing of him.
NobodyStranded ==
  misses + early = 0 =>
    \A p \in Player : \A m \in Match : place[p] = m /\ Assigned(p, m) => SeenTo(m)

\* "At the end OnEnd is called once: the players return to the hub" (README of the
\* arena): once onMatchEnd is through, a player of the match who still sits in its
\* arena has an order on its way.  The match is one that its saga had finished.
\* The code does not keep it: README, section 3.
BackInHub ==
  early = 0 =>
    \A m \in Match : ending[m].pc = "done" =>
      \A p \in InMatch(m) : place[p] = m => orders[p] # <<>>
=============================================================================
