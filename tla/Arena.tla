------------------------------- MODULE Arena --------------------------------
(***************************************************************************)
(* The process of an arena Pod: services/arena (the match and its tick     *)
(* goroutine, and the Play handler of every player's stream) and           *)
(* cmd/arena/main.go, which waits for the result and stops the server.     *)
(*                                                                         *)
(* Positions and aims are floating point: whether a projectile flies on,   *)
(* leaves the field or hits is a choice, and CmdMove changes nothing here. *)
(* Health counts the hits a player can take.  A tick drains the queue,     *)
(* simulates and copies the sinks in one step (nobody else touches that    *)
(* state); the deliveries that follow are steps of their own.  The queue   *)
(* is RingBuf.tla's.                                                       *)
(***************************************************************************)
EXTENDS Integers, Sequences, FiniteSets, FiniteSetsExt, SequencesExt, Functions

CONSTANTS Player,
          Team,          \* PlayerSpec.Team: 0 or 1
          MaxHealth,     \* hits a player can take
          FireCooldown,  \* FireCooldownTick
          MatchTicks,
          InputCapacity,      \* inputCapacity
          MaxDrain,      \* maxDrainPerTick
          MaxCommands    \* bound on commands the players send

ASSUME ArenaAssumption ==
  /\ IsFiniteSet(Player) /\ Team \in [Player -> {0, 1}]
  /\ \A n \in {MaxHealth, FireCooldown, MatchTicks, InputCapacity, MaxDrain} : n \in Nat \ {0}
  /\ MaxCommands \in Nat

VARIABLES inputs,     \* the queue; at is the tick of a command's Push
          health, cooldown,
          shots,      \* shots[p]: projectiles of p in the air
          tick,
          winner,     \* of the last snapshot: a team, Draw, or Undecided
          result,     \* a.result is set: the winner, and what the match froze as
          loop,       \* the tick goroutine
          pending,    \* the sinks publishWith has still to deliver to
          sinks,      \* the players with a sink
          stream,     \* stream[p]: the Play handler of p
          main,
          sent

match == <<health, cooldown, shots, tick, winner, result>>
arenaVars == <<inputs, match, loop, pending, sinks, stream, main, sent>>

Kind == {"move", "fire", "leave"}
Draw == -1
Undecided == -2

\* Type invariant.
ArenaTypeOK ==
  /\ inputs \in Seq([player : Player, kind : Kind, at : Nat]) /\ Len(inputs) <= InputCapacity
  /\ health \in [Player -> 0..MaxHealth] /\ cooldown \in [Player -> 0..FireCooldown]
  /\ shots \in [Player -> Nat]
  /\ tick \in 0..MatchTicks
  /\ winner \in {0, 1, Draw, Undecided} /\ result \in BOOLEAN
  /\ loop \in {"ticking", "delivering", "stopped"}
  /\ pending \subseteq Player /\ sinks \subseteq Player
  /\ stream \in [Player -> {"none", "open", "leaving", "unsunk", "closed"}]
  /\ main \in {"waiting", "stopping", "exited", "panicked"}
  /\ sent \in 0..MaxCommands

\* New, Run, and a server that accepts streams.
ArenaInit ==
  /\ inputs = <<>>
  /\ health = [p \in Player |-> MaxHealth] /\ cooldown = [p \in Player |-> 0]
  /\ shots = [p \in Player |-> 0]
  /\ tick = 0 /\ winner = Undecided /\ result = FALSE
  /\ loop = "ticking" /\ pending = {} /\ sinks = {}
  /\ stream = [p \in Player |-> "none"]
  /\ main = "waiting" /\ sent = 0

\* The process is there.
Up == main \in {"waiting", "stopping"}

-----------------------------------------------------------------------------
(* The streams. *)

\* Push: a full queue drops the command.
PushInput(p, kind) ==
  inputs' = IF Len(inputs) < InputCapacity
            THEN Append(inputs, [player |-> p, kind |-> kind, at |-> tick])
            ELSE inputs

\* Play, up to SetSink.  GracefulStop lets no stream in.
Join(p) ==
  /\ main = "waiting" /\ stream[p] = "none"
  /\ stream' = [stream EXCEPT ![p] = "open"]
  /\ sinks' = sinks \cup {p}
  /\ UNCHANGED <<inputs, match, loop, pending, main, sent>>

\* The reader takes a command from the stream, of any kind the client sends.
Command(p, kind) ==
  /\ Up /\ stream[p] = "open" /\ sent < MaxCommands
  /\ sent' = sent + 1
  /\ PushInput(p, kind)
  /\ UNCHANGED <<match, loop, pending, sinks, stream, main>>

\* The stream ends.  If the reader learns that from the writer's sendErr, and not
\* from Recv, it returns without CmdLeave.
HangUp(p) ==
  /\ Up /\ stream[p] = "open"
  /\ stream' = [stream EXCEPT ![p] = "leaving"]
  /\ PushInput(p, "leave") \/ UNCHANGED inputs
  /\ UNCHANGED <<match, loop, pending, sinks, main, sent>>

\* The deferred function of Play: SetSink(p, nil), and sink.close.
Unsink(p) ==
  /\ Up /\ stream[p] = "leaving"
  /\ stream' = [stream EXCEPT ![p] = "unsunk"]
  /\ sinks' = sinks \ {p}
  /\ UNCHANGED <<inputs, match, loop, pending, main, sent>>

CloseSink(p) ==
  /\ Up /\ stream[p] = "unsunk"
  /\ stream' = [stream EXCEPT ![p] = "closed"]
  /\ UNCHANGED <<inputs, match, loop, pending, sinks, main, sent>>

-----------------------------------------------------------------------------
(* The tick goroutine. *)

\* Mutant: the drain stops one command early.
MutDrained == SubSeq(inputs, 1, Min({MaxDrain - 1, Len(inputs)}))

\* The commands drainInputs takes in one tick.
Drained == SubSeq(inputs, 1, Min({MaxDrain, Len(inputs)}))

\* drainInputs, one command: s is health, cooldown and shots.  A shot without an aim
\* does nothing, as "move".
Obey(s, c) ==
  LET p == c.player
  IN  CASE c.kind = "fire" /\ s.health[p] > 0 /\ s.cooldown[p] = 0 ->
             [s EXCEPT !.cooldown[p] = FireCooldown, !.shots[p] = @ + 1]
        [] c.kind = "leave" -> [s EXCEPT !.health[p] = 0]
        [] OTHER -> s

\* What becomes of one projectile of each player: it flies on, leaves the field, or
\* hits.
Fate == Player \cup {"flies", "out"}

\* A projectile of p passes t's team over, if it is his own.
Foe(p, t) == Team[p] # Team[t]

HitsOn(fate, t) == Cardinality({p \in Player : fate[p] = t})

\* The projectiles can meet these fates; nobody is hit when he is dead.
Possible(s, fate) ==
  \A p \in Player :
    /\ fate[p] # "flies" => s.shots[p] > 0
    /\ fate[p] \in Player => Foe(p, fate[p])
    /\ HitsOn(fate, p) <= s.health[p]

\* checkEnd's test of the clock, in the tick that ends as the t-th.
TimeUp(t) == t >= MatchTicks

TeamOf(t) == {p \in Player : Team[p] = t}

\* checkEnd.
checkEnd(h, t) ==
  LET alive(x) == \E p \in TeamOf(x) : h[p] > 0
      total(x) == FoldFunctionOnSet(+, 0, h, TeamOf(x))
  IN  CASE ~alive(0) /\ ~alive(1) -> Draw
        [] ~alive(0) -> 1
        [] ~alive(1) -> 0
        [] OTHER -> CASE ~TimeUp(t) -> Undecided
                      [] total(0) > total(1) -> 0
                      [] total(1) > total(0) -> 1
                      [] OTHER -> Draw

\* Tick, up to the copy of the sinks in publishWith.
Tick(fate) ==
  LET s == FoldLeft(Obey, [health |-> health, cooldown |-> cooldown, shots |-> shots], Drained)
      hurt == [p \in Player |-> Max({0, s.health[p] - HitsOn(fate, p)})]
  IN  /\ Up /\ loop = "ticking" /\ Possible(s, fate)
      /\ inputs' = SubSeq(inputs, Len(Drained) + 1, Len(inputs))
      /\ health' = hurt
      /\ cooldown' = [p \in Player |-> Max({0, s.cooldown[p] - 1})]
      /\ shots' = [p \in Player |-> IF fate[p] = "flies" THEN s.shots[p] ELSE s.shots[p] - 1]
      /\ tick' = tick + 1
      /\ winner' = checkEnd(hurt, tick + 1)
      /\ pending' = sinks
      /\ loop' = "delivering"
      /\ UNCHANGED <<result, sinks, stream, main, sent>>

\* publishWith delivers outside the lock: a frame is sent, or dropped if the
\* stream's buffer is full; a send on a closed channel panics.
Deliver(p) ==
  /\ Up /\ loop = "delivering" /\ p \in pending
  /\ pending' = pending \ {p}
  /\ main' = IF stream[p] = "closed" THEN "panicked" ELSE main
  /\ UNCHANGED <<inputs, match, loop, sinks, stream, sent>>

\* Mutant: finish takes a draw for no result.
MutDecided == winner \in {0, 1}

\* finish is called, and sets the result.
Decided == winner # Undecided

\* The rest of Tick: finish, or the next turn of Run.
Published ==
  /\ Up /\ loop = "delivering" /\ pending = {}
  /\ loop' = IF winner = Undecided THEN "ticking" ELSE "stopped"
  /\ result' = Decided
  /\ UNCHANGED <<inputs, health, cooldown, shots, tick, winner, pending, sinks, stream, main,
                 sent>>

-----------------------------------------------------------------------------
(* main. *)

\* The result is there: GracefulStop.
GracefulStop ==
  /\ main = "waiting" /\ result
  /\ main' = "stopping"
  /\ UNCHANGED <<inputs, match, loop, pending, sinks, stream, sent>>

\* GracefulStop returns when every stream is over, and the process exits.
Exit ==
  /\ main = "stopping" /\ \A p \in Player : stream[p] \in {"none", "closed"}
  /\ main' = "exited"
  /\ UNCHANGED <<inputs, match, loop, pending, sinks, stream, sent>>

-----------------------------------------------------------------------------

Loop == Published \/ (\E fate \in [Player -> Fate] : Tick(fate)) \/ \E p \in Player : Deliver(p)
Handler(p) == Unsink(p) \/ CloseSink(p)
Main == GracefulStop \/ Exit

ArenaNext ==
  \/ Loop \/ Main
  \/ \E p \in Player : \/ Handler(p) \/ Join(p) \/ HangUp(p)
                       \/ \E kind \in Kind : Command(p, kind)

ArenaSpec == ArenaInit /\ [][ArenaNext]_arenaVars

-----------------------------------------------------------------------------
(* Properties. *)

\* Ticks that empty a full queue.
DrainTicks == (InputCapacity + MaxDrain - 1) \div MaxDrain

\* One flooding client cannot hold up the others (comments of inputCapacity and
\* maxDrainPerTick): a command that got into the queue is obeyed within DrainTicks
\* ticks, whatever the players send.
Prompt == \A i \in DOMAIN inputs : tick - inputs[i].at < DrainTicks

\* The match ends and the process with it (package comment of cmd/arena), unless
\* it panics, or a client keeps its stream open after the end.
EndsUnlessHeld ==
  \/ <>(main \in {"exited", "panicked"})
  \/ <>[](result /\ \E p \in Player : stream[p] = "open")

\* "The client has closed: count the player as gone" (comment of Play), and the
\* match goes on: the process does not die of it.
SurvivesHangUp == main # "panicked"
=============================================================================
