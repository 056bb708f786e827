----------------------------- MODULE Resilience ------------------------------
(***************************************************************************)
(* pkg/resilience: Guard.Do, a bulkhead around a circuit breaker, under    *)
(* concurrent calls.  The breaker's methods run under its mutex: one step  *)
(* each.  Time is one bit: whether OpenDuration has passed since the trip. *)
(***************************************************************************)
EXTENDS Integers, FiniteSets

CONSTANTS Call,              \* goroutines that call Do, again and again
          Limit,             \* of the bulkhead
          FailureThreshold, HalfOpenMax, HalfOpenSuccesses,
          MaxErrors,         \* bound on calls that fail
          MaxPanics          \* bound on calls that panic

ASSUME ResilienceAssumption ==
  /\ IsFiniteSet(Call)
  /\ \A n \in {Limit, FailureThreshold, HalfOpenMax, HalfOpenSuccesses} : n \in Nat \ {0}
  /\ MaxErrors \in Nat /\ MaxPanics \in Nat

VARIABLES state, failures, halfOpenBusy, halfOpenOK,
          cooled,        \* OpenDuration has passed since openedAt
          doing,            \* doing[c]: where c is in Guard.Do
          errors, panics

breaker == <<state, failures, halfOpenBusy, halfOpenOK, cooled>>
guardVars == <<state, failures, halfOpenBusy, halfOpenOK, cooled, doing, errors, panics>>

\* Type invariant.
GuardTypeOK ==
  /\ state \in {"Closed", "Open", "HalfOpen"}
  /\ failures \in 0..(FailureThreshold - 1)
  /\ halfOpenBusy \in Int
  /\ halfOpenOK \in 0..(HalfOpenSuccesses - 1)
  /\ cooled \in BOOLEAN
  /\ doing \in [Call -> {"idle", "slot", "running", "leaving"}]
  /\ errors \in 0..MaxErrors /\ panics \in 0..MaxPanics

GuardInit ==
  /\ state = "Closed" /\ failures = 0 /\ halfOpenBusy = 0 /\ halfOpenOK = 0
  /\ cooled = FALSE
  /\ doing = [c \in Call |-> "idle"]
  /\ errors = 0 /\ panics = 0

Moves(c, from, to) == doing[c] = from /\ doing' = [doing EXCEPT ![c] = to]

Running == {c \in Call : doing[c] = "running"}

-----------------------------------------------------------------------------
(* The bulkhead. *)

\* The channel sem has room.
HasSlot == Cardinality({c \in Call : doing[c] # "idle"}) < Limit

\* Bulkhead.Do; a call that gets no slot (ErrFull) changes nothing.
Enter(c) ==
  /\ HasSlot
  /\ Moves(c, "idle", "slot")
  /\ UNCHANGED <<breaker, errors, panics>>

Leave(c) ==
  /\ Moves(c, "leaving", "idle")
  /\ UNCHANGED <<breaker, errors, panics>>

-----------------------------------------------------------------------------
(* The breaker. *)

\* OpenDuration passes.
Cool ==
  /\ state = "Open" /\ ~cooled
  /\ cooled' = TRUE
  /\ UNCHANGED <<state, failures, halfOpenBusy, halfOpenOK, doing, errors, panics>>

\* maybeHalfOpenLocked would move on.
Due == state = "Open" /\ cooled

\* A new half-open period: the probes of the one before are not its own.
HalfOpens ==
  /\ state' = "HalfOpen" /\ halfOpenOK' = 0
  /\ UNCHANGED <<failures, cooled>>

\* There is room for a probe.
MayProbe(busy) == busy < HalfOpenMax

\* acquire.
Acquire(c) ==
  /\ doing[c] = "slot"
  /\ \/ /\ state = "Closed"
        /\ Moves(c, "slot", "running")
        /\ UNCHANGED breaker
     \/ /\ state = "Open" /\ ~cooled
        /\ Moves(c, "slot", "leaving")
        /\ UNCHANGED breaker
     \/ /\ Due
        /\ HalfOpens /\ halfOpenBusy' = 1
        /\ Moves(c, "slot", "running")
     \/ /\ state = "HalfOpen" /\ MayProbe(halfOpenBusy)
        /\ halfOpenBusy' = halfOpenBusy + 1
        /\ Moves(c, "slot", "running")
        /\ UNCHANGED <<state, failures, halfOpenOK, cooled>>
     \/ /\ state = "HalfOpen" /\ ~MayProbe(halfOpenBusy)
        /\ Moves(c, "slot", "leaving")
        /\ UNCHANGED breaker
  /\ UNCHANGED <<errors, panics>>

\* State, which moves on as well.
Observe ==
  /\ Due
  /\ HalfOpens /\ halfOpenBusy' = 0
  /\ UNCHANGED <<doing, errors, panics>>

Trip ==
  /\ state' = "Open" /\ cooled' = FALSE
  /\ failures' = 0 /\ halfOpenBusy' = 0 /\ halfOpenOK' = 0

\* Mutant: a probe does not give its place back.
MutReturned == halfOpenBusy

\* halfOpenBusy after a report.
Returned == halfOpenBusy - 1

\* halfOpenOK once the breaker has closed.
OKAfterClose == 0

\* fn returns nil, and report.
Succeeds(c) ==
  /\ Moves(c, "running", "leaving")
  /\ \/ /\ state = "HalfOpen"
        /\ halfOpenBusy' = Returned
        /\ IF halfOpenOK + 1 >= HalfOpenSuccesses
           THEN state' = "Closed" /\ failures' = 0 /\ halfOpenOK' = OKAfterClose
           ELSE halfOpenOK' = halfOpenOK + 1 /\ UNCHANGED <<state, failures>>
        /\ UNCHANGED cooled
     \/ /\ state = "Closed"
        /\ failures' = 0
        /\ UNCHANGED <<state, halfOpenBusy, halfOpenOK, cooled>>
     \/ /\ state = "Open"
        /\ UNCHANGED breaker
  /\ UNCHANGED <<errors, panics>>

\* fn returns an error, and report.
Fails(c) ==
  /\ errors < MaxErrors /\ errors' = errors + 1
  /\ Moves(c, "running", "leaving")
  /\ \/ /\ state = "HalfOpen"
        /\ Trip
     \/ /\ state = "Closed" /\ failures + 1 >= FailureThreshold
        /\ Trip
     \/ /\ state = "Closed" /\ failures + 1 < FailureThreshold
        /\ failures' = failures + 1
        /\ UNCHANGED <<state, halfOpenBusy, halfOpenOK, cooled>>
     \/ /\ state = "Open"
        /\ UNCHANGED breaker
  /\ UNCHANGED panics

\* fn panics: the bulkhead's deferred function gives the slot back, report is skipped.
Panics(c) ==
  /\ panics < MaxPanics /\ panics' = panics + 1
  /\ Moves(c, "running", "leaving")
  /\ UNCHANGED <<breaker, errors>>

-----------------------------------------------------------------------------

Steps(c) == Enter(c) \/ Leave(c) \/ Acquire(c) \/ Succeeds(c) \/ Fails(c) \/ Panics(c)

GuardNext == Cool \/ Observe \/ \E c \in Call : Steps(c)

GuardSpec == GuardInit /\ [][GuardNext]_guardVars

-----------------------------------------------------------------------------
(* Properties. *)

\* Once the dependency works the breaker closes, and stays closed, unless a probe
\* has panicked.
Recovers == <>[](state = "Closed" \/ panics > 0)
=============================================================================
