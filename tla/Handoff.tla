------------------------------ MODULE Handoff -------------------------------
(***************************************************************************)
(* services/handoff over pkg/dlock, and the side of it that services/      *)
(* gateway implements: the session actor that checks fencing tokens and    *)
(* the registry g.sessions through which it is found.  One player: those   *)
(* of different players share nothing.                                     *)
(*                                                                         *)
(* A transfer is one ToArena or ToHub, run by whichever goroutine of the   *)
(* saga called it; Owner is its unique lock owner.  A session is one       *)
(* WebSocket connection, numbered in the order of connection.              *)
(***************************************************************************)
EXTENDS DLock

CONSTANTS MaxSessions,  \* bound on connections of the player
          MaxLate       \* bound on asks that time out with the order still queued

ASSUME HandoffAssumption == MaxSessions \in Nat /\ MaxLate \in Nat

VARIABLES tr,        \* transfers
          ws,        \* ws[e]: the goroutines of handleWS for connection e
          reg,       \* g.sessions[player]: a connection, or 0
          session,   \* the actor of the live connection: token, arena
          mailbox,   \* orders queued at the live session
          reply,     \* answers of sessions to transfers
          audit,     \* stream handoff-<player>: the events that say where he is now
          late       \* transfers whose ask timed out with the order still queued

sessVars == <<ws, reg, session, mailbox, reply>>
handoffVars == <<lockVars, tr, sessVars, audit, late>>

InHub == "hub"
Session == 1..MaxSessions
Fresh == [token |-> 0, place |-> InHub]

\* Type invariant.  place is InHub, or the transfer that led to an arena.
HandoffTypeOK ==
  /\ LockTypeOK
  /\ tr \in [Owner -> [pc : {"new", "acquire", "lookup", "ask", "audit", "release",
                             "releasing", "ok", "failed"},
                       dest : {"arena", InHub}, token : Nat, ref : 0..MaxSessions,
                       failed : BOOLEAN]]
  /\ ws \in [Session -> {"none", "spawned", "lost", "open", "stopped", "cleaned"}]
  /\ reg \in 0..MaxSessions
  /\ session \in [token : Nat, place : {InHub} \cup Owner]
  /\ mailbox \in Seq(Owner)
  /\ reply \in [Owner -> {"none", "ok", "stale"}]
  /\ audit \in Seq([by : Owner, token : Nat, ref : Session])
  /\ late \subseteq Owner /\ Cardinality(late) <= MaxLate

HandoffInit ==
  /\ LockInit
  /\ tr = [o \in Owner |-> [pc |-> "new", dest |-> InHub, token |-> 0, ref |-> 0,
                         failed |-> FALSE]]
  /\ ws = [e \in Session |-> "none"]
  /\ reg = 0 /\ session = Fresh /\ mailbox = <<>>
  /\ reply = [o \in Owner |-> "none"]
  /\ audit = <<>> /\ late = {}

\* The connection whose actor runs, or 0.
Connected ==
  IF \E e \in Session : ws[e] \in {"spawned", "open"}
  THEN CHOOSE e \in Session : ws[e] \in {"spawned", "open"} ELSE 0

\* Where the order of transfer o takes the player.
Where(o) == IF tr[o].dest = InHub THEN InHub ELSE o

-----------------------------------------------------------------------------
(* handleWS. *)

\* System.Spawn; the name session-<player> is free.
Spawn(e) ==
  /\ ws[e] = "none" /\ Connected = 0
  /\ \A d \in Session : d < e => ws[d] # "none"
  /\ ws' = [ws EXCEPT ![e] = "spawned"]
  /\ session' = Fresh /\ mailbox' = <<>>
  /\ UNCHANGED <<lockVars, tr, reg, reply, audit, late>>

\* g.sessions[player] = ref, of an actor that may have stopped by then.
Register(e) ==
  /\ ws[e] \in {"spawned", "lost"}
  /\ ws' = [ws EXCEPT ![e] = IF @ = "spawned" THEN "open" ELSE "stopped"]
  /\ reg' = e
  /\ UNCHANGED <<lockVars, tr, session, mailbox, reply, audit, late>>

\* The connection breaks: the actor stops, its mailbox goes to dead letters.
HangUp(e) ==
  /\ ws[e] \in {"spawned", "open"}
  /\ ws' = [ws EXCEPT ![e] = IF @ = "open" THEN "stopped" ELSE "lost"]
  /\ session' = Fresh /\ mailbox' = <<>>
  /\ UNCHANGED <<lockVars, tr, reg, reply, audit, late>>

\* The goroutine that waits for ref.Stopped().
Cleanup(e) ==
  /\ ws[e] = "stopped"
  /\ ws' = [ws EXCEPT ![e] = "cleaned"] /\ reg' = 0
  /\ UNCHANGED <<lockVars, tr, session, mailbox, reply, audit, late>>

\* Mutant: an order with an older token is carried out too.
MutStale(token) == FALSE

\* The fencing test of onEnterArena and onEnterHub.
Stale(token) == token < session.token

\* The answer goes to the transfer, if that still waits for it.
Reply(o, answer) ==
  reply' = IF tr[o].pc = "ask" THEN [reply EXCEPT ![o] = answer] ELSE reply

\* The session handles the order at the head of its mailbox.
Handle ==
  /\ Connected # 0 /\ mailbox # <<>>
  /\ LET o == Head(mailbox)
         token == tr[o].token
     IN  \/ /\ Stale(token)
            /\ Reply(o, "stale")
            /\ UNCHANGED session
         \/ /\ ~Stale(token)
            /\ session' = [token |-> token, place |-> Where(o)]
            /\ Reply(o, "ok")
  /\ mailbox' = Tail(mailbox)
  /\ UNCHANGED <<lockVars, tr, ws, reg, audit, late>>

-----------------------------------------------------------------------------
(* ToArena and ToHub. *)

\* acquire proposes; the owner is new with every transfer.
Start(o, dest) ==
  /\ tr[o].pc = "new"
  /\ Propose(o, "acquire")
  /\ tr' = [tr EXCEPT ![o].pc = "acquire", ![o].dest = dest]
  /\ UNCHANGED <<sessVars, audit, late>>

\* acquire returns a token, or ErrBusy.
Acquired(o) ==
  /\ tr[o].pc = "acquire"
  /\ Returns(o)
  /\ LET token == client'[o].grant.token
     IN  tr' = [tr EXCEPT ![o].pc = IF token > 0 THEN "lookup" ELSE "failed",
                          ![o].token = token]
  /\ UNCHANGED <<sessVars, audit, late>>

AcquireFails(o) ==
  /\ tr[o].pc = "acquire"
  /\ GiveUp(o)
  /\ tr' = [tr EXCEPT ![o].pc = "failed"]
  /\ UNCHANGED <<sessVars, audit, late>>

\* A step of the transfer failed, and the lock is released.
Fail(o) ==
  /\ tr' = [tr EXCEPT ![o].pc = "release", ![o].ref = 0, ![o].failed = TRUE]
  /\ reply' = [reply EXCEPT ![o] = "none"]

\* EnterArena and EnterHub find the session and send the order: a stopped
\* session loses it, a full mailbox (DropNewest) drops it.
Lookup(o) ==
  /\ tr[o].pc = "lookup"
  /\ \/ reg = 0 /\ Fail(o) /\ UNCHANGED mailbox
     \/ /\ reg # 0
        /\ tr' = [tr EXCEPT ![o].pc = "ask", ![o].ref = reg] /\ UNCHANGED reply
        /\ \/ reg = Connected /\ mailbox' = Append(mailbox, o)
           \/ UNCHANGED mailbox
  /\ UNCHANGED <<lockVars, ws, reg, session, audit, late>>

\* ask returns with the answer.
Answered(o) ==
  /\ tr[o].pc = "ask" /\ reply[o] # "none"
  /\ \/ /\ reply[o] = "ok"
        /\ tr' = [tr EXCEPT ![o].pc = "audit"]
        /\ reply' = [reply EXCEPT ![o] = "none"]
     \/ reply[o] = "stale" /\ Fail(o)
  /\ UNCHANGED <<lockVars, ws, reg, session, mailbox, audit, late>>

\* ask returns because the session has stopped (select takes either branch
\* when both are ready) or because no answer can come: the order was dropped.
Unanswered(o) ==
  /\ tr[o].pc = "ask"
  /\ tr[o].ref # Connected \/ (reply[o] = "none" /\ ~Contains(mailbox, o))
  /\ Fail(o)
  /\ UNCHANGED <<lockVars, ws, reg, session, mailbox, audit, late>>

\* ask times out, and the order is still in the mailbox of a busy session.
TimesOut(o) ==
  /\ tr[o].pc = "ask" /\ reply[o] = "none"
  /\ tr[o].ref = Connected /\ Contains(mailbox, o)
  /\ Cardinality(late) < MaxLate /\ late' = late \cup {o}
  /\ Fail(o)
  /\ UNCHANGED <<lockVars, ws, reg, session, mailbox, audit>>

\* The audit event of a transfer that went through.  An Append that fails is only
\* logged.  (The event before it, of the place he has left, tells nothing more.)
Audit(o) ==
  /\ tr[o].pc = "audit"
  /\ \/ audit' = Append(audit, [by |-> o, token |-> tr[o].token, ref |-> tr[o].ref])
     \/ UNCHANGED audit
  /\ tr' = [tr EXCEPT ![o].pc = "release", ![o].ref = 0]
  /\ UNCHANGED <<lockVars, sessVars, late>>

\* The deferred release; its error is not looked at.
ReleaseLock(o) ==
  /\ tr[o].pc = "release"
  /\ Propose(o, "release")
  /\ tr' = [tr EXCEPT ![o].pc = "releasing"]
  /\ UNCHANGED <<sessVars, audit, late>>

Released(o) ==
  /\ tr[o].pc = "releasing"
  /\ Returns(o) \/ GiveUp(o)
  /\ tr' = [tr EXCEPT ![o].pc = IF tr[o].failed THEN "failed" ELSE "ok"]
  /\ UNCHANGED <<sessVars, audit, late>>

-----------------------------------------------------------------------------

Transfer(o) ==
  \/ \E dest \in {"arena", InHub} : Start(o, dest)
  \/ Acquired(o) \/ AcquireFails(o) \/ Lookup(o) \/ Answered(o) \/ Unanswered(o)
  \/ TimesOut(o) \/ Audit(o) \/ ReleaseLock(o) \/ Released(o)

HandoffNext ==
  \/ \E o \in Owner : Transfer(o)
  \/ \E e \in Session : Spawn(e) \/ Register(e) \/ HangUp(e) \/ Cleanup(e)
  \/ Handle
  \/ /\ Tick \/ \E i \in 1..Len(cmds) : Commit(i)
     /\ UNCHANGED <<tr, sessVars, audit, late>>

HandoffSpec == HandoffInit /\ [][HandoffNext]_handoffVars

-----------------------------------------------------------------------------
(* Properties. *)

\* Went through, and could not be written down.
Untold == {o \in Owner : tr[o].pc = "ok" /\ \A i \in 1..Len(audit) : audit[i].by # o}

\* handoff-<player> is the trail of the transfers of the player.  Delayed transfers and
\* expired leases may write it in any order, events may be missing and orders be
\* carried out after their ask has timed out: it may be behind, but is never wrong.
\* Once no transfer is under way, the event with the largest token about the session
\* names its place, or a transfer with a token as large has led there, late or unwritten.
AuditTellsPlace ==
  LET here == {i \in 1..Len(audit) : audit[i].ref = Connected}
      NoneAbove(token) == \A i \in here : audit[i].token <= token
  IN  Connected # 0 /\ (\A o \in Owner : tr[o].pc \in {"new", "ok", "failed"}) =>
        \/ here = {} /\ session.place = InHub
        \/ \E i \in here : NoneAbove(audit[i].token) /\ session.place = Where(audit[i].by)
        \/ \E o \in late \cup Untold : NoneAbove(tr[o].token) /\ session.place = Where(o)

\* "The session refused the order: nothing was moved" (comment of ToArena): a transfer
\* that failed has led nobody into its arena.
\* The code does not keep it: README, section 3.
FailedMovesNobody == \A o \in Owner : tr[o].failed => session.place # o
=============================================================================
