------------------------------- MODULE DLock --------------------------------
(***************************************************************************)
(* pkg/dlock: one lock of the lease table that every replica derives from  *)
(* the raft log.  The log itself is Raft.tla's: commands are applied in    *)
(* one order, and one that is passed over by a later one is lost.  A       *)
(* replica has applied some prefix of what is committed, so an answer is   *)
(* read from a table that may be behind (table[i] is the lock after entry  *)
(* i).                                                                     *)
(*                                                                         *)
(* Time is what time.Now() returns to every caller: the callers are in one *)
(* process.                                                                *)
(***************************************************************************)
EXTENDS Integers, Sequences, FiniteSets, SequencesExt

CONSTANTS Owner,
          TTL,        \* length of a lease, in ticks
          Free,       \* no entry for the key
          MaxTime,    \* bound on the clock
          MaxIndex    \* bound on the raft log

ASSUME DLockAssumption ==
  IsFiniteSet(Owner) /\ TTL \in Nat \ {0} /\ MaxTime \in Nat /\ MaxIndex \in Nat

VARIABLES now,
          cmds,     \* proposed and not yet applied, in the order of proposal
          table,    \* table[i]: the lock after i entries of the log
          client    \* what each owner is doing and what it has been granted

lockVars == <<now, cmds, table, client>>

\* Renew has no caller in the program.
Op == {"acquire", "release"}
Entry == [owner : Owner, expires : Nat, token : Nat]
Command == [op : Op, owner : Owner, now : Nat]
NoGrant == [token |-> 0, expires |-> 0]

\* at is the entry of the log a waiting call waits for: 0 while its command
\* is neither applied nor lost.  Type invariant.
LockTypeOK ==
  /\ now \in Nat
  /\ cmds \in Seq(Command)
  /\ table \in Seq({Free} \cup Entry)
  /\ client \in [Owner -> [call : Op \cup {"none"}, at : 0..Len(table),
                           grant : [token : Nat, expires : Nat]]]

LockInit ==
  /\ now = 0 /\ cmds = <<>> /\ table = <<>>
  /\ client = [o \in Owner |-> [call |-> "none", at |-> 0, grant |-> NoGrant]]

Lock == IF table = <<>> THEN Free ELSE Last(table)

Lease(c) == c.now + TTL

\* Mutant: an acquire never looks at the lease of the holder.
MutApply(lock, c, index) ==
  LET mine == lock # Free /\ lock.owner = c.owner
  IN  CASE c.op = "acquire" -> [owner |-> c.owner, expires |-> Lease(c), token |-> index]
        [] c.op = "release" /\ mine -> Free
        [] OTHER -> lock

\* replica.apply.
apply(lock, c, index) ==
  LET held == lock # Free
      expired == held /\ c.now >= lock.expires
      mine == held /\ lock.owner = c.owner
  IN  CASE c.op = "acquire" /\ (~held \/ expired \/ mine) ->
             [owner |-> c.owner, expires |-> Lease(c), token |-> index]
        [] c.op = "release" /\ mine -> Free
        [] OTHER -> lock

\* propose: the command is stamped and in the leader's log.  A caller makes
\* one call at a time; Release gives the grant up whatever becomes of it.
Propose(o, op) ==
  /\ client[o].call = "none"
  /\ Len(table) + Len(cmds) < MaxIndex
  /\ cmds' = Append(cmds, [op |-> op, owner |-> o, now |-> now])
  /\ client' = [client EXCEPT ![o].call = op, ![o].at = 0,
                  ![o].grant = IF op = "release" THEN NoGrant ELSE @]
  /\ UNCHANGED <<now, table>>

\* The i-th pending command is committed; those before it were in the log of
\* a leader that has lost its place.
Commit(i) ==
  LET c == cmds[i]
      index == Len(table) + 1
      settled == {cmds[j].owner : j \in 1..i}
  IN  /\ table' = Append(table, apply(Lock, c, index))
      /\ cmds' = SubSeq(cmds, i + 1, Len(cmds))
      /\ client' = [o \in Owner |->
           IF o \in settled /\ client[o].call # "none" /\ client[o].at = 0
              /\ \A j \in i+1..Len(cmds) : cmds[j].owner # o
           THEN [client[o] EXCEPT !.at = index] ELSE client[o]]
      /\ UNCHANGED now

\* The test at the end of Acquire.
Granted(o, lock) == lock # Free /\ lock.owner = o /\ now < lock.expires

\* waitApplied is over: the call reads the replica it proposed to.  An owner
\* that is refused keeps what it was granted before.
Returns(o) ==
  LET cl == client[o]
  IN  /\ cl.call # "none" /\ cl.at > 0
      /\ \E i \in cl.at..Len(table) :
           client' = [client EXCEPT ![o] =
             [call |-> "none", at |-> 0,
              grant |-> IF cl.call # "release" /\ Granted(o, table[i])
                        THEN [token |-> table[i].token, expires |-> table[i].expires]
                        ELSE cl.grant]]
      /\ UNCHANGED <<now, cmds, table>>

\* ErrTimeout; the command stays where it is.
GiveUp(o) ==
  /\ client[o].call # "none"
  /\ client' = [client EXCEPT ![o].call = "none", ![o].at = 0]
  /\ UNCHANGED <<now, cmds, table>>

Tick == now < MaxTime /\ now' = now + 1 /\ UNCHANGED <<cmds, table, client>>

-----------------------------------------------------------------------------
(* Properties. *)

\* The owner has been told that it holds the lock, and its lease is not over.
Believes(o) == now < client[o].grant.expires

\* Fencing and exclusion: an owner whose lease runs carries a token larger than
\* that of every other owner, so two never believe in their lease at once,
\* whatever is delayed, lost, or read from a replica that is behind.
NewestHolder ==
  \A o, p \in Owner :
    o # p /\ Believes(o) => client[p].grant.token < client[o].grant.token
=============================================================================
