------------------------------- MODULE RingBuf -------------------------------
(***************************************************************************)
(* pkg/ringbuf: the lock-free queue of many producers and one consumer,    *)
(* one step per access to shared memory.  sync/atomic is sequentially      *)
(* consistent; slot.val is plain memory, so that two goroutines at it at   *)
(* the same time are a data race (NoRace).  The counters are uint64 and    *)
(* start from 0: MaxPush keeps them far from 2^63.                         *)
(***************************************************************************)
EXTENDS Integers, Sequences, FiniteSets, FiniteSetsExt

CONSTANTS Producer,
          Capacity,   \* the argument of New
          Zero,       \* the zero value of T
          MaxPush     \* bound on the pushes of a producer

ASSUME RingBufAssumption ==
  /\ Capacity \in Nat \ {0} /\ MaxPush \in Nat
  /\ IsFiniteSet(Producer)

\* New: the next power of two, at least 2.
Cap == Min({n \in {2^k : k \in 1..Capacity} : n >= Capacity})

\* There are at least two slots: a published slot is never free for the producer
\* at the next position.  (Stated, since TLAPS has no theory of exponentiation.)
ASSUME CapAssumption == Cap \in Nat /\ Cap >= 2

\* The n-th value that p pushes.
Value == Producer \X (1..MaxPush)

VARIABLES seq, val,   \* slots[i].seq and slots[i].val
          enq, deq,
          prod,       \* prod[p]: where p is in TryPush, and its pos
          cons,       \* where the consumer is in TryPop, and its v
          pushes,     \* pushes[p]: the calls of TryPush by p
          popped,     \* the values TryPop has returned
          refused     \* refused[p]: the calls that returned FALSE

shared == <<seq, val, enq, deq>>
ringVars == <<seq, val, enq, deq, prod, cons, pushes, popped, refused>>

Slot == 0..(Cap - 1)

\* pos & mask.
SlotOf(pos) == pos % Cap

\* Type invariant.
RingTypeOK ==
  /\ seq \in [Slot -> Nat]
  /\ val \in [Slot -> Value \cup {Zero}]
  /\ enq \in Nat /\ deq \in Nat
  /\ prod \in [Producer -> [pc : {"idle", "load", "check", "claim", "write", "publish"}, pos : Nat]]
  /\ cons \in [pc : {"idle", "read", "clear", "free", "advance"}, v : Value \cup {Zero}]
  /\ pushes \in [Producer -> 0..MaxPush]
  /\ popped \in Seq(Value)
  /\ refused \in [Producer -> 0..MaxPush]

\* New.
RingInit ==
  /\ seq = [i \in Slot |-> i]
  /\ val = [i \in Slot |-> Zero]
  /\ enq = 0 /\ deq = 0
  /\ prod = [p \in Producer |-> [pc |-> "idle", pos |-> 0]]
  /\ cons = [pc |-> "idle", v |-> Zero]
  /\ pushes = [p \in Producer |-> 0]
  /\ popped = <<>>
  /\ refused = [p \in Producer |-> 0]

-----------------------------------------------------------------------------
(* TryPush. *)

\* A call.
TryPush(p) ==
  /\ prod[p].pc = "idle" /\ pushes[p] < MaxPush
  /\ pushes' = [pushes EXCEPT ![p] = @ + 1]
  /\ prod' = [prod EXCEPT ![p].pc = "load"]
  /\ UNCHANGED <<shared, cons, popped, refused>>

\* The position a turn of the loop starts from.
Loaded(p) == enq

Load(p) ==
  /\ prod[p].pc = "load"
  /\ prod' = [prod EXCEPT ![p] = [pc |-> "check", pos |-> Loaded(p)]]
  /\ UNCHANGED <<shared, cons, pushes, popped, refused>>

\* The slot is free for the producer at this position.
Free(dif) == dif = 0

\* Load the slot's sequence and decide.
CheckSlot(p) ==
  LET dif == seq[SlotOf(prod[p].pos)] - prod[p].pos
  IN  /\ prod[p].pc = "check"
      /\ \/ /\ Free(dif)
            /\ prod' = [prod EXCEPT ![p].pc = "claim"]
            /\ UNCHANGED refused
         \/ /\ dif < 0
            /\ prod' = [prod EXCEPT ![p].pc = "idle"]
            /\ refused' = [refused EXCEPT ![p] = @ + 1]
         \/ /\ ~Free(dif) /\ dif > 0
            /\ prod' = [prod EXCEPT ![p].pc = "load"]
            /\ UNCHANGED refused
      /\ UNCHANGED <<shared, cons, pushes, popped>>

\* Mutant: the counter is advanced without the comparison.
MutWins(p) == TRUE

\* The compare-and-swap succeeds.
Wins(p) == enq = prod[p].pos

Claim(p) ==
  /\ prod[p].pc = "claim"
  /\ \/ /\ Wins(p)
        /\ enq' = prod[p].pos + 1
        /\ prod' = [prod EXCEPT ![p].pc = "write"]
     \/ /\ ~Wins(p)
        /\ prod' = [prod EXCEPT ![p].pc = "load"]
        /\ UNCHANGED enq
  /\ UNCHANGED <<seq, val, deq, cons, pushes, popped, refused>>

Write(p) ==
  /\ prod[p].pc = "write"
  /\ val' = [val EXCEPT ![SlotOf(prod[p].pos)] = <<p, pushes[p]>>]
  /\ prod' = [prod EXCEPT ![p].pc = "publish"]
  /\ UNCHANGED <<seq, enq, deq, cons, pushes, popped, refused>>

PublishSlot(p) ==
  /\ prod[p].pc = "publish"
  /\ seq' = [seq EXCEPT ![SlotOf(prod[p].pos)] = prod[p].pos + 1]
  /\ prod' = [prod EXCEPT ![p].pc = "idle"]
  /\ UNCHANGED <<val, enq, deq, cons, pushes, popped, refused>>

-----------------------------------------------------------------------------
(* TryPop. *)

\* The slot at deq has been published.
Full == seq[SlotOf(deq)] - (deq + 1) >= 0

\* A call; one that finds nothing changes nothing.
TryPop ==
  /\ cons.pc = "idle" /\ Full
  /\ cons' = [cons EXCEPT !.pc = "read"]
  /\ UNCHANGED <<shared, prod, pushes, popped, refused>>

Read ==
  /\ cons.pc = "read"
  /\ cons' = [pc |-> "clear", v |-> val[SlotOf(deq)]]
  /\ UNCHANGED <<shared, prod, pushes, popped, refused>>

Clear ==
  /\ cons.pc = "clear"
  /\ val' = [val EXCEPT ![SlotOf(deq)] = Zero]
  /\ cons' = [cons EXCEPT !.pc = "free"]
  /\ UNCHANGED <<seq, enq, deq, prod, pushes, popped, refused>>

\* Mutant: the mask where the capacity is meant.
MutNextRound == deq + Cap - 1

\* The position at which the slot is used next.
NextRound == deq + Cap

FreeSlot ==
  /\ cons.pc = "free"
  /\ seq' = [seq EXCEPT ![SlotOf(deq)] = NextRound]
  /\ cons' = [cons EXCEPT !.pc = "advance"]
  /\ UNCHANGED <<val, enq, deq, prod, pushes, popped, refused>>

Advance ==
  /\ cons.pc = "advance"
  /\ deq' = deq + 1
  /\ popped' = Append(popped, cons.v)
  /\ cons' = [pc |-> "idle", v |-> Zero]
  /\ UNCHANGED <<seq, val, enq, prod, pushes, refused>>

-----------------------------------------------------------------------------

Produces(p) == Load(p) \/ CheckSlot(p) \/ Claim(p) \/ Write(p) \/ PublishSlot(p)
Consumes == TryPop \/ Read \/ Clear \/ FreeSlot \/ Advance

RingNext == (\E p \in Producer : TryPush(p) \/ Produces(p)) \/ Consumes

RingSpec == RingInit /\ [][RingNext]_ringVars

-----------------------------------------------------------------------------
(* Properties. *)

\* A producer is about to write the value of the slot.
Writing(p, i) == prod[p].pc = "write" /\ SlotOf(prod[p].pos) = i

\* slot.val is plain memory: while a producer writes it neither another producer
\* nor the consumer (its read and its clearing) is at it.
NoRace ==
  \A p \in Producer, i \in Slot :
    Writing(p, i) =>
      /\ \A q \in Producer \ {p} : ~Writing(q, i)
      /\ ~(cons.pc \in {"read", "clear"} /\ SlotOf(deq) = i)

\* The oldest position not handed over: the slot is free from FreeSlot on.
First == IF cons.pc = "advance" THEN deq + 1 ELSE deq

\* The producer whose claim of pos is not published.
Claimant(pos) == {p \in Producer : prod[p].pc \in {"write", "publish"} /\ prod[p].pos = pos}

EntryAt(pos) ==
  IF Claimant(pos) # {}
  THEN LET p == CHOOSE p \in Claimant(pos) : TRUE
       IN  [val |-> <<p, pushes[p]>>, ready |-> FALSE]
  ELSE [val |-> IF cons.pc \in {"clear", "free"} /\ pos = deq
                THEN cons.v ELSE val[SlotOf(pos)],
        ready |-> TRUE]

Abstract == INSTANCE Fifo WITH
  Bound <- Cap,
  queue <- [i \in 1..(enq - First) |-> EntryAt(First + i - 1)],
  popped <- IF cons.pc = "advance" THEN Append(popped, cons.v) ELSE popped

\* The ring is the bounded queue of Fifo.tla: values come out once and in the
\* order of the claims, never before they are published, at most Cap are in it,
\* and TryPush returns FALSE only when Cap are.
IsFifo == Abstract!Spec
=============================================================================
