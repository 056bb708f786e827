---------------------------- MODULE ArenaProofs -----------------------------
(***************************************************************************)
(* Proofs about an arena, from the three sides MCArena.tla checks it from. *)
(* The ring buffer (RingBuf.tla), for any number of producers, capacity    *)
(* and pushes: nobody races for slot.val, and the ring is the bounded      *)
(* queue of Fifo.tla.  The process (Arena.tla), for any players and        *)
(* bounds: a queued command waits no longer than the queue is long.  The   *)
(* operator (Operator.tla), for every pair of timeouts, number of Pods and *)
(* of failing calls, lost Pods and crashes: what a record that is final,   *)
(* and a deletion, mean for the Pod and the match.                         *)
(***************************************************************************)
EXTENDS Arena, RingBuf, Operator, TLAPS, SequenceTheorems

-----------------------------------------------------------------------------
(* Positions and slots. *)

LEMMA CapType == Cap \in Nat /\ Cap > 1
  BY CapAssumption

\* The definition of %.
LEMMA Quotient ==
  ASSUME NEW c \in Nat, c > 0, NEW a \in Nat
  PROVE  /\ a % c \in 0..(c - 1)
         /\ a \div c \in Int
         /\ a = c * (a \div c) + (a % c)
<1>1. a % c \in 0..(c - 1)
  OBVIOUS
<1>2. a \div c \in Int
  OBVIOUS
<1>3. a = c * (a \div c) + (a % c)
  OBVIOUS
<1>4. QED
  BY <1>1, <1>2, <1>3

LEMMA Division ==
  ASSUME NEW a \in Nat
  PROVE  \E k \in Int : a = Cap * k + SlotOf(a) /\ SlotOf(a) \in Slot
<1>1. /\ a % Cap \in 0..(Cap - 1)
      /\ a \div Cap \in Int
      /\ a = Cap * (a \div Cap) + (a % Cap)
  <2> DEFINE c == Cap
  <2>1. c \in Nat /\ c > 0
    BY CapType
  <2> HIDE DEF c
  <2>2. /\ a % c \in 0..(c - 1)
        /\ a \div c \in Int
        /\ a = c * (a \div c) + (a % c)
    BY <2>1, Quotient
  <2>3. QED
    BY <2>2 DEF c
<1>2. QED
  BY <1>1 DEF SlotOf, Slot

\* A multiple of c that is smaller than c is 0.
LEMMA SmallMultiple ==
  ASSUME NEW c \in Nat, NEW k \in Int, c * k < c, -c < c * k, c > 0
  PROVE  k = 0
<1>1. k \in Int /\ (k >= 1 \/ k = 0 \/ k <= -1)
  OBVIOUS
<1>2. ASSUME k >= 1 PROVE FALSE
  <2>1. (k - 1) * c >= 0
    BY <1>2
  <2>2. c * k = (k - 1) * c + c
    OBVIOUS
  <2>3. QED
    BY <2>1, <2>2
<1>3. ASSUME k <= -1 PROVE FALSE
  <2>1. (-1 - k) * c >= 0
    BY <1>3
  <2>2. c * k = -((-1 - k) * c) - c
    OBVIOUS
  <2>3. QED
    BY <2>1, <2>2
<1>4. QED
  BY <1>1, <1>2, <1>3

\* The slot is the remainder.
LEMMA Remainder ==
  ASSUME NEW b \in Nat, NEW k \in Int, NEW i \in Slot, b = Cap * k + i
  PROVE  SlotOf(b) = i
<1>1. PICK q \in Int : b = Cap * q + SlotOf(b) /\ SlotOf(b) \in Slot
  BY Division
<1> DEFINE r == SlotOf(b)
<1> DEFINE c == Cap
<1>2. c \in Nat /\ c > 0 /\ r \in 0..(c - 1) /\ i \in 0..(c - 1) /\ b = c * q + r /\ b = c * k + i
  BY <1>1, CapType DEF Slot
<1> HIDE DEF r, c
<1>3. c * (q - k) = i - r /\ q - k \in Int
  BY <1>2
<1>4. q - k = 0
  BY <1>2, <1>3, SmallMultiple
<1>5. r = i
  BY <1>2, <1>3, <1>4
<1>6. QED
  BY <1>5 DEF r

LEMMA SlotType ==
  ASSUME NEW a \in Nat
  PROVE  SlotOf(a) \in Slot
  BY Division

\* The Cap positions from any one on have different slots.
LEMMA SlotsDiffer ==
  ASSUME NEW a \in Nat, NEW b \in Nat, b < a + Cap, a < b + Cap, SlotOf(a) = SlotOf(b)
  PROVE  a = b
<1>1. PICK k \in Int : a = Cap * k + SlotOf(a) /\ SlotOf(a) \in Slot
  BY Division
<1>2. PICK q \in Int : b = Cap * q + SlotOf(a)
  BY Division
<1> DEFINE r == SlotOf(a)
<1> DEFINE c == Cap
<1>3. /\ c \in Nat /\ c > 0 /\ r \in Nat /\ a = c * k + r /\ b = c * q + r
      /\ b < a + c /\ a < b + c
  BY <1>1, <1>2, CapType DEF Slot
<1> HIDE DEF r, c
<1>4. c * (q - k) = b - a /\ q - k \in Int
  BY <1>3
<1>5. q - k = 0
  BY <1>3, <1>4, SmallMultiple
<1>6. QED
  BY <1>3, <1>4, <1>5

\* A round later the slot is the same.
LEMMA NextRoundSlot ==
  ASSUME NEW a \in Nat
  PROVE  SlotOf(a + Cap) = SlotOf(a)
<1>1. PICK k \in Int : a = Cap * k + SlotOf(a) /\ SlotOf(a) \in Slot
  BY Division
<1>2. a + Cap = Cap * (k + 1) + SlotOf(a) /\ a + Cap \in Nat /\ k + 1 \in Int
  BY <1>1, CapType DEF Slot
<1>3. QED
  BY <1>1, <1>2, Remainder

\* The first round.
LEMMA FirstRoundSlot ==
  ASSUME NEW i \in Slot
  PROVE  SlotOf(i) = i
<1>1. i \in Nat /\ i = Cap * 0 + i
  BY CapType DEF Slot
<1>2. QED
  BY <1>1, Remainder

\* Every slot is that of one of the Cap positions from any one on.
LEMMA Covered ==
  ASSUME NEW a \in Nat, NEW i \in Slot
  PROVE  \E q \in a..(a + Cap - 1) : SlotOf(q) = i
<1>1. PICK k \in Int : a = Cap * k + SlotOf(a) /\ SlotOf(a) \in Slot
  BY Division
<1>2. Cap \in Nat /\ SlotOf(a) \in 0..(Cap - 1) /\ i \in 0..(Cap - 1)
  BY <1>1, CapType DEF Slot
<1>3. CASE i >= SlotOf(a)
  <2>1. PICK q \in Nat : q = a - SlotOf(a) + i
    BY <1>2, <1>3
  <2>2. q = Cap * k + i /\ q \in a..(a + Cap - 1)
    BY <1>1, <1>2, <1>3, <2>1
  <2>3. QED
    BY <2>2, Remainder
<1>4. CASE i < SlotOf(a)
  <2>1. PICK q \in Nat : q = a - SlotOf(a) + i + Cap
    BY <1>2, <1>4
  <2>2. q = Cap * (k + 1) + i /\ q \in a..(a + Cap - 1) /\ k + 1 \in Int
    BY <1>1, <1>2, <1>4, <2>1
  <2>3. QED
    BY <2>2, Remainder
<1>5. QED
  BY <1>2, <1>3, <1>4

-----------------------------------------------------------------------------
(* The invariant.  The positions First .. First + Cap - 1 have the slots of *)
(* the ring, one each: those below enq are claimed, the rest are free.     *)

\* The producer has claimed its position and has not published it.
Claims(p) == prod[p].pc \in {"write", "publish"}

Unpublished(pos) == \E p \in Producer : Claims(p) /\ prod[p].pos = pos

\* The sequence of the slot of a position: free, claimed or published.
Mark(pos) == IF pos < enq /\ ~Unpublished(pos) THEN pos + 1 ELSE pos

\* What RingTypeOK says beside the bound of refused.
Cells ==
  /\ seq \in [Slot -> Nat]
  /\ val \in [Slot -> Value \cup {Zero}]
  /\ enq \in Nat /\ deq \in Nat

Threads ==
  /\ prod \in [Producer -> [pc : {"idle", "load", "check", "claim", "write", "publish"}, pos : Nat]]
  /\ cons \in [pc : {"idle", "read", "clear", "free", "advance"}, v : Value \cup {Zero}]

Calls ==
  /\ pushes \in [Producer -> 0..MaxPush]
  /\ refused \in [Producer -> Nat]
  /\ popped \in Seq(Value)

\* A call is refused once at most.
Counted ==
  \A p \in Producer :
    /\ refused[p] <= pushes[p]
    /\ prod[p].pc # "idle" => refused[p] < pushes[p]

\* No more is claimed than there is room for, and the consumer is at a position
\* that was published.
Window ==
  /\ First <= enq /\ enq <= First + Cap
  /\ cons.pc \in {"read", "clear", "free"} => deq < enq /\ ~Unpublished(deq)

\* A claim is in the window and of a single producer.
Exclusive ==
  \A p \in Producer :
    Claims(p) =>
      /\ First <= prod[p].pos /\ prod[p].pos < enq
      /\ \A q \in Producer : Claims(q) /\ prod[q].pos = prod[p].pos => q = p

\* A position that was loaded is not ahead of enq; one whose slot was found
\* free stays inside the window, which only moves up.
Loads ==
  \A p \in Producer :
    /\ prod[p].pc \in {"check", "claim"} => prod[p].pos <= enq
    /\ prod[p].pc = "claim" => prod[p].pos < First + Cap

Marks == \A pos \in First..(First + Cap - 1) : seq[SlotOf(pos)] = Mark(pos)

\* What is published is there until the consumer has cleared it.
Values ==
  /\ \A p \in Producer :
       prod[p].pc = "publish" => val[SlotOf(prod[p].pos)] = <<p, pushes[p]>>
  /\ \A pos \in First..(enq - 1) :
       \/ Unpublished(pos)
       \/ cons.pc = "free" /\ pos = deq
       \/ val[SlotOf(pos)] \in Value
  /\ cons.pc \in {"clear", "free", "advance"} => cons.v \in Value

RingInv ==
  /\ Cells /\ Threads /\ Calls
  /\ Counted /\ Window /\ Exclusive /\ Loads /\ Marks /\ Values

-----------------------------------------------------------------------------
(* Types and counters. *)

LEMMA InitInv == RingInit => RingInv
<1> SUFFICES ASSUME RingInit PROVE RingInv
  OBVIOUS
<1> USE DEF RingInit
<1>1. Cap \in Nat /\ Cap > 1
  BY CapType
<1>2. Slot \subseteq Nat
  BY <1>1 DEF Slot
<1>3. First = 0 /\ \A pos : ~Unpublished(pos)
  BY DEF First, Unpublished, Claims
<1>4. Cells /\ Threads /\ Calls /\ Counted
  <2>1. Cells
    BY <1>2 DEF Cells
  <2>2. Threads
    BY DEF Threads
  <2>3. Calls
    BY RingBufAssumption, EmptySeq DEF Calls
  <2>4. Counted
    BY DEF Counted
  <2>5. QED
    BY <2>1, <2>2, <2>3, <2>4
<1>5. Window /\ Exclusive /\ Loads
  BY <1>1, <1>3 DEF Window, Exclusive, Loads, Claims
<1>6. Marks
  <2> SUFFICES ASSUME NEW pos \in First..(First + Cap - 1) PROVE seq[SlotOf(pos)] = Mark(pos)
    BY DEF Marks
  <2>1. pos \in Slot
    BY <1>1, <1>3 DEF Slot
  <2>2. SlotOf(pos) = pos
    BY <2>1, FirstRoundSlot
  <2>3. QED
    BY <1>2, <2>1, <2>2 DEF Mark
<1>7. Values
  BY <1>1, <1>3 DEF Values
<1>8. QED
  BY <1>4, <1>5, <1>6, <1>7 DEF RingInv

\* The value that is pushed and the value at deq.
LEMMA PushedValue ==
  ASSUME RingInv, NEW p \in Producer, prod[p].pc # "idle"
  PROVE  <<p, pushes[p]>> \in Value
<1>1. /\ pushes[p] \in 0..MaxPush /\ refused[p] \in Nat /\ refused[p] < pushes[p]
      /\ MaxPush \in Nat
  BY RingBufAssumption DEF RingInv, Calls, Counted
<1>2. pushes[p] \in 1..MaxPush
  BY <1>1
<1>3. QED
  BY <1>2 DEF Value

LEMMA ReadValue ==
  ASSUME RingInv, cons.pc \in {"read", "clear"}
  PROVE  val[SlotOf(deq)] \in Value
<1>1. First = deq /\ deq \in First..(enq - 1) /\ ~Unpublished(deq)
  BY DEF RingInv, Window, First, Cells
<1>2. QED
  BY <1>1 DEF RingInv, Values

LEMMA CellsStep == RingInv /\ RingNext => Cells'
<1> SUFFICES ASSUME RingInv, RingNext PROVE Cells'
  OBVIOUS
<1> USE DEF RingInv, Cells, shared
<1>1. ASSUME NEW p \in Producer, TryPush(p) \/ Produces(p) PROVE Cells'
  <2>1. prod[p].pos \in Nat /\ SlotOf(prod[p].pos) \in Slot
    BY SlotType DEF Threads
  <2>2. CASE TryPush(p)
    BY <2>2 DEF TryPush
  <2>3. CASE Load(p)
    BY <2>3 DEF Load
  <2>4. CASE CheckSlot(p)
    BY <2>4 DEF CheckSlot
  <2>5. CASE Claim(p)
    BY <2>1, <2>5 DEF Claim
  <2>6. CASE Write(p)
    <3>1. <<p, pushes[p]>> \in Value
      BY <2>6, PushedValue DEF Write
    <3>2. QED
      BY <2>1, <2>6, <3>1 DEF Write
  <2>7. CASE PublishSlot(p)
    BY <2>1, <2>7 DEF PublishSlot
  <2>8. QED
    BY <1>1, <2>2, <2>3, <2>4, <2>5, <2>6, <2>7 DEF Produces
<1>2. ASSUME Consumes PROVE Cells'
  <2>1. CASE TryPop \/ Read
    BY <2>1 DEF TryPop, Read
  <2>2. CASE Clear
    BY <2>2, SlotType DEF Clear
  <2>3. CASE FreeSlot
    BY <2>3, SlotType, CapType DEF FreeSlot, NextRound
  <2>4. CASE Advance
    BY <2>4 DEF Advance
  <2>5. QED
    BY <1>2, <2>1, <2>2, <2>3, <2>4 DEF Consumes
<1>3. QED
  BY <1>1, <1>2 DEF RingNext

LEMMA ThreadsStep == RingInv /\ RingNext => Threads'
<1> SUFFICES ASSUME RingInv, RingNext PROVE Threads'
  OBVIOUS
<1> USE DEF RingInv, Threads
<1>1. ASSUME NEW p \in Producer, TryPush(p) \/ Produces(p) PROVE Threads'
  <2>1. prod[p] \in [pc : {"idle", "load", "check", "claim", "write", "publish"}, pos : Nat]
    OBVIOUS
  <2>2. CASE TryPush(p)
    BY <2>1, <2>2 DEF TryPush
  <2>3. CASE Load(p)
    BY <2>3 DEF Load, Loaded, Cells
  <2>4. CASE CheckSlot(p)
    BY <2>1, <2>4 DEF CheckSlot
  <2>5. CASE Claim(p)
    BY <2>1, <2>5 DEF Claim
  <2>6. CASE Write(p)
    BY <2>1, <2>6 DEF Write
  <2>7. CASE PublishSlot(p)
    BY <2>1, <2>7 DEF PublishSlot
  <2>8. QED
    BY <1>1, <2>2, <2>3, <2>4, <2>5, <2>6, <2>7 DEF Produces
<1>2. ASSUME Consumes PROVE Threads'
  <2>1. CASE TryPop
    BY <2>1 DEF TryPop
  <2>2. CASE Read
    BY <2>2, ReadValue DEF Read
  <2>3. CASE Clear
    BY <2>3 DEF Clear
  <2>4. CASE FreeSlot
    BY <2>4 DEF FreeSlot
  <2>5. CASE Advance
    BY <2>5 DEF Advance
  <2>6. QED
    BY <1>2, <2>1, <2>2, <2>3, <2>4, <2>5 DEF Consumes
<1>3. QED
  BY <1>1, <1>2 DEF RingNext

LEMMA CallsStep == RingInv /\ RingNext => Calls' /\ Counted'
<1> SUFFICES ASSUME RingInv, RingNext PROVE Calls' /\ Counted'
  OBVIOUS
<1> USE DEF RingInv, Calls, Counted, Threads
<1>1. ASSUME NEW p \in Producer, TryPush(p) \/ Produces(p) PROVE Calls' /\ Counted'
  <2>1. MaxPush \in Nat
    BY RingBufAssumption
  <2>2. CASE TryPush(p)
    <3>1. pushes[p] + 1 \in 0..MaxPush
      BY <2>1, <2>2 DEF TryPush
    <3>2. QED
      BY <2>2, <3>1 DEF TryPush
  <2>3. CASE Load(p)
    BY <2>3 DEF Load
  <2>4. CASE CheckSlot(p)
    <3>1. \/ prod'[p].pc # "idle" /\ refused' = refused
          \/ prod'[p].pc = "idle" /\ refused' = [refused EXCEPT ![p] = @ + 1]
      BY <2>4 DEF CheckSlot
    <3>2. /\ \A q \in Producer \ {p} : prod'[q] = prod[q]
          /\ prod[p].pc # "idle" /\ pushes' = pushes /\ popped' = popped
      BY <2>4 DEF CheckSlot
    <3>3. refused' \in [Producer -> Nat] /\ \A q \in Producer \ {p} : refused'[q] = refused[q]
      BY <3>1
    <3>4. \/ prod'[p].pc # "idle" /\ refused'[p] = refused[p]
          \/ prod'[p].pc = "idle" /\ refused'[p] = refused[p] + 1
      BY <3>1
    <3>5. Calls'
      BY <3>2, <3>3
    <3>6. Counted'
      <4> SUFFICES ASSUME NEW q \in Producer
                   PROVE  /\ refused'[q] <= pushes'[q]
                          /\ prod'[q].pc # "idle" => refused'[q] < pushes'[q]
        BY DEF Counted
      <4>1. CASE q = p
        <5>1. refused[p] \in Nat /\ pushes[p] \in Nat /\ refused[p] < pushes[p]
          BY <3>2
        <5>2. QED
          BY <3>2, <3>4, <4>1, <5>1
      <4>2. CASE q # p
        BY <3>2, <3>3, <4>2
      <4>3. QED
        BY <4>1, <4>2
    <3>7. QED
      BY <3>5, <3>6
  <2>5. CASE Claim(p)
    BY <2>5 DEF Claim
  <2>6. CASE Write(p)
    BY <2>6 DEF Write
  <2>7. CASE PublishSlot(p)
    BY <2>7 DEF PublishSlot
  <2>8. QED
    BY <1>1, <2>2, <2>3, <2>4, <2>5, <2>6, <2>7 DEF Produces
<1>2. ASSUME Consumes PROVE Calls' /\ Counted'
  <2>1. CASE TryPop \/ Read \/ Clear \/ FreeSlot
    BY <2>1 DEF TryPop, Read, Clear, FreeSlot
  <2>2. CASE Advance
    <3>1. popped' \in Seq(Value)
      BY <2>2, AppendProperties DEF Advance, Values
    <3>2. QED
      BY <2>2, <3>1 DEF Advance
  <2>3. QED
    BY <1>2, <2>1, <2>2 DEF Consumes
<1>3. QED
  BY <1>1, <1>2 DEF RingNext

-----------------------------------------------------------------------------
(* The window. *)

Positions == Window /\ Exclusive /\ Loads /\ Marks /\ Values

LEMMA FirstType == RingInv => First \in Nat
  BY DEF RingInv, Cells, First

\* The slot of a position in the window belongs to no other position there.
LEMMA OwnSlot ==
  ASSUME NEW f \in Nat, NEW a \in f..(f + Cap - 1), NEW b \in f..(f + Cap - 1), a # b
  PROVE  SlotOf(a) # SlotOf(b) /\ SlotOf(a) \in Slot /\ SlotOf(b) \in Slot
<1>1. a \in Nat /\ b \in Nat /\ b < a + Cap /\ a < b + Cap
  BY CapType
<1>2. QED
  BY <1>1, SlotType, SlotsDiffer

\* A step of p that neither makes nor publishes a claim.
LEMMA Quiet ==
  ASSUME RingInv, NEW p \in Producer,
         UNCHANGED <<seq, val, enq, deq, cons>>,
         ~Claims(p), ~Claims(p)',
         \A q \in Producer \ {p} : prod'[q] = prod[q] /\ pushes'[q] = pushes[q],
         prod'[p].pc \in {"check", "claim"} => prod'[p].pos <= enq,
         prod'[p].pc = "claim" => prod'[p].pos < First + Cap
  PROVE  Positions'
<1>1. First' = First
  BY DEF First
<1>2. \A q \in Producer : Claims(q)' <=> Claims(q)
  BY DEF Claims
<1>3. \A q \in Producer : Claims(q) => q # p /\ prod'[q] = prod[q]
  OBVIOUS
<1>4. ASSUME NEW pos PROVE Unpublished(pos)' <=> Unpublished(pos)
  BY <1>2, <1>3 DEF Unpublished
<1>5. Window'
  BY <1>1, <1>4 DEF RingInv, Window
<1>6. Exclusive'
  BY <1>1, <1>2, <1>3 DEF RingInv, Exclusive
<1>7. Loads'
  BY <1>1 DEF RingInv, Loads
<1>8. Marks'
  BY <1>1, <1>4 DEF RingInv, Marks, Mark, SlotOf
<1>9. Values'
  <2>1. ASSUME NEW q \in Producer, prod'[q].pc = "publish"
        PROVE  val'[SlotOf(prod'[q].pos)] = <<q, pushes'[q]>>
    <3>1. q # p
      BY <2>1 DEF Claims
    <3>2. QED
      BY <2>1, <3>1 DEF RingInv, Values
  <2>2. QED
    BY <1>1, <1>4, <2>1 DEF RingInv, Values, SlotOf
<1>10. QED
  BY <1>5, <1>6, <1>7, <1>8, <1>9 DEF Positions

LEMMA TryPushStep ==
  ASSUME RingInv, NEW p \in Producer, TryPush(p)
  PROVE  Positions'
<1>1. /\ prod'[p].pc = "load" /\ prod[p].pc = "idle"
      /\ \A q \in Producer \ {p} : prod'[q] = prod[q] /\ pushes'[q] = pushes[q]
  BY DEF TryPush, RingInv, Threads, Calls
<1>2. UNCHANGED <<seq, val, enq, deq, cons>>
  BY DEF TryPush, shared
<1>3. QED
  BY <1>1, <1>2, Quiet DEF Claims

LEMMA LoadStep ==
  ASSUME RingInv, NEW p \in Producer, Load(p)
  PROVE  Positions'
<1>1. /\ prod'[p].pc = "check" /\ prod'[p].pos = enq /\ prod[p].pc = "load"
      /\ \A q \in Producer \ {p} : prod'[q] = prod[q] /\ pushes'[q] = pushes[q]
      /\ enq \in Nat
  BY DEF Load, Loaded, RingInv, Threads, Calls, Cells
<1>2. UNCHANGED <<seq, val, enq, deq, cons>>
  BY DEF Load, shared
<1>3. QED
  BY <1>1, <1>2, Quiet DEF Claims

\* A slot with a position's own number is free for it, and in the window: the
\* number of a published slot belongs to a neighbour.
LEMMA FreeSlotInWindow ==
  ASSUME RingInv, NEW pos \in Nat, pos <= enq, seq[SlotOf(pos)] = pos
  PROVE  pos < First + Cap
<1>1. First \in Nat /\ Cap \in Nat /\ Cap > 1 /\ enq \in Nat
  BY FirstType, CapType DEF RingInv, Cells
<1>2. PICK q \in First..(First + Cap - 1) : SlotOf(q) = SlotOf(pos)
  BY <1>1, SlotType, Covered
<1>3. seq[SlotOf(pos)] = Mark(q)
  BY <1>2 DEF RingInv, Marks
<1>4. q \in Nat
  BY <1>1
<1>5. pos # q + 1
  BY <1>1, <1>2, <1>4, SlotsDiffer
<1>6. pos = q
  BY <1>3, <1>5 DEF Mark
<1>7. QED
  BY <1>1, <1>6

LEMMA CheckSlotStep ==
  ASSUME RingInv, NEW p \in Producer, CheckSlot(p)
  PROVE  Positions'
<1>1. /\ prod[p].pc = "check" /\ ~(prod'[p].pc \in {"check", "write", "publish"})
      /\ prod'[p].pos = prod[p].pos
      /\ \A q \in Producer \ {p} : prod'[q] = prod[q] /\ pushes'[q] = pushes[q]
  BY DEF CheckSlot, RingInv, Threads, Calls
<1>2. UNCHANGED <<seq, val, enq, deq, cons>>
  BY DEF CheckSlot, shared
<1>3. prod[p].pos \in Nat /\ prod[p].pos <= enq
  BY <1>1 DEF RingInv, Threads, Loads
<1>4. ASSUME prod'[p].pc = "claim" PROVE prod'[p].pos < First + Cap
  <2>1. seq[SlotOf(prod[p].pos)] - prod[p].pos = 0
    BY <1>4 DEF CheckSlot, Free, RingInv, Threads
  <2>2. seq[SlotOf(prod[p].pos)] \in Nat
    BY <1>3, SlotType DEF RingInv, Cells
  <2>3. seq[SlotOf(prod[p].pos)] = prod[p].pos
    BY <1>3, <2>1, <2>2
  <2>4. QED
    BY <1>1, <1>3, <2>3, FreeSlotInWindow
<1>5. QED
  BY <1>1, <1>2, <1>3, <1>4, Quiet DEF Claims

\* A producer wins the position enq.
LEMMA WinStep ==
  ASSUME RingInv, NEW p \in Producer, Claim(p), Wins(p)
  PROVE  Positions'
<1>1. /\ prod[p].pc = "claim" /\ prod[p].pos = enq
      /\ prod'[p].pc = "write" /\ prod'[p].pos = enq
      /\ enq' = enq + 1
      /\ \A q \in Producer \ {p} : prod'[q] = prod[q]
      /\ UNCHANGED <<seq, val, deq, cons, pushes>>
  BY DEF Claim, Wins, RingInv, Threads
<1>2. First' = First /\ First \in Nat /\ enq \in Nat /\ enq < First + Cap /\ Cap \in Nat
  BY <1>1, FirstType, CapType DEF First, RingInv, Loads, Cells
<1>3. ~Claims(p) /\ Claims(p)' /\ \A q \in Producer \ {p} : Claims(q)' <=> Claims(q)
  BY <1>1 DEF Claims
<1>4. ~Unpublished(enq)
  BY <1>2 DEF Unpublished, RingInv, Exclusive
<1>5. ASSUME NEW pos PROVE Unpublished(pos)' <=> Unpublished(pos) \/ pos = enq
  BY <1>1, <1>3 DEF Unpublished
<1>6. Window'
  BY <1>1, <1>2, <1>5 DEF RingInv, Window, Cells
<1>7. Exclusive'
  <2> SUFFICES ASSUME NEW q \in Producer, Claims(q)'
               PROVE  /\ First <= prod'[q].pos /\ prod'[q].pos < enq + 1
                      /\ \A r \in Producer : Claims(r)' /\ prod'[r].pos = prod'[q].pos => r = q
    BY <1>1, <1>2 DEF Exclusive
  <2>1. \A r \in Producer \ {p} : Claims(r)' => prod'[r].pos < enq /\ First <= prod'[r].pos
    BY <1>1, <1>3 DEF RingInv, Exclusive
  <2>2. \A r \in Producer \ {p} : Claims(r)' => prod'[r].pos # enq /\ prod[r].pos \in Nat
    BY <1>2, <2>1 DEF RingInv, Threads
  <2>3. CASE q = p
    BY <1>1, <1>2, <2>2, <2>3 DEF RingInv, Window
  <2>4. CASE q # p
    BY <1>1, <1>2, <1>3, <2>1, <2>2, <2>4 DEF RingInv, Exclusive
  <2>5. QED
    BY <2>3, <2>4
<1>8. Loads'
  <2> SUFFICES ASSUME NEW q \in Producer
               PROVE  /\ prod'[q].pc \in {"check", "claim"} => prod'[q].pos <= enq + 1
                      /\ prod'[q].pc = "claim" => prod'[q].pos < First + Cap
    BY <1>1, <1>2 DEF Loads
  <2>1. CASE q = p
    BY <1>1, <2>1
  <2>2. CASE q # p
    BY <1>1, <1>2, <2>2 DEF RingInv, Loads, Threads
  <2>3. QED
    BY <2>1, <2>2
<1>9. Marks'
  <2> SUFFICES ASSUME NEW pos \in First..(First + Cap - 1) PROVE seq[SlotOf(pos)] = Mark(pos)'
    BY <1>1, <1>2 DEF Marks, SlotOf
  <2>1. pos \in Nat
    BY <1>2
  <2>2. Mark(pos)' = Mark(pos)
    BY <1>1, <1>2, <1>4, <1>5, <2>1 DEF Mark
  <2>3. QED
    BY <2>2 DEF RingInv, Marks
<1>10. Values'
  <2>1. ASSUME NEW q \in Producer, prod'[q].pc = "publish"
        PROVE  val'[SlotOf(prod'[q].pos)] = <<q, pushes'[q]>>
    <3>1. q # p
      BY <1>1, <2>1
    <3>2. QED
      BY <1>1, <2>1, <3>1 DEF RingInv, Values
  <2>2. ASSUME NEW pos \in First..(enq' - 1)
        PROVE  Unpublished(pos)' \/ (cons'.pc = "free" /\ pos = deq') \/ val'[SlotOf(pos)] \in Value
    <3>1. pos = enq \/ pos \in First..(enq - 1)
      BY <1>1, <1>2
    <3>2. QED
      BY <1>1, <1>5, <3>1 DEF RingInv, Values
  <2>3. QED
    BY <1>1, <1>2, <2>1, <2>2 DEF RingInv, Values, SlotOf
<1>11. QED
  BY <1>6, <1>7, <1>8, <1>9, <1>10 DEF Positions

LEMMA ClaimStep ==
  ASSUME RingInv, NEW p \in Producer, Claim(p)
  PROVE  Positions'
<1>1. ASSUME ~Wins(p) PROVE Positions'
  <2>1. /\ prod[p].pc = "claim" /\ prod'[p].pc = "load"
        /\ \A q \in Producer \ {p} : prod'[q] = prod[q] /\ pushes'[q] = pushes[q]
    BY <1>1 DEF Claim, RingInv, Threads, Calls
  <2>2. UNCHANGED <<seq, val, enq, deq, cons>>
    BY <1>1 DEF Claim
  <2>3. QED
    BY <2>1, <2>2, Quiet DEF Claims
<1>2. QED
  BY <1>1, WinStep

\* Nobody else is at the slot of a claim.
LEMMA OthersElsewhere ==
  ASSUME RingInv, NEW p \in Producer, Claims(p)
  PROVE  /\ prod[p].pos \in First..(First + Cap - 1)
         /\ \A q \in Producer \ {p} :
              Claims(q) => /\ SlotOf(prod[q].pos) # SlotOf(prod[p].pos)
                           /\ prod[q].pos \in First..(First + Cap - 1)
         /\ \A pos \in First..(First + Cap - 1) :
              pos # prod[p].pos => SlotOf(pos) # SlotOf(prod[p].pos)
         /\ SlotOf(prod[p].pos) \in Slot
<1>1. First \in Nat /\ enq \in Nat /\ Cap \in Nat /\ enq <= First + Cap
  BY FirstType, CapType DEF RingInv, Cells, Window
<1>2. ASSUME NEW q \in Producer, Claims(q) PROVE prod[q].pos \in First..(First + Cap - 1)
  <2>1. prod[q].pos \in Nat /\ First <= prod[q].pos /\ prod[q].pos < enq
    BY <1>2 DEF RingInv, Exclusive, Threads
  <2>2. QED
    BY <1>1, <2>1
<1>3. \A pos \in First..(First + Cap - 1) : pos # prod[p].pos => SlotOf(pos) # SlotOf(prod[p].pos)
  BY <1>1, <1>2, OwnSlot
<1>4. \A q \in Producer \ {p} : Claims(q) => prod[q].pos # prod[p].pos
  BY DEF RingInv, Exclusive
<1>5. SlotOf(prod[p].pos) \in Slot
  BY SlotType DEF RingInv, Threads
<1>6. QED
  BY <1>2, <1>3, <1>4, <1>5

LEMMA WriteStep ==
  ASSUME RingInv, NEW p \in Producer, Write(p)
  PROVE  Positions'
<1>1. /\ prod[p].pc = "write" /\ prod'[p].pc = "publish" /\ prod'[p].pos = prod[p].pos
      /\ \A q \in Producer \ {p} : prod'[q] = prod[q]
      /\ UNCHANGED <<seq, enq, deq, cons, pushes>>
      /\ val' = [val EXCEPT ![SlotOf(prod[p].pos)] = <<p, pushes[p]>>]
  BY DEF Write, RingInv, Threads
<1>2. First' = First /\ First \in Nat /\ enq \in Nat /\ Cap \in Nat /\ enq <= First + Cap
  BY <1>1, FirstType, CapType DEF First, RingInv, Cells, Window
<1>3. Claims(p) /\ \A q \in Producer : (Claims(q)' <=> Claims(q)) /\ prod'[q].pos = prod[q].pos
  BY <1>1 DEF Claims
<1>4. ASSUME NEW pos PROVE Unpublished(pos)' <=> Unpublished(pos)
  BY <1>3 DEF Unpublished
<1>5. Window'
  BY <1>1, <1>2, <1>4 DEF RingInv, Window
<1>6. Exclusive'
  BY <1>1, <1>2, <1>3 DEF RingInv, Exclusive
<1>7. Loads'
  BY <1>1, <1>2 DEF RingInv, Loads
<1>8. Marks'
  BY <1>1, <1>2, <1>4 DEF RingInv, Marks, Mark, SlotOf
<1>9. /\ \A q \in Producer \ {p} : Claims(q) => SlotOf(prod[q].pos) # SlotOf(prod[p].pos)
      /\ SlotOf(prod[p].pos) \in Slot
  BY <1>3, OthersElsewhere
<1>10. val'[SlotOf(prod[p].pos)] = <<p, pushes[p]>>
       /\ \A i \in Slot : i # SlotOf(prod[p].pos) => val'[i] = val[i]
  BY <1>1, <1>9 DEF RingInv, Cells
<1>11. <<p, pushes[p]>> \in Value
  BY <1>1, PushedValue
<1>12. Values'
  <2>1. ASSUME NEW q \in Producer, prod'[q].pc = "publish"
        PROVE  val'[SlotOf(prod'[q].pos)] = <<q, pushes'[q]>>
    <3>1. CASE q = p
      BY <1>1, <1>10, <3>1
    <3>2. CASE q # p
      <4>1. prod'[q] = prod[q] /\ prod[q].pos \in Nat /\ prod[q].pc = "publish"
        BY <1>1, <2>1, <3>2 DEF RingInv, Threads
      <4>2. SlotOf(prod[q].pos) # SlotOf(prod[p].pos) /\ SlotOf(prod[q].pos) \in Slot
        BY <1>9, <3>2, <4>1, SlotType DEF Claims
      <4>3. QED
        BY <1>1, <1>10, <4>1, <4>2 DEF RingInv, Values
    <3>3. QED
      BY <3>1, <3>2
  <2>2. ASSUME NEW pos \in First..(enq - 1)
        PROVE  Unpublished(pos)' \/ (cons'.pc = "free" /\ pos = deq') \/ val'[SlotOf(pos)] \in Value
    <3>1. SlotOf(pos) \in Slot
      BY <1>2, SlotType
    <3>2. val'[SlotOf(pos)] = val[SlotOf(pos)] \/ val'[SlotOf(pos)] \in Value
      BY <1>10, <1>11, <3>1
    <3>3. QED
      BY <1>1, <1>4, <3>2 DEF RingInv, Values
  <2>3. QED
    BY <1>1, <1>2, <2>1, <2>2 DEF RingInv, Values, SlotOf
<1>13. QED
  BY <1>5, <1>6, <1>7, <1>8, <1>12 DEF Positions

LEMMA PublishStep ==
  ASSUME RingInv, NEW p \in Producer, PublishSlot(p)
  PROVE  Positions'
<1>1. PICK w \in Nat : w = prod[p].pos
  BY DEF RingInv, Threads
<1>2. /\ prod[p].pc = "publish" /\ prod'[p].pc = "idle" /\ prod'[p].pos = w
      /\ \A q \in Producer \ {p} : prod'[q] = prod[q]
      /\ UNCHANGED <<val, enq, deq, cons, pushes>>
      /\ seq' = [seq EXCEPT ![SlotOf(w)] = w + 1]
  BY <1>1 DEF PublishSlot, RingInv, Threads
<1>3. First' = First /\ First \in Nat /\ enq \in Nat /\ Cap \in Nat /\ enq <= First + Cap
  BY <1>2, FirstType, CapType DEF First, RingInv, Cells, Window
<1>4. /\ w \in First..(First + Cap - 1) /\ w < enq
      /\ \A pos \in First..(First + Cap - 1) : pos # w => SlotOf(pos) # SlotOf(w)
      /\ SlotOf(w) \in Slot
  BY <1>1, <1>2, OthersElsewhere DEF Claims, RingInv, Exclusive
<1>5. Claims(p) /\ ~Claims(p)' /\ \A q \in Producer \ {p} : Claims(q)' <=> Claims(q)
  BY <1>2 DEF Claims
<1>6. \A q \in Producer \ {p} : Claims(q) => prod[q].pos # w
  BY <1>1, <1>5 DEF RingInv, Exclusive
<1>7. ASSUME NEW pos PROVE Unpublished(pos)' <=> Unpublished(pos) /\ pos # w
  BY <1>1, <1>2, <1>5, <1>6 DEF Unpublished
<1>8. Window'
  BY <1>2, <1>3, <1>7 DEF RingInv, Window
<1>9. Exclusive'
  BY <1>2, <1>3, <1>5 DEF RingInv, Exclusive
<1>10. Loads'
  BY <1>2, <1>3 DEF RingInv, Loads
<1>11. Marks'
  <2> SUFFICES ASSUME NEW pos \in First..(First + Cap - 1) PROVE seq'[SlotOf(pos)] = Mark(pos)'
    BY <1>3 DEF Marks, SlotOf
  <2>1. pos \in Nat /\ SlotOf(pos) \in Slot
    BY <1>3, SlotType
  <2>2. CASE pos = w
    <3>1. seq'[SlotOf(pos)] = w + 1
      BY <1>2, <1>4, <2>2 DEF RingInv, Cells
    <3>2. Mark(pos)' = w + 1
      BY <1>2, <1>4, <1>7, <2>2 DEF Mark
    <3>3. QED
      BY <3>1, <3>2
  <2>3. CASE pos # w
    <3>1. seq'[SlotOf(pos)] = seq[SlotOf(pos)]
      BY <1>2, <1>4, <2>1, <2>3 DEF RingInv, Cells
    <3>2. Mark(pos)' = Mark(pos)
      BY <1>2, <1>7, <2>3 DEF Mark
    <3>3. QED
      BY <3>1, <3>2 DEF RingInv, Marks
  <2>4. QED
    BY <2>2, <2>3
<1>12. Values'
  <2>1. ASSUME NEW q \in Producer, prod'[q].pc = "publish"
        PROVE  val'[SlotOf(prod'[q].pos)] = <<q, pushes'[q]>>
    <3>1. q # p
      BY <1>2, <2>1
    <3>2. QED
      BY <1>2, <2>1, <3>1 DEF RingInv, Values
  <2>2. val[SlotOf(w)] \in Value
    BY <1>1, <1>2, PushedValue DEF RingInv, Values
  <2>3. ASSUME NEW pos \in First..(enq - 1)
        PROVE  Unpublished(pos)' \/ (cons'.pc = "free" /\ pos = deq') \/ val'[SlotOf(pos)] \in Value
    BY <1>2, <1>7, <2>2 DEF RingInv, Values
  <2>4. QED
    BY <1>2, <1>3, <2>1, <2>3 DEF RingInv, Values, SlotOf
<1>13. QED
  BY <1>8, <1>9, <1>10, <1>11, <1>12 DEF Positions

-----------------------------------------------------------------------------
(* The consumer. *)

\* The producers stay where they are.
LEMMA ProducersStay ==
  ASSUME UNCHANGED prod
  PROVE  /\ \A p \in Producer : Claims(p)' <=> Claims(p)
         /\ \A pos : Unpublished(pos)' <=> Unpublished(pos)
  BY DEF Claims, Unpublished

LEMMA TryPopStep ==
  ASSUME RingInv, TryPop
  PROVE  Positions'
<1>1. /\ cons.pc = "idle" /\ cons'.pc = "read"
      /\ UNCHANGED <<seq, val, enq, deq, prod, pushes>>
  BY DEF TryPop, shared, RingInv, Threads
<1>2. First = deq /\ First' = First /\ First \in Nat /\ enq \in Nat /\ Cap \in Nat /\ Cap > 1
  BY <1>1, CapType DEF First, RingInv, Cells
<1>3. deq < enq /\ ~Unpublished(deq)
  <2>1. seq[SlotOf(deq)] = Mark(deq)
    BY <1>2 DEF RingInv, Marks
  <2>2. seq[SlotOf(deq)] \in Nat /\ seq[SlotOf(deq)] - (deq + 1) >= 0
    BY <1>2, SlotType DEF TryPop, Full, RingInv, Cells
  <2>3. QED
    BY <1>2, <2>1, <2>2 DEF Mark
<1>4. /\ \A p \in Producer : Claims(p)' <=> Claims(p)
      /\ \A pos : Unpublished(pos)' <=> Unpublished(pos)
  BY <1>1, ProducersStay
<1>5. Window'
  BY <1>1, <1>2, <1>3, <1>4 DEF RingInv, Window
<1>6. Exclusive' /\ Loads'
  BY <1>1, <1>2, <1>4 DEF RingInv, Exclusive, Loads
<1>7. Marks'
  BY <1>1, <1>2, <1>4 DEF RingInv, Marks, Mark, SlotOf
<1>8. Values'
  BY <1>1, <1>2, <1>4 DEF RingInv, Values, SlotOf
<1>9. QED
  BY <1>5, <1>6, <1>7, <1>8 DEF Positions

LEMMA ReadStep ==
  ASSUME RingInv, Read
  PROVE  Positions'
<1>1. /\ cons.pc = "read" /\ cons'.pc = "clear" /\ cons'.v = val[SlotOf(deq)]
      /\ UNCHANGED <<seq, val, enq, deq, prod, pushes>>
  BY DEF Read, shared
<1>2. First = deq /\ First' = First /\ val[SlotOf(deq)] \in Value
  BY <1>1, ReadValue DEF First
<1>3. /\ \A p \in Producer : Claims(p)' <=> Claims(p)
      /\ \A pos : Unpublished(pos)' <=> Unpublished(pos)
  BY <1>1, ProducersStay
<1>4. Window'
  BY <1>1, <1>2, <1>3 DEF RingInv, Window
<1>5. Exclusive' /\ Loads'
  BY <1>1, <1>2, <1>3 DEF RingInv, Exclusive, Loads
<1>6. Marks'
  BY <1>1, <1>2, <1>3 DEF RingInv, Marks, Mark, SlotOf
<1>7. Values'
  BY <1>1, <1>2, <1>3 DEF RingInv, Values, SlotOf
<1>8. QED
  BY <1>4, <1>5, <1>6, <1>7 DEF Positions

\* While the consumer holds deq nobody else is at its slot.
LEMMA ConsumerAlone ==
  ASSUME RingInv, cons.pc \in {"read", "clear", "free"}
  PROVE  /\ First = deq /\ deq \in First..(First + Cap - 1) /\ SlotOf(deq) \in Slot
         /\ \A pos \in First..(First + Cap - 1) : pos # deq => SlotOf(pos) # SlotOf(deq)
         /\ \A p \in Producer : Claims(p) => /\ prod[p].pos # deq
                                             /\ SlotOf(prod[p].pos) # SlotOf(deq)
                                             /\ SlotOf(prod[p].pos) \in Slot
<1>1. First = deq /\ deq \in Nat /\ Cap \in Nat /\ Cap > 1 /\ ~Unpublished(deq)
  BY CapType DEF First, RingInv, Cells, Window
<1>2. \A pos \in First..(First + Cap - 1) : pos # deq => SlotOf(pos) # SlotOf(deq)
  BY <1>1, OwnSlot
<1>3. ASSUME NEW p \in Producer, Claims(p)
      PROVE  prod[p].pos # deq /\ SlotOf(prod[p].pos) # SlotOf(deq) /\ SlotOf(prod[p].pos) \in Slot
  <2>1. prod[p].pos # deq
    BY <1>1, <1>3 DEF Unpublished
  <2>2. prod[p].pos \in First..(First + Cap - 1) /\ SlotOf(prod[p].pos) \in Slot
    BY <1>3, OthersElsewhere
  <2>3. QED
    BY <1>2, <2>1, <2>2
<1>4. QED
  BY <1>1, <1>2, <1>3, SlotType

LEMMA ClearStep ==
  ASSUME RingInv, Clear
  PROVE  Positions'
<1>1. /\ cons.pc = "clear" /\ cons'.pc = "free" /\ cons'.v = cons.v
      /\ UNCHANGED <<seq, enq, deq, prod, pushes>>
      /\ val' = [val EXCEPT ![SlotOf(deq)] = Zero]
  BY DEF Clear, RingInv, Threads
<1>2. /\ First = deq /\ First' = First /\ SlotOf(deq) \in Slot
      /\ \A pos \in First..(First + Cap - 1) : pos # deq => SlotOf(pos) # SlotOf(deq)
      /\ \A p \in Producer : Claims(p) => SlotOf(prod[p].pos) # SlotOf(deq) /\ SlotOf(prod[p].pos) \in Slot
  BY <1>1, ConsumerAlone DEF First
<1>3. /\ \A p \in Producer : Claims(p)' <=> Claims(p)
      /\ \A pos : Unpublished(pos)' <=> Unpublished(pos)
  BY <1>1, ProducersStay
<1>4. Window'
  BY <1>1, <1>2, <1>3 DEF RingInv, Window
<1>5. Exclusive' /\ Loads'
  BY <1>1, <1>2, <1>3 DEF RingInv, Exclusive, Loads
<1>6. Marks'
  BY <1>1, <1>2, <1>3 DEF RingInv, Marks, Mark, SlotOf
<1>7. \A i \in Slot : i # SlotOf(deq) => val'[i] = val[i]
  BY <1>1, <1>2 DEF RingInv, Cells
<1>8. Values'
  <2>1. ASSUME NEW q \in Producer, prod'[q].pc = "publish"
        PROVE  val'[SlotOf(prod'[q].pos)] = <<q, pushes'[q]>>
    <3>1. prod'[q] = prod[q] /\ Claims(q) /\ prod[q].pc = "publish"
      BY <1>1, <2>1 DEF Claims
    <3>2. QED
      BY <1>1, <1>2, <1>7, <3>1 DEF RingInv, Values
  <2>2. ASSUME NEW pos \in First..(enq - 1)
        PROVE  Unpublished(pos)' \/ (cons'.pc = "free" /\ pos = deq') \/ val'[SlotOf(pos)] \in Value
    <3>1. CASE pos = deq
      BY <1>1, <3>1
    <3>2. CASE pos # deq
      <4>1. pos \in First..(First + Cap - 1) /\ pos \in Nat
        BY FirstType, CapType DEF RingInv, Cells, Window
      <4>2. val'[SlotOf(pos)] = val[SlotOf(pos)]
        BY <1>2, <1>7, <3>2, <4>1, SlotType
      <4>3. QED
        BY <1>1, <1>3, <4>2 DEF RingInv, Values
    <3>3. QED
      BY <3>1, <3>2
  <2>3. QED
    BY <1>1, <1>2, <2>1, <2>2 DEF RingInv, Values, SlotOf
<1>9. QED
  BY <1>4, <1>5, <1>6, <1>8 DEF Positions

\* The slot of deq becomes that of the position a round later.
LEMMA FreeSlotStep ==
  ASSUME RingInv, FreeSlot
  PROVE  Positions'
<1>1. /\ cons.pc = "free" /\ cons'.pc = "advance" /\ cons'.v = cons.v
      /\ UNCHANGED <<val, enq, deq, prod, pushes>>
      /\ seq' = [seq EXCEPT ![SlotOf(deq)] = deq + Cap]
  BY DEF FreeSlot, NextRound, RingInv, Threads
<1>2. /\ First = deq /\ First' = deq + 1 /\ deq \in Nat /\ SlotOf(deq) \in Slot
      /\ Cap \in Nat /\ Cap > 1 /\ enq \in Nat /\ deq < enq /\ enq <= deq + Cap
      /\ \A pos \in First..(First + Cap - 1) : pos # deq => SlotOf(pos) # SlotOf(deq)
      /\ \A p \in Producer : Claims(p) => prod[p].pos # deq
  BY <1>1, ConsumerAlone, CapType DEF First, RingInv, Cells, Window
<1>3. /\ \A p \in Producer : Claims(p)' <=> Claims(p)
      /\ \A pos : Unpublished(pos)' <=> Unpublished(pos)
  BY <1>1, ProducersStay
<1>4. Window'
  BY <1>1, <1>2, <1>3 DEF Window
<1>5. Exclusive'
  BY <1>1, <1>2, <1>3 DEF RingInv, Exclusive, Threads
<1>6. Loads'
  BY <1>1, <1>2, <1>3 DEF RingInv, Loads, Threads
<1>7. Marks'
  <2>4. PICK f \in Nat : f = deq + 1 /\ f = First' /\ f + Cap - 1 = deq + Cap
    BY <1>2
  <2> SUFFICES ASSUME NEW pos \in (deq + 1)..(deq + Cap) PROVE seq'[SlotOf(pos)] = Mark(pos)'
    BY <2>4 DEF Marks, SlotOf
  <2>1. Mark(pos)' = Mark(pos)
    BY <1>1, <1>3 DEF Mark
  <2>2. CASE pos = deq + Cap
    <3>1. SlotOf(pos) = SlotOf(deq)
      BY <1>2, <2>2, NextRoundSlot
    <3>2. seq'[SlotOf(pos)] = pos
      BY <1>1, <1>2, <2>2, <3>1 DEF RingInv, Cells
    <3>3. Mark(pos) = pos
      BY <1>2, <2>2 DEF Mark
    <3>4. QED
      BY <2>1, <3>2, <3>3
  <2>3. CASE pos # deq + Cap
    <3>1. pos \in First..(First + Cap - 1) /\ pos # deq /\ pos \in Nat
      BY <1>2, <2>3
    <3>2. seq'[SlotOf(pos)] = seq[SlotOf(pos)]
      BY <1>1, <1>2, <3>1, SlotType DEF RingInv, Cells
    <3>3. QED
      BY <2>1, <3>1, <3>2 DEF RingInv, Marks
  <2>5. QED
    BY <2>2, <2>3
<1>8. Values'
  <2>1. \A q \in Producer : prod'[q].pc = "publish" => val'[SlotOf(prod'[q].pos)] = <<q, pushes'[q]>>
    BY <1>1 DEF RingInv, Values
  <2>2. ASSUME NEW pos \in (deq + 1)..(enq - 1)
        PROVE  Unpublished(pos)' \/ (cons'.pc = "free" /\ pos = deq') \/ val'[SlotOf(pos)] \in Value
    <3>1. pos \in First..(enq - 1) /\ pos # deq
      BY <1>2
    <3>2. QED
      BY <1>1, <1>3, <3>1 DEF RingInv, Values
  <2>3. cons'.v \in Value
    BY <1>1 DEF RingInv, Values
  <2>4. QED
    BY <1>1, <1>2, <2>1, <2>2, <2>3 DEF Values, SlotOf, Value
<1>9. QED
  BY <1>4, <1>5, <1>6, <1>7, <1>8 DEF Positions

LEMMA AdvanceStep ==
  ASSUME RingInv, Advance
  PROVE  Positions'
<1>1. /\ cons.pc = "advance" /\ cons'.pc = "idle" /\ deq' = deq + 1
      /\ UNCHANGED <<seq, val, enq, prod, pushes>>
  BY DEF Advance
<1>2. First = deq + 1 /\ First' = First
  BY <1>1 DEF First
<1>3. /\ \A p \in Producer : Claims(p)' <=> Claims(p)
      /\ \A pos : Unpublished(pos)' <=> Unpublished(pos)
  BY <1>1, ProducersStay
<1>4. Window'
  BY <1>1, <1>2 DEF RingInv, Window
<1>5. Exclusive' /\ Loads'
  BY <1>1, <1>2, <1>3 DEF RingInv, Exclusive, Loads
<1>6. Marks'
  BY <1>1, <1>2, <1>3 DEF RingInv, Marks, Mark, SlotOf
<1>7. Values'
  BY <1>1, <1>2, <1>3 DEF RingInv, Values, SlotOf
<1>8. QED
  BY <1>4, <1>5, <1>6, <1>7 DEF Positions

LEMMA StepInv == RingInv /\ [RingNext]_ringVars => RingInv'
<1> SUFFICES ASSUME RingInv, [RingNext]_ringVars PROVE RingInv'
  OBVIOUS
<1>1. ASSUME RingNext PROVE RingInv'
  <2>1. Cells' /\ Threads' /\ Calls' /\ Counted'
    BY <1>1, CellsStep, ThreadsStep, CallsStep
  <2>2. Positions'
    BY <1>1, TryPushStep, LoadStep, CheckSlotStep, ClaimStep, WriteStep, PublishStep,
       TryPopStep, ReadStep, ClearStep, FreeSlotStep, AdvanceStep
       DEF RingNext, Produces, Consumes
  <2>3. QED
    BY <2>1, <2>2 DEF RingInv, Positions
<1>2. ASSUME UNCHANGED ringVars PROVE RingInv'
  <2>1. UNCHANGED <<seq, val, enq, deq, prod, cons, pushes, popped, refused>>
    BY <1>2 DEF ringVars
  <2>2. /\ \A p \in Producer : Claims(p)' <=> Claims(p)
        /\ \A pos : Unpublished(pos)' <=> Unpublished(pos)
    BY <2>1, ProducersStay
  <2>3. First' = First
    BY <2>1 DEF First
  <2>4. Cells' /\ Threads' /\ Calls' /\ Counted'
    BY <2>1 DEF RingInv, Cells, Threads, Calls, Counted
  <2>5. Window' /\ Exclusive' /\ Loads'
    BY <2>1, <2>2, <2>3 DEF RingInv, Window, Exclusive, Loads
  <2>6. Marks'
    BY <2>1, <2>2, <2>3 DEF RingInv, Marks, Mark, SlotOf
  <2>7. Values'
    BY <2>1, <2>2, <2>3 DEF RingInv, Values, SlotOf
  <2>8. QED
    BY <2>4, <2>5, <2>6, <2>7 DEF RingInv
<1>3. QED
  BY <1>1, <1>2

LEMMA RingInvariant == RingSpec => []RingInv
  BY InitInv, StepInv, PTL DEF RingSpec

\* RingTypeOK holds in every reachable state: the numbers, the slots and the
\* steps of the goroutines are what the code declares.
THEOREM RingTypeCorrect == RingSpec => []RingTypeOK
<1>1. RingInv => RingTypeOK
  <2> SUFFICES ASSUME RingInv PROVE RingTypeOK
    OBVIOUS
  <2>1. ASSUME NEW p \in Producer PROVE refused[p] \in 0..MaxPush
    <3>1. refused[p] \in Nat /\ pushes[p] \in 0..MaxPush /\ refused[p] <= pushes[p] /\ MaxPush \in Nat
      BY RingBufAssumption DEF RingInv, Calls, Counted
    <3>2. QED
      BY <3>1
  <2>2. refused \in [Producer -> 0..MaxPush]
    BY <2>1 DEF RingInv, Calls
  <2>3. QED
    BY <2>2 DEF RingInv, Cells, Threads, Calls, RingTypeOK
<1>2. QED
  BY <1>1, RingInvariant, PTL

\* Nobody races for slot.val: two claims are of two positions of the window, whose
\* slots differ, and the consumer is only at a position that was published.
THEOREM NobodyRaces == RingSpec => []NoRace
<1>1. RingInv => NoRace
  <2> SUFFICES ASSUME RingInv, NEW p \in Producer, NEW i \in Slot, Writing(p, i)
               PROVE  /\ \A q \in Producer \ {p} : ~Writing(q, i)
                      /\ ~(cons.pc \in {"read", "clear"} /\ SlotOf(deq) = i)
    BY DEF NoRace
  <2>1. Claims(p)
    BY DEF Writing, Claims
  <2>2. \A q \in Producer \ {p} : ~Writing(q, i)
    BY <2>1, OthersElsewhere DEF Writing, Claims
  <2>3. ~(cons.pc \in {"read", "clear"} /\ SlotOf(deq) = i)
    BY <2>1, ConsumerAlone DEF Writing
  <2>4. QED
    BY <2>2, <2>3
<1>2. QED
  BY <1>1, RingInvariant, PTL

-----------------------------------------------------------------------------
(* The ring implements the queue of Fifo.tla. *)

\* What Abstract puts for the variables of Fifo.
Queue == [i \in 1..(enq - First) |-> EntryAt(First + i - 1)]
Handed == IF cons.pc = "advance" THEN Append(popped, cons.v) ELSE popped

Entries == [val : Value, ready : BOOLEAN]

\* A claimed position is taken and not ready.
ClaimedEntries ==
  \A p \in Producer : Claims(p) =>
    EntryAt(prod[p].pos) = [val |-> <<p, pushes[p]>>, ready |-> FALSE]

\* Any other is ready, with the value the consumer has read or will read.
ReadyEntries ==
  \A pos : ~Unpublished(pos) =>
    EntryAt(pos) = [val |-> IF cons.pc \in {"clear", "free"} /\ pos = deq
                            THEN cons.v ELSE val[SlotOf(pos)],
                    ready |-> TRUE]

LEMMA EntriesAre == Exclusive => ClaimedEntries /\ ReadyEntries
<1> SUFFICES ASSUME Exclusive PROVE ClaimedEntries /\ ReadyEntries
  OBVIOUS
<1>1. ASSUME NEW p \in Producer, Claims(p)
      PROVE  EntryAt(prod[p].pos) = [val |-> <<p, pushes[p]>>, ready |-> FALSE]
  <2>1. Claimant(prod[p].pos) = {p}
    BY <1>1 DEF Exclusive, Claimant, Claims
  <2>2. (CHOOSE q \in {p} : TRUE) = p
    OBVIOUS
  <2>3. QED
    BY <2>1, <2>2 DEF EntryAt
<1>2. ASSUME NEW pos, ~Unpublished(pos)
      PROVE  EntryAt(pos) = [val |-> IF cons.pc \in {"clear", "free"} /\ pos = deq
                                     THEN cons.v ELSE val[SlotOf(pos)],
                             ready |-> TRUE]
  <2>1. Claimant(pos) = {}
    BY <1>2 DEF Claimant, Unpublished, Claims
  <2>2. QED
    BY <2>1 DEF EntryAt
<1>3. QED
  BY <1>1, <1>2 DEF ClaimedEntries, ReadyEntries

LEMMA EntriesNext == Exclusive' => ClaimedEntries' /\ ReadyEntries'
  BY EntriesAre, PTL

LEMMA EntryType ==
  ASSUME RingInv, NEW pos \in First..(enq - 1)
  PROVE  EntryAt(pos) \in Entries
<1>1. ClaimedEntries /\ ReadyEntries
  BY EntriesAre DEF RingInv
<1>2. CASE Unpublished(pos)
  <2>1. PICK p \in Producer : Claims(p) /\ prod[p].pos = pos
    BY <1>2 DEF Unpublished
  <2>2. <<p, pushes[p]>> \in Value
    BY <2>1, PushedValue DEF Claims
  <2>3. PICK v \in Value : EntryAt(pos) = [val |-> v, ready |-> FALSE]
    BY <1>1, <2>1, <2>2 DEF ClaimedEntries
  <2>4. QED
    BY <2>3 DEF Entries
<1>3. CASE ~Unpublished(pos)
  <2>1. cons.pc \in {"clear", "free"} => cons.v \in Value
    BY DEF RingInv, Values
  <2>2. (cons.pc = "free" /\ pos = deq) \/ val[SlotOf(pos)] \in Value
    BY <1>3 DEF RingInv, Values
  <2>3. PICK v \in Value : EntryAt(pos) = [val |-> v, ready |-> TRUE]
    BY <1>1, <1>3, <2>1, <2>2 DEF ReadyEntries
  <2>4. QED
    BY <2>3 DEF Entries
<1>4. QED
  BY <1>2, <1>3

LEMMA QueueType ==
  ASSUME RingInv
  PROVE  /\ Queue \in Seq(Entries)
         /\ Len(Queue) = enq - First
         /\ enq - First \in Nat
         /\ \A i \in 1..(enq - First) : Queue[i] = EntryAt(First + i - 1)
<1>1. First \in Nat /\ enq \in Nat /\ First <= enq
  BY FirstType DEF RingInv, Cells, Window
<1>2. PICK n \in Nat : n = enq - First
  BY <1>1
<1>3. ASSUME NEW i \in 1..n PROVE EntryAt(First + i - 1) \in Entries
  <2>1. First + i - 1 \in First..(enq - 1)
    BY <1>1, <1>2
  <2>2. QED
    BY <2>1, EntryType
<1>4. Queue \in [1..n -> Entries]
  BY <1>2, <1>3 DEF Queue
<1>5. Queue \in Seq(Entries) /\ Len(Queue) = n
  BY <1>4
<1>6. QED
  BY <1>2, <1>5 DEF Queue

\* The queue, by positions.
QueueShape ==
  /\ Queue \in Seq(Entries) /\ Len(Queue) = enq - First
  /\ First \in Nat /\ enq \in Nat /\ First <= enq
  /\ \A pos \in First..(enq - 1) : Queue[pos - First + 1] = EntryAt(pos)

LEMMA ShapeOf == RingInv => QueueShape
<1> SUFFICES ASSUME RingInv PROVE QueueShape
  OBVIOUS
<1>1. First \in Nat /\ enq \in Nat /\ First <= enq
  BY FirstType DEF RingInv, Cells, Window
<1>2. Queue \in Seq(Entries) /\ Len(Queue) = enq - First
  BY QueueType
<1>3. ASSUME NEW pos \in First..(enq - 1) PROVE Queue[pos - First + 1] = EntryAt(pos)
  <2>1. PICK i \in Nat : i = pos - First + 1
    BY <1>1
  <2>2. i \in 1..(enq - First) /\ First + i - 1 = pos
    BY <1>1, <2>1
  <2>3. QED
    BY <2>1, <2>2, QueueType
<1>4. QED
  BY <1>1, <1>2, <1>3 DEF QueueShape

LEMMA ShapeNext == RingInv' => QueueShape'
  BY ShapeOf, PTL

\* Two queues with the same entries are the same.
LEMMA SameEntries ==
  ASSUME NEW s \in Seq(Entries), NEW t \in Seq(Entries), NEW f \in Nat, NEW e \in Nat, f <= e,
         Len(s) = e - f, Len(t) = e - f,
         \A pos \in f..(e - 1) : s[pos - f + 1] = t[pos - f + 1]
  PROVE  s = t
<1>1. ASSUME NEW i \in 1..Len(s) PROVE s[i] = t[i]
  <2>1. PICK pos \in Nat : pos = f + i - 1
    OBVIOUS
  <2>2. pos \in f..(e - 1) /\ pos - f + 1 = i
    BY <2>1
  <2>3. QED
    BY <2>2
<1>2. QED
  BY <1>1, SeqEqual

LEMMA QueueStays ==
  ASSUME RingInv, RingInv', First' = First, enq' = enq,
         \A pos \in First..(enq - 1) : EntryAt(pos)' = EntryAt(pos)
  PROVE  Queue' = Queue
<1>1. QueueShape /\ QueueShape'
  BY ShapeOf, ShapeNext
<1>2. /\ Queue \in Seq(Entries) /\ Queue' \in Seq(Entries) /\ First \in Nat /\ enq \in Nat
      /\ First <= enq /\ Len(Queue) = enq - First /\ Len(Queue') = enq - First
  BY <1>1 DEF QueueShape
<1>3. \A pos \in First..(enq - 1) : Queue'[pos - First + 1] = Queue[pos - First + 1]
  BY <1>1 DEF QueueShape
<1>4. QED
  BY <1>2, <1>3, SameEntries

\* The entries of a step that leaves the claims as they are.
LEMMA EntriesStay ==
  ASSUME RingInv, RingInv',
         \A pos : Unpublished(pos)' <=> Unpublished(pos),
         \A p \in Producer : Claims(p) =>
           Claims(p)' /\ prod'[p].pos = prod[p].pos /\ pushes'[p] = pushes[p],
         NEW pos, ~Unpublished(pos) => EntryAt(pos)' = EntryAt(pos)
  PROVE  EntryAt(pos)' = EntryAt(pos)
<1>1. CASE Unpublished(pos)
  <2>1. PICK p \in Producer : Claims(p) /\ prod[p].pos = pos
    BY <1>1 DEF Unpublished
  <2>2. EntryAt(pos) = [val |-> <<p, pushes[p]>>, ready |-> FALSE]
    BY <2>1, EntriesAre DEF ClaimedEntries, RingInv
  <2>3. EntryAt(pos)' = [val |-> <<p, pushes[p]>>, ready |-> FALSE]
    <3>1. ClaimedEntries'
      BY EntriesNext DEF RingInv
    <3>2. EntryAt(prod[p].pos)' = [val |-> <<p, pushes'[p]>>, ready |-> FALSE]
      BY <2>1, <3>1 DEF ClaimedEntries
    <3>3. QED
      BY <2>1, <3>2
  <2>4. QED
    BY <2>2, <2>3
<1>2. QED
  BY <1>1

\* Steps the abstract queue does not see.
LEMMA SilentProducer ==
  ASSUME RingInv, RingInv', NEW p \in Producer,
         TryPush(p) \/ Load(p) \/ CheckSlot(p) \/ (Claim(p) /\ ~Wins(p)) \/ Write(p)
  PROVE  UNCHANGED <<Queue, Handed>> /\ (CheckSlot(p) \/ UNCHANGED refused)
<1>1. /\ \A q \in Producer \ {p} : prod'[q] = prod[q] /\ pushes'[q] = pushes[q]
      /\ UNCHANGED <<enq, deq, cons, popped>> /\ (CheckSlot(p) \/ UNCHANGED refused)
  BY DEF TryPush, Load, CheckSlot, Claim, Write, shared, RingInv, Threads, Calls
<1>2. \/ ~Claims(p) /\ ~Claims(p)' /\ val' = val
      \/ /\ Claims(p) /\ Claims(p)' /\ prod'[p].pos = prod[p].pos /\ pushes'[p] = pushes[p]
         /\ val' = [val EXCEPT ![SlotOf(prod[p].pos)] = <<p, pushes[p]>>]
  BY DEF TryPush, Load, CheckSlot, Claim, Write, shared, RingInv, Threads, Calls, Claims
<1>3. First' = First
  BY <1>1 DEF First
<1>4. \A q \in Producer : Claims(q) =>
        Claims(q)' /\ prod'[q].pos = prod[q].pos /\ pushes'[q] = pushes[q]
  BY <1>1, <1>2 DEF Claims
<1>5. \A q \in Producer : Claims(q)' => Claims(q) /\ prod'[q].pos = prod[q].pos
  BY <1>1, <1>2 DEF Claims
<1>6. ASSUME NEW pos PROVE Unpublished(pos)' <=> Unpublished(pos)
  BY <1>4, <1>5 DEF Unpublished
<1>7. ASSUME NEW pos \in First..(enq - 1) PROVE EntryAt(pos)' = EntryAt(pos)
  <2>1. ASSUME ~Unpublished(pos) PROVE EntryAt(pos)' = EntryAt(pos)
    <3>1. val'[SlotOf(pos)] = val[SlotOf(pos)]
      <4>1. CASE ~Claims(p)
        BY <1>2, <4>1
      <4>2. CASE Claims(p)
        <5>1. pos # prod[p].pos
          BY <2>1, <4>2 DEF Unpublished
        <5>2. pos \in First..(First + Cap - 1) /\ pos \in Nat
          BY FirstType, CapType DEF RingInv, Cells, Window
        <5>3. SlotOf(pos) # SlotOf(prod[p].pos) /\ SlotOf(pos) \in Slot
          BY <4>2, <5>1, <5>2, OthersElsewhere, SlotType
        <5>4. QED
          BY <1>2, <4>2, <5>3 DEF RingInv, Cells
      <4>3. QED
        BY <4>1, <4>2
    <3>2. ~Unpublished(pos)'
      BY <1>6, <2>1
    <3>3. ReadyEntries /\ ReadyEntries'
      BY EntriesAre, EntriesNext DEF RingInv
    <3>4. EntryAt(pos) = [val |-> IF cons.pc \in {"clear", "free"} /\ pos = deq
                                  THEN cons.v ELSE val[SlotOf(pos)],
                          ready |-> TRUE]
      BY <2>1, <3>3 DEF ReadyEntries
    <3>5. EntryAt(pos)' = [val |-> IF cons'.pc \in {"clear", "free"} /\ pos = deq'
                                   THEN cons'.v ELSE val'[SlotOf(pos)],
                           ready |-> TRUE]
      BY <3>2, <3>3 DEF ReadyEntries, SlotOf
    <3>6. QED
      BY <1>1, <3>1, <3>4, <3>5
  <2>2. QED
    BY <1>4, <1>6, <2>1, EntriesStay
<1>8. Queue' = Queue
  BY <1>1, <1>3, <1>7, QueueStays
<1>9. Handed' = Handed
  BY <1>1 DEF Handed
<1>10. QED
  BY <1>1, <1>8, <1>9

LEMMA SilentConsumer ==
  ASSUME RingInv, RingInv', TryPop \/ Read \/ Clear \/ Advance
  PROVE  UNCHANGED <<Queue, Handed, refused>>
<1>1. UNCHANGED <<enq, prod, pushes, refused>>
  BY DEF TryPop, Read, Clear, Advance, shared
<1>2. First' = First
  BY DEF First, TryPop, Read, Clear, Advance, shared, RingInv, Threads
<1>3. Handed' = Handed
  <2>1. CASE TryPop \/ Read \/ Clear
    <3>1. cons.pc # "advance" /\ cons'.pc # "advance" /\ popped' = popped
      BY <2>1 DEF TryPop, Read, Clear, RingInv, Threads
    <3>2. QED
      BY <3>1 DEF Handed
  <2>2. CASE Advance
    <3>1. cons.pc = "advance" /\ cons'.pc = "idle" /\ popped' = Append(popped, cons.v)
      BY <2>2 DEF Advance
    <3>2. QED
      BY <3>1 DEF Handed
  <2>3. QED
    BY <2>1, <2>2
<1>4. /\ \A p \in Producer : Claims(p)' <=> Claims(p)
      /\ \A pos : Unpublished(pos)' <=> Unpublished(pos)
  BY <1>1, ProducersStay
<1>5. ASSUME NEW pos \in First..(enq - 1) PROVE EntryAt(pos)' = EntryAt(pos)
  <2>1. ASSUME ~Unpublished(pos) PROVE EntryAt(pos)' = EntryAt(pos)
    <3>1. ~Unpublished(pos)'
      BY <1>4, <2>1
    <3>2. ReadyEntries /\ ReadyEntries'
      BY EntriesAre, EntriesNext DEF RingInv
    <3>3. EntryAt(pos) = [val |-> IF cons.pc \in {"clear", "free"} /\ pos = deq
                                  THEN cons.v ELSE val[SlotOf(pos)],
                          ready |-> TRUE]
      BY <2>1, <3>2 DEF ReadyEntries
    <3>4. EntryAt(pos)' = [val |-> IF cons'.pc \in {"clear", "free"} /\ pos = deq'
                                   THEN cons'.v ELSE val'[SlotOf(pos)],
                           ready |-> TRUE]
      BY <3>1, <3>2 DEF ReadyEntries, SlotOf
    <3>5. CASE TryPop
      BY <3>3, <3>4, <3>5 DEF TryPop, shared, RingInv, Threads
    <3>6. CASE Read
      BY <3>3, <3>4, <3>6 DEF Read, shared
    <3>7. CASE Clear
      <4>1. cons.pc = "clear" /\ cons'.pc = "free" /\ cons'.v = cons.v /\ deq' = deq
        BY <3>7 DEF Clear, RingInv, Threads
      <4>2. CASE pos = deq
        BY <3>3, <3>4, <4>1, <4>2
      <4>3. CASE pos # deq
        <5>1. pos \in First..(First + Cap - 1) /\ pos \in Nat
          BY FirstType, CapType DEF RingInv, Cells, Window
        <5>2. SlotOf(pos) # SlotOf(deq) /\ SlotOf(pos) \in Slot
          BY <4>1, <4>3, <5>1, ConsumerAlone, SlotType
        <5>3. val'[SlotOf(pos)] = val[SlotOf(pos)]
          BY <3>7, <5>2 DEF Clear, RingInv, Cells
        <5>4. QED
          BY <3>3, <3>4, <4>1, <4>3, <5>3
      <4>4. QED
        BY <4>2, <4>3
    <3>8. CASE Advance
      <4>1. cons.pc = "advance" /\ cons'.pc = "idle" /\ val' = val
        BY <3>8 DEF Advance
      <4>2. QED
        BY <3>3, <3>4, <4>1
    <3>9. QED
      BY <3>5, <3>6, <3>7, <3>8
  <2>2. QED
    BY <1>1, <1>4, <2>1, EntriesStay
<1>6. Queue' = Queue
  BY <1>1, <1>2, <1>5, QueueStays
<1>7. QED
  BY <1>1, <1>3, <1>6

\* A winning claim takes the place behind the others.
LEMMA ClaimTakes ==
  ASSUME RingInv, RingInv', NEW p \in Producer, Claim(p), Wins(p)
  PROVE  /\ <<p, pushes[p]>> \in Value
         /\ Len(Queue) < Cap
         /\ Queue' = Append(Queue, [val |-> <<p, pushes[p]>>, ready |-> FALSE])
         /\ UNCHANGED <<Handed, refused>>
<1>1. /\ prod[p].pc = "claim" /\ prod[p].pos = enq
      /\ prod'[p].pc = "write" /\ prod'[p].pos = enq
      /\ enq' = enq + 1
      /\ \A q \in Producer \ {p} : prod'[q] = prod[q]
      /\ UNCHANGED <<seq, val, deq, cons, pushes, popped, refused>>
  BY DEF Claim, Wins, RingInv, Threads
<1>2. First' = First /\ First \in Nat /\ enq \in Nat /\ enq < First + Cap /\ Cap \in Nat
      /\ First <= enq
  BY <1>1, FirstType, CapType DEF First, RingInv, Loads, Cells, Window
<1>3. <<p, pushes[p]>> \in Value
  BY <1>1, PushedValue
<1>4. QueueShape /\ QueueShape'
  BY ShapeOf, ShapeNext
<1>5. Len(Queue) < Cap
  BY <1>2, <1>4 DEF QueueShape
<1>6. PICK e \in Entries : e = [val |-> <<p, pushes[p]>>, ready |-> FALSE]
  BY <1>3 DEF Entries
<1> PICK n \in Nat : n = enq
  BY <1>2
<1>7. EntryAt(n)' = e
  <2>1. ClaimedEntries' /\ Claims(p)'
    BY <1>1, EntriesNext DEF RingInv, Claims
  <2>2. \A pos : pos = prod'[p].pos => EntryAt(pos)' = [val |-> <<p, pushes'[p]>>, ready |-> FALSE]
    BY <2>1 DEF ClaimedEntries
  <2>3. QED
    BY <1>1, <1>6, <2>2
<1>8. ASSUME NEW pos \in First..(enq - 1) PROVE EntryAt(pos)' = EntryAt(pos)
  <2>1. pos # enq
    BY <1>2
  <2>2. /\ \A q \in Producer \ {p} : Claims(q)' <=> Claims(q)
        /\ ~Claims(p) /\ Claims(p)'
    BY <1>1 DEF Claims
  <2>3. Unpublished(pos)' <=> Unpublished(pos)
    BY <1>1, <2>1, <2>2 DEF Unpublished
  <2>4. ClaimedEntries /\ ClaimedEntries' /\ ReadyEntries /\ ReadyEntries'
    BY EntriesAre, EntriesNext DEF RingInv
  <2>5. CASE Unpublished(pos)
    <3>1. PICK q \in Producer : Claims(q) /\ prod[q].pos = pos
      BY <2>5 DEF Unpublished
    <3>2. q # p /\ Claims(q)' /\ prod'[q].pos = pos
      BY <1>1, <2>2, <3>1
    <3>3. EntryAt(pos) = [val |-> <<q, pushes[q]>>, ready |-> FALSE]
      BY <2>4, <3>1 DEF ClaimedEntries
    <3>4. EntryAt(pos)' = [val |-> <<q, pushes'[q]>>, ready |-> FALSE]
      BY <2>4, <3>2 DEF ClaimedEntries
    <3>5. QED
      BY <1>1, <3>3, <3>4
  <2>6. CASE ~Unpublished(pos)
    <3>1. EntryAt(pos) = [val |-> IF cons.pc \in {"clear", "free"} /\ pos = deq
                                  THEN cons.v ELSE val[SlotOf(pos)],
                          ready |-> TRUE]
      BY <2>4, <2>6 DEF ReadyEntries
    <3>2. EntryAt(pos)' = [val |-> IF cons'.pc \in {"clear", "free"} /\ pos = deq'
                                   THEN cons'.v ELSE val'[SlotOf(pos)],
                           ready |-> TRUE]
      BY <2>3, <2>4, <2>6 DEF ReadyEntries, SlotOf
    <3>3. QED
      BY <1>1, <3>1, <3>2
  <2>7. QED
    BY <2>5, <2>6
<1>9. Queue' = Append(Queue, e)
  <2>1. PICK t \in Seq(Entries) : t = Append(Queue, e)
    BY <1>4, AppendProperties DEF QueueShape
  <2>2. /\ Len(t) = Len(Queue) + 1
        /\ \A i \in 1..Len(Queue) : t[i] = Queue[i]
        /\ t[Len(Queue) + 1] = e
    <3>1. Queue \in Seq(Entries) /\ e \in Entries
      BY <1>4 DEF QueueShape
    <3>2. PICK u : u = Queue
      OBVIOUS
    <3>3. u \in Seq(Entries) /\ t = Append(u, e)
      BY <2>1, <3>1, <3>2
    <3>4. Len(t) = Len(u) + 1 /\ t[Len(u) + 1] = e
      BY <3>1, <3>3, AppendProperties
    <3>5. \A i \in 1..Len(u) : t[i] = u[i]
      BY <3>1, <3>3, AppendProperties
    <3>6. QED
      BY <3>2, <3>4, <3>5
  <2> PICK m \in Nat : m = enq + 1
    BY <1>2
  <2>3. Queue' \in Seq(Entries) /\ Len(Queue') = m - First /\ Len(t) = m - First /\ First <= m
    <3>1. Len(Queue) = enq - First /\ Len(t) = Len(Queue) + 1 /\ First <= enq /\ First \in Nat /\ enq \in Nat
      BY <1>2, <1>4, <2>2 DEF QueueShape
    <3>2. Len(t) = m - First /\ First <= m
      BY <3>1
    <3>3. Queue' \in Seq(Entries) /\ Len(Queue') = enq' - First'
      BY <1>4 DEF QueueShape
    <3>4. enq' - First' = m - First
      BY <1>1, <1>2
    <3>5. QED
      BY <3>2, <3>3, <3>4
  <2>4. ASSUME NEW pos \in First..(m - 1) PROVE Queue'[pos - First + 1] = t[pos - First + 1]
    <3>1. Queue'[pos - First + 1] = EntryAt(pos)'
      BY <1>1, <1>2, <1>4 DEF QueueShape
    <3>2. CASE pos = enq
      <4>1. pos - First + 1 = Len(Queue) + 1
        BY <1>2, <1>4, <3>2 DEF QueueShape
      <4>2. EntryAt(pos)' = e
        BY <1>1, <1>7, <3>2
      <4>3. QED
        BY <2>2, <3>1, <4>1, <4>2
    <3>3. CASE pos # enq
      <4>1. pos \in First..(enq - 1) /\ pos - First + 1 \in 1..Len(Queue)
        BY <1>2, <1>4, <3>3 DEF QueueShape
      <4>2. t[pos - First + 1] = EntryAt(pos)
        BY <1>4, <2>2, <4>1 DEF QueueShape
      <4>3. QED
        BY <1>8, <3>1, <4>1, <4>2
    <3>4. QED
      BY <3>2, <3>3
  <2>5. Queue' = t
    BY <1>2, <1>4, <2>1, <2>3, <2>4, SameEntries DEF QueueShape
  <2>6. QED
    BY <2>1, <2>5
<1>10. Handed' = Handed
  BY <1>1 DEF Handed
<1>11. QED
  BY <1>1, <1>3, <1>5, <1>6, <1>9, <1>10

LEMMA MadeReady ==
  ASSUME NEW v, NEW x, NEW y, NEW r, r = [val |-> v, ready |-> x]
  PROVE  [r EXCEPT !.ready = y] = [val |-> v, ready |-> y]
<1> DEFINE t == [r EXCEPT !.ready = y]
<1>1. t \in [val : {v}, ready : {y}]
  OBVIOUS
<1> HIDE DEF t
<1>2. t = [val |-> v, ready |-> y]
  BY <1>1
<1>3. QED
  BY <1>2 DEF t

\* Publishing makes the entry of the claim ready.
LEMMA PublishReadies ==
  ASSUME RingInv, RingInv', NEW p \in Producer, PublishSlot(p)
  PROVE  /\ \E i \in 1..Len(Queue) :
              /\ ~Queue[i].ready
              /\ Queue' = [Queue EXCEPT ![i].ready = TRUE]
         /\ UNCHANGED <<Handed, refused>>
<1>1. PICK w \in Nat : w = prod[p].pos
  BY DEF RingInv, Threads
<1>2. /\ prod[p].pc = "publish" /\ prod'[p].pc = "idle"
      /\ \A q \in Producer \ {p} : prod'[q] = prod[q]
      /\ UNCHANGED <<val, enq, deq, cons, pushes, popped, refused>>
  BY DEF PublishSlot, RingInv, Threads
<1>3. First' = First /\ First \in Nat /\ enq \in Nat /\ w \in First..(enq - 1)
  BY <1>1, <1>2, FirstType DEF First, RingInv, Cells, Exclusive, Claims
<1>4. Claims(p) /\ ~Claims(p)' /\ \A q \in Producer \ {p} : Claims(q)' <=> Claims(q)
  BY <1>2 DEF Claims
<1>5. ASSUME NEW pos PROVE Unpublished(pos)' <=> Unpublished(pos) /\ pos # w
  <2>1. \A q \in Producer \ {p} : Claims(q) => prod[q].pos # w
    BY <1>1, <1>4 DEF RingInv, Exclusive
  <2>2. QED
    BY <1>1, <1>2, <1>4, <2>1 DEF Unpublished
<1>6. QueueShape /\ QueueShape'
  BY ShapeOf, ShapeNext
<1>7. ClaimedEntries /\ ClaimedEntries' /\ ReadyEntries /\ ReadyEntries'
  BY EntriesAre, EntriesNext DEF RingInv
<1>8. PICK v \in Value : v = <<p, pushes[p]>>
  BY <1>2, PushedValue
<1>9. EntryAt(w) = [val |-> v, ready |-> FALSE]
  BY <1>1, <1>4, <1>7, <1>8 DEF ClaimedEntries
<1>10. EntryAt(w)' = [val |-> v, ready |-> TRUE]
  <2>1. EntryAt(w)' = [val |-> IF cons'.pc \in {"clear", "free"} /\ w = deq'
                               THEN cons'.v ELSE val'[SlotOf(w)],
                       ready |-> TRUE]
    BY <1>5, <1>7 DEF ReadyEntries, SlotOf
  <2>2. ~(cons.pc \in {"clear", "free"} /\ w = deq)
    BY <1>1, <1>4, ConsumerAlone
  <2>3. val[SlotOf(w)] = v
    BY <1>1, <1>2, <1>8 DEF RingInv, Values
  <2>4. QED
    BY <1>2, <2>1, <2>2, <2>3 DEF SlotOf
<1>11. ASSUME NEW pos \in First..(enq - 1), pos # w PROVE EntryAt(pos)' = EntryAt(pos)
  <2>1. CASE Unpublished(pos)
    <3>1. PICK q \in Producer : Claims(q) /\ prod[q].pos = pos
      BY <2>1 DEF Unpublished
    <3>2. q # p /\ Claims(q)' /\ prod'[q].pos = pos
      BY <1>1, <1>2, <1>4, <1>11, <3>1
    <3>3. EntryAt(pos) = [val |-> <<q, pushes[q]>>, ready |-> FALSE]
      BY <1>7, <3>1 DEF ClaimedEntries
    <3>4. EntryAt(pos)' = [val |-> <<q, pushes'[q]>>, ready |-> FALSE]
      BY <1>7, <3>2 DEF ClaimedEntries
    <3>5. QED
      BY <1>2, <3>3, <3>4
  <2>2. CASE ~Unpublished(pos)
    <3>1. EntryAt(pos) = [val |-> IF cons.pc \in {"clear", "free"} /\ pos = deq
                                  THEN cons.v ELSE val[SlotOf(pos)],
                          ready |-> TRUE]
      BY <1>7, <2>2 DEF ReadyEntries
    <3>2. EntryAt(pos)' = [val |-> IF cons'.pc \in {"clear", "free"} /\ pos = deq'
                                   THEN cons'.v ELSE val'[SlotOf(pos)],
                           ready |-> TRUE]
      BY <1>5, <1>7, <2>2 DEF ReadyEntries, SlotOf
    <3>3. QED
      BY <1>2, <3>1, <3>2
  <2>3. QED
    BY <2>1, <2>2
<1>12. PICK i \in Nat : i = w - First + 1
  BY <1>3
<1>13. i \in 1..Len(Queue) /\ Queue[i] = [val |-> v, ready |-> FALSE]
  <2>1. i \in 1..Len(Queue)
    BY <1>3, <1>6, <1>12 DEF QueueShape
  <2>2. Queue[w - First + 1] = EntryAt(w)
    BY <1>3, <1>6 DEF QueueShape
  <2>3. QED
    BY <1>9, <1>12, <2>1, <2>2
<1>14. PICK e \in Entries : e = [val |-> v, ready |-> TRUE]
  BY DEF Entries
<1>15. PICK t : t = [Queue EXCEPT ![i] = e]
  OBVIOUS
<1>16. /\ t \in Seq(Entries) /\ Len(t) = Len(Queue)
       /\ \A j \in 1..Len(Queue) : t[j] = IF j = i THEN e ELSE Queue[j]
  BY <1>6, <1>13, <1>15, ExceptSeq DEF QueueShape
<1>17. Queue' = t
  <2>1. ASSUME NEW pos \in First..(enq - 1) PROVE Queue'[pos - First + 1] = t[pos - First + 1]
    <3>1. Queue'[pos - First + 1] = EntryAt(pos)' /\ Queue[pos - First + 1] = EntryAt(pos)
      BY <1>2, <1>3, <1>6 DEF QueueShape
    <3>2. pos - First + 1 \in 1..Len(Queue)
      BY <1>3, <1>6 DEF QueueShape
    <3>3. CASE pos = w
      <4>1. pos - First + 1 = i
        BY <1>12, <3>3
      <4>2. EntryAt(pos)' = e
        BY <1>10, <1>14, <3>3
      <4>3. QED
        BY <1>16, <3>1, <3>2, <4>1, <4>2
    <3>4. CASE pos # w
      <4>1. pos - First + 1 # i
        BY <1>3, <1>12, <3>4
      <4>2. QED
        BY <1>11, <1>16, <3>1, <3>2, <3>4, <4>1
    <3>5. QED
      BY <3>3, <3>4
  <2>2. /\ Queue' \in Seq(Entries) /\ t \in Seq(Entries) /\ First \in Nat /\ enq \in Nat /\ First <= enq
        /\ Len(Queue') = enq - First /\ Len(t) = enq - First
    BY <1>2, <1>3, <1>6, <1>16 DEF QueueShape
  <2>3. QED
    BY <2>1, <2>2, SameEntries
<1>18. ~Queue[i].ready
  BY <1>13
<1>19. e = [Queue[i] EXCEPT !.ready = TRUE]
  <2>1. PICK r : r = Queue[i]
    OBVIOUS
  <2>2. PICK x : x = FALSE
    OBVIOUS
  <2>3. PICK y : y = TRUE
    OBVIOUS
  <2>4. r = [val |-> v, ready |-> x]
    BY <1>13, <2>1, <2>2
  <2>5. [r EXCEPT !.ready = y] = [val |-> v, ready |-> y]
    BY <2>4, MadeReady
  <2>6. QED
    BY <1>14, <2>1, <2>3, <2>5
<1>20. Queue' = [Queue EXCEPT ![i].ready = TRUE]
  BY <1>15, <1>17, <1>19
<1>21. UNCHANGED <<Handed, refused>>
  BY <1>2 DEF Handed
<1>22. QED
  BY <1>13, <1>18, <1>20, <1>21

\* A push is refused only when the queue is full: its position is a round ahead of
\* that of the slot's owner, which is then the first of the window.
LEMMA RefusedWhenFull ==
  ASSUME RingInv, NEW p \in Producer, CheckSlot(p), refused' # refused
  PROVE  /\ Len(Queue) = Cap
         /\ refused' = [refused EXCEPT ![p] = @ + 1]
<1>1. PICK w \in Nat : w = prod[p].pos
  BY DEF RingInv, Threads
<1>2. /\ seq[SlotOf(w)] - w < 0 /\ prod[p].pc = "check"
      /\ refused' = [refused EXCEPT ![p] = @ + 1]
  BY <1>1 DEF CheckSlot
<1>3. First \in Nat /\ enq \in Nat /\ Cap \in Nat /\ Cap > 1 /\ enq <= First + Cap
  BY FirstType, CapType DEF RingInv, Cells, Window
<1>4. PICK q \in First..(First + Cap - 1) : SlotOf(q) = SlotOf(w)
  BY <1>3, SlotType, Covered
<1>5. seq[SlotOf(w)] = Mark(q) /\ q \in Nat
  BY <1>3, <1>4 DEF RingInv, Marks
<1>6. q < w
  BY <1>2, <1>5 DEF Mark
<1>7. q + Cap <= w
  <2>1. ~(w < q + Cap)
    BY <1>3, <1>4, <1>5, <1>6, SlotsDiffer
  <2>2. QED
    BY <1>3, <1>5, <2>1
<1>8. w <= enq
  BY <1>1, <1>2 DEF RingInv, Loads
<1>9. enq = First + Cap
  BY <1>3, <1>4, <1>7, <1>8
<1>10. QueueShape
  BY ShapeOf
<1>11. Len(Queue) = Cap
  BY <1>3, <1>9, <1>10 DEF QueueShape
<1>12. QED
  BY <1>2, <1>11

\* Freeing its slot hands over the oldest entry, which is ready.
LEMMA FreePops ==
  ASSUME RingInv, RingInv', FreeSlot
  PROVE  /\ Queue # <<>> /\ Head(Queue).ready
         /\ Handed' = Append(Handed, Head(Queue).val)
         /\ Queue' = Tail(Queue)
         /\ UNCHANGED refused
<1>1. /\ cons.pc = "free" /\ cons'.pc = "advance" /\ cons'.v = cons.v
      /\ UNCHANGED <<val, enq, deq, prod, pushes, popped, refused>>
  BY DEF FreeSlot, RingInv, Threads
<1>2. PICK f \in Nat : f = deq
  BY DEF RingInv, Cells
<1>3. /\ First = f /\ First' = f + 1 /\ enq \in Nat /\ f < enq
      /\ ~Unpublished(f)
  BY <1>1, <1>2 DEF First, RingInv, Cells, Window
<1>4. QueueShape /\ QueueShape'
  BY ShapeOf, ShapeNext
<1>5. ClaimedEntries /\ ClaimedEntries' /\ ReadyEntries /\ ReadyEntries'
  BY EntriesAre, EntriesNext DEF RingInv
<1>6. /\ \A q \in Producer : Claims(q)' <=> Claims(q)
      /\ \A pos : Unpublished(pos)' <=> Unpublished(pos)
  BY <1>1, ProducersStay
<1>7. EntryAt(f) = [val |-> cons.v, ready |-> TRUE]
  BY <1>1, <1>2, <1>3, <1>5 DEF ReadyEntries
<1>8. Queue \in Seq(Entries) /\ Len(Queue) = enq - f /\ Queue[1] = EntryAt(f)
  <2>1. Queue[f - f + 1] = EntryAt(f)
    BY <1>3, <1>4 DEF QueueShape
  <2>2. QED
    BY <1>3, <1>4, <2>1 DEF QueueShape
<1>9. Queue # <<>>
  BY <1>3, <1>8, EmptySeq
<1>10. Head(Queue) = [val |-> cons.v, ready |-> TRUE]
  BY <1>7, <1>8
<1>11. Head(Queue).ready /\ Head(Queue).val = cons.v
  BY <1>10
<1>12. Handed' = Append(Handed, Head(Queue).val)
  BY <1>1, <1>11 DEF Handed
<1>13. ASSUME NEW pos \in (f + 1)..(enq - 1) PROVE EntryAt(pos)' = EntryAt(pos)
  <2>1. CASE Unpublished(pos)
    <3>1. PICK q \in Producer : Claims(q) /\ prod[q].pos = pos
      BY <2>1 DEF Unpublished
    <3>2. Claims(q)' /\ prod'[q].pos = pos
      BY <1>1, <1>6, <3>1
    <3>3. EntryAt(pos) = [val |-> <<q, pushes[q]>>, ready |-> FALSE]
      BY <1>5, <3>1 DEF ClaimedEntries
    <3>4. EntryAt(pos)' = [val |-> <<q, pushes'[q]>>, ready |-> FALSE]
      BY <1>5, <3>2 DEF ClaimedEntries
    <3>5. QED
      BY <1>1, <3>3, <3>4
  <2>2. CASE ~Unpublished(pos)
    <3>1. EntryAt(pos) = [val |-> IF cons.pc \in {"clear", "free"} /\ pos = deq
                                  THEN cons.v ELSE val[SlotOf(pos)],
                          ready |-> TRUE]
      BY <1>5, <2>2 DEF ReadyEntries
    <3>2. EntryAt(pos)' = [val |-> IF cons'.pc \in {"clear", "free"} /\ pos = deq'
                                   THEN cons'.v ELSE val'[SlotOf(pos)],
                           ready |-> TRUE]
      BY <1>5, <1>6, <2>2 DEF ReadyEntries, SlotOf
    <3>3. pos # deq
      BY <1>2
    <3>4. QED
      BY <1>1, <3>1, <3>2, <3>3
  <2>3. QED
    BY <2>1, <2>2
<1>14. Queue' = Tail(Queue)
  <2>1. PICK t : t = Tail(Queue)
    OBVIOUS
  <2>2. /\ t \in Seq(Entries) /\ Len(t) = Len(Queue) - 1
        /\ \A i \in 1..Len(t) : t[i] = Queue[i + 1]
    BY <1>8, <1>9, <2>1, HeadTailProperties
  <2>3. PICK g \in Nat : g = f + 1
    OBVIOUS
  <2>4. ASSUME NEW pos \in g..(enq - 1) PROVE Queue'[pos - g + 1] = t[pos - g + 1]
    <3>1. Queue'[pos - g + 1] = EntryAt(pos)'
      BY <1>1, <1>3, <1>4, <2>3 DEF QueueShape
    <3>2. Queue[pos - f + 1] = EntryAt(pos)
      BY <1>3, <1>4, <2>3 DEF QueueShape
    <3>3. pos - g + 1 \in 1..Len(t) /\ (pos - g + 1) + 1 = pos - f + 1
      <4>1. PICK l \in Nat : l = Len(t) /\ l = enq - g
        <5>1. enq - f - 1 \in Nat /\ enq - f - 1 = enq - g
          BY <1>3, <2>3
        <5>2. Len(t) = enq - f - 1
          BY <1>8, <2>2
        <5>3. QED
          BY <5>1, <5>2
      <4>2. pos - g + 1 >= 1 /\ pos - g + 1 <= l /\ pos - g + 1 \in Int
        BY <1>3, <2>3, <4>1
      <4>3. (pos - g + 1) + 1 = pos - f + 1
        BY <1>3, <2>3
      <4>4. QED
        BY <4>1, <4>2, <4>3
    <3>4. t[pos - g + 1] = Queue[pos - f + 1]
      BY <2>2, <3>3
    <3>5. QED
      BY <1>13, <2>3, <3>1, <3>2, <3>4
  <2>5. Queue' \in Seq(Entries) /\ Len(Queue') = enq - g /\ Len(t) = enq - g /\ g <= enq
    BY <1>1, <1>3, <1>4, <1>8, <2>2, <2>3 DEF QueueShape
  <2>6. Queue' = t
    BY <1>3, <2>2, <2>4, <2>5, SameEntries
  <2>7. QED
    BY <2>1, <2>6
<1>15. QED
  BY <1>1, <1>9, <1>11, <1>12, <1>14

\* The initial ring is the empty queue.
LEMMA InitIsEmpty == RingInit => Abstract!Init
<1> SUFFICES ASSUME RingInit PROVE Abstract!Init
  OBVIOUS
<1>1. enq = 0 /\ First = 0 /\ cons.pc = "idle" /\ popped = <<>> /\ refused = [p \in Producer |-> 0]
  BY DEF RingInit, First
<1>2. QueueShape
  BY InitInv, ShapeOf
<1>3. Queue = <<>>
  BY <1>1, <1>2, EmptySeq DEF QueueShape
<1>4. Handed = <<>>
  BY <1>1 DEF Handed
<1>5. QED
  BY <1>1, <1>3, <1>4 DEF Abstract!Init, Queue, Handed

\* Every step of the ring is one of the queue or none.
LEMMA StepIsQueueStep ==
  RingInv /\ RingInv' /\ [RingNext]_ringVars
    => [Abstract!Next]_<<Queue, Handed, refused>>
<1> SUFFICES ASSUME RingInv, RingInv', [RingNext]_ringVars
             PROVE  Abstract!Next \/ UNCHANGED <<Queue, Handed, refused>>
  OBVIOUS
<1>1. ASSUME NEW p \in Producer, TryPush(p) \/ Produces(p)
      PROVE  Abstract!Next \/ UNCHANGED <<Queue, Handed, refused>>
  <2>1. CASE TryPush(p) \/ Load(p) \/ Write(p)
    <3>1. UNCHANGED refused
      BY <2>1 DEF TryPush, Load, Write
    <3>2. QED
      BY <2>1, <3>1, SilentProducer
  <2>2. CASE CheckSlot(p)
    <3>1. CASE refused' = refused
      BY <2>2, <3>1, SilentProducer
    <3>2. CASE refused' # refused
      <4>1. Len(Queue) = Cap /\ refused' = [refused EXCEPT ![p] = @ + 1]
        BY <2>2, <3>2, RefusedWhenFull
      <4>2. UNCHANGED <<Queue, Handed>>
        BY <2>2, SilentProducer
      <4>3. Abstract!Refuse(p)
        BY <4>1, <4>2 DEF Abstract!Refuse, Queue, Handed
      <4>4. QED
        BY <4>3 DEF Abstract!Next
    <3>3. QED
      BY <3>1, <3>2
  <2>3. CASE Claim(p)
    <3>1. CASE Wins(p)
      <4>1. Abstract!Take(<<p, pushes[p]>>) /\ <<p, pushes[p]>> \in Value
        BY <2>3, <3>1, ClaimTakes DEF Abstract!Take, Queue, Handed
      <4>2. QED
        BY <4>1 DEF Abstract!Next
    <3>2. CASE ~Wins(p)
      <4>1. UNCHANGED refused
        BY <2>3 DEF Claim
      <4>2. QED
        BY <2>3, <3>2, <4>1, SilentProducer
    <3>3. QED
      BY <3>1, <3>2
  <2>4. CASE PublishSlot(p)
    <3>1. PICK i \in 1..Len(Queue) : /\ ~Queue[i].ready
                                     /\ Queue' = [Queue EXCEPT ![i].ready = TRUE]
                                     /\ UNCHANGED <<Handed, refused>>
      BY <2>4, PublishReadies
    <3>2. Abstract!Publish(i)
      BY <3>1 DEF Abstract!Publish, Queue, Handed
    <3>3. QED
      BY <3>1, <3>2 DEF Abstract!Next, Queue
  <2>5. QED
    BY <1>1, <2>1, <2>2, <2>3, <2>4 DEF Produces
<1>2. ASSUME Consumes PROVE Abstract!Next \/ UNCHANGED <<Queue, Handed, refused>>
  <2>1. CASE TryPop \/ Read \/ Clear \/ Advance
    BY <2>1, SilentConsumer
  <2>2. CASE FreeSlot
    <3>1. Abstract!Pop
      BY <2>2, FreePops DEF Abstract!Pop, Queue, Handed
    <3>2. QED
      BY <3>1 DEF Abstract!Next
  <2>3. QED
    BY <1>2, <2>1, <2>2 DEF Consumes
<1>3. ASSUME UNCHANGED ringVars PROVE UNCHANGED <<Queue, Handed, refused>>
  <2>1. UNCHANGED <<seq, val, enq, deq, prod, cons, pushes, popped, refused>>
    BY <1>3 DEF ringVars
  <2>2. First' = First /\ Handed' = Handed
    BY <2>1 DEF First, Handed
  <2>3. ASSUME NEW pos PROVE EntryAt(pos)' = EntryAt(pos)
    <3>1. Claimant(pos)' = Claimant(pos)
      BY <2>1 DEF Claimant
    <3>2. QED
      BY <2>1, <3>1 DEF EntryAt, SlotOf
  <2>4. QED
    BY <2>1, <2>2, <2>3, QueueStays
<1>4. QED
  BY <1>1, <1>2, <1>3 DEF RingNext

\* The ring is the queue of Fifo.tla: values come out once, in the order of the
\* claims and never before they are published, at most Cap are in it, and TryPush
\* returns FALSE only when Cap are.
THEOREM RingIsFifo == RingSpec => IsFifo
<1>1. RingInv /\ RingInv' /\ [RingNext]_ringVars => [Abstract!Next]_<<Queue, Handed, refused>>
  BY StepIsQueueStep
<1>2. RingInit => Abstract!Init
  BY InitIsEmpty
<1>3. QED
  BY <1>1, <1>2, RingInvariant, PTL DEF RingSpec, IsFifo, Abstract!Spec, Queue, Handed

-----------------------------------------------------------------------------
(* The queue of an arena's commands (Arena.tla). *)

QueuedCommand == [player : Player, kind : Kind, at : Nat]

\* Every tick takes MaxDrain commands off the head, and those behind move up: the i-th
\* has waited as long as its way from the end of the queue has taken, at most.
Advances(q, t) ==
  \A i \in 1..Len(q) : q[i].at <= t /\ i + MaxDrain * (t - q[i].at) <= InputCapacity

QueueInv == inputs \in Seq(QueuedCommand) /\ tick \in Nat /\ Advances(inputs, tick)

LEMMA ArenaConstants == MaxDrain \in Nat \ {0} /\ InputCapacity \in Nat \ {0}
  BY ArenaAssumption

LEMMA TimesNext ==
  ASSUME NEW m \in Nat, NEW w \in Nat
  PROVE  m * (w + 1) = m * w + m /\ m * w \in Int
  OBVIOUS

LEMMA SmallerOf ==
  ASSUME NEW a \in Nat, NEW b \in Nat
  PROVE  Min({a, b}) = IF a <= b THEN a ELSE b
<1>1. PICK m \in {a, b} : m = IF a <= b THEN a ELSE b
  OBVIOUS
<1>2. \A x \in {a, b} : (\A y \in {a, b} : x <= y) <=> x = m
  BY <1>1
<1>3. QED
  BY <1>1, <1>2 DEF Min

\* A command that is queued has the whole queue before it, at most.
LEMMA PushAdvances ==
  ASSUME QueueInv, NEW p \in Player, NEW kind \in Kind, PushInput(p, kind), tick' = tick
  PROVE  QueueInv'
<1>1. PICK n \in Nat : n = Len(inputs)
  BY DEF QueueInv
<1>2. PICK q \in Seq(QueuedCommand) : q = inputs /\ Advances(q, tick)
  BY DEF QueueInv
<1>3. CASE n < InputCapacity
  <2>1. PICK c \in QueuedCommand : c = [player |-> p, kind |-> kind, at |-> tick]
    BY DEF QueueInv, QueuedCommand
  <2>2. inputs' = Append(q, c)
    BY <1>1, <1>2, <1>3, <2>1 DEF PushInput
  <2>3. PICK r \in Seq(QueuedCommand) : /\ r = Append(q, c) /\ Len(r) = n + 1 /\ r[n + 1] = c
                                        /\ \A i \in 1..n : r[i] = q[i]
    <3>1. PICK r : r = Append(q, c)
      OBVIOUS
    <3>2. r \in Seq(QueuedCommand) /\ Len(r) = n + 1 /\ r[n + 1] = c
      BY <1>1, <1>2, <3>1
    <3>3. \A i \in 1..n : r[i] = q[i]
      BY <1>1, <1>2, <3>1
    <3>4. QED
      BY <3>1, <3>2, <3>3
  <2>4. tick \in Nat
    BY DEF QueueInv
  <2>5. ASSUME NEW i \in 1..(n + 1)
        PROVE  r[i].at <= tick /\ i + MaxDrain * (tick - r[i].at) <= InputCapacity
    <3>1. CASE i \in 1..n
      BY <1>1, <1>2, <2>3, <3>1 DEF Advances
    <3>2. CASE i = n + 1
      <4>1. r[i].at = tick
        BY <2>1, <2>3, <3>2
      <4>2. MaxDrain * (tick - tick) = 0
        BY <2>4, ArenaConstants
      <4>3. QED
        BY <1>3, <2>4, <3>2, <4>1, <4>2, ArenaConstants
    <3>3. QED
      BY <3>1, <3>2
  <2>6. Advances(r, tick)
    BY <2>3, <2>5 DEF Advances
  <2>7. QED
    BY <2>2, <2>3, <2>4, <2>6 DEF QueueInv
<1>4. CASE ~(n < InputCapacity)
  BY <1>1, <1>4 DEF PushInput, QueueInv
<1>5. QED
  BY <1>3, <1>4

LEMMA TickAdvances ==
  ASSUME QueueInv, NEW fate \in [Player -> Fate], Tick(fate)
  PROVE  QueueInv'
<1>1. PICK q \in Seq(QueuedCommand) : q = inputs /\ Advances(q, tick)
  BY DEF QueueInv
<1>2. PICK n, t \in Nat : n = Len(q) /\ t = tick
  BY <1>1 DEF QueueInv
<1>3. PICK d \in Nat : d = IF MaxDrain <= n THEN MaxDrain ELSE n
  BY <1>2, ArenaConstants
<1>4. Len(Drained) = d
  <2>1. Min({MaxDrain, Len(inputs)}) = d
    BY <1>1, <1>2, <1>3, ArenaConstants, SmallerOf
  <2>2. PICK x : x = SubSeq(q, 1, d)
    OBVIOUS
  <2>3. \A i \in 1..d : q[i] \in QueuedCommand
    BY <1>1, <1>2, <1>3, ArenaConstants
  <2>4. Len(x) = IF 1 <= d THEN d - 1 + 1 ELSE 0
    BY <2>2, <2>3, SubSeqProperties
  <2>5. QED
    BY <1>1, <2>1, <2>2, <2>4 DEF Drained
<1>5. inputs' = SubSeq(q, d + 1, n) /\ tick' = t + 1
  BY <1>1, <1>2, <1>4 DEF Tick
<1>6. PICK r : r = SubSeq(q, d + 1, n)
  OBVIOUS
<1>7. d <= n
  BY <1>2, <1>3, ArenaConstants
<1>8. /\ r \in Seq(QueuedCommand) /\ Len(r) = n - d
      /\ \A i \in 1..(n - d) : r[i] = q[d + i]
  <2>1. \A i \in (d + 1)..n : q[i] \in QueuedCommand
    BY <1>1, <1>2
  <2>2. /\ r \in Seq(QueuedCommand)
        /\ Len(r) = IF d + 1 <= n THEN n - (d + 1) + 1 ELSE 0
        /\ \A i \in 1..(n - (d + 1) + 1) : r[i] = q[d + 1 + i - 1]
    BY <1>2, <1>6, <2>1, SubSeqProperties
  <2>3. Len(r) = n - d
    BY <1>2, <1>7, <2>2
  <2>4. ASSUME NEW i \in 1..(n - d) PROVE r[i] = q[d + i]
    <3>1. i \in 1..(n - (d + 1) + 1) /\ d + 1 + i - 1 = d + i
      BY <1>2
    <3>2. QED
      BY <2>2, <3>1
  <2>5. QED
    BY <2>2, <2>3, <2>4
<1>9. PICK u, z \in Nat : u = t + 1 /\ z = n - d
  <2>1. t + 1 \in Nat /\ n - d \in Nat
    BY <1>2, <1>7
  <2>2. QED
    BY <2>1
<1>10. ASSUME NEW i \in 1..z
      PROVE  r[i].at <= u /\ i + MaxDrain * (u - r[i].at) <= InputCapacity
  <2>1. d + i \in 1..n /\ d = MaxDrain
    BY <1>2, <1>3, <1>7, <1>9, ArenaConstants
  <2>2. PICK a \in Nat : a = q[d + i].at /\ a <= t /\ d + i + MaxDrain * (t - a) <= InputCapacity
    <3>0. q[d + i] \in QueuedCommand
      BY <1>1, <1>2, <2>1
    <3>1. q[d + i].at \in Nat
      BY <3>0 DEF QueuedCommand
    <3>2. QED
      BY <1>1, <1>2, <2>1, <3>1 DEF Advances
  <2>3. PICK w \in Nat : w = t - a
    BY <1>2, <2>2
  <2>4. PICK m, c \in Nat : m = MaxDrain /\ c = InputCapacity
    BY ArenaConstants
  <2>5. u - a = w + 1 /\ m * (w + 1) = m * w + m /\ m * w \in Int
    <3>1. u - a = w + 1
      BY <1>2, <1>9, <2>2, <2>3
    <3>2. QED
      BY <2>4, <3>1, TimesNext
  <2>6. d + i + m * w <= c
    BY <2>2, <2>3, <2>4
  <2>7. i + (m * w + m) <= c
    BY <2>1, <2>4, <2>6
  <2>8. r[i].at = a
    BY <1>8, <1>9, <2>2
  <2>9. i + MaxDrain * (u - r[i].at) <= InputCapacity
    BY <2>4, <2>5, <2>7, <2>8
  <2>10. a <= u
    BY <1>2, <1>9, <2>2
  <2>11. r[i].at <= u
    BY <2>8, <2>10
  <2>12. QED
    BY <2>9, <2>11, Zenon
<1>11. Advances(r, u)
  BY <1>8, <1>9, <1>10, Zenon DEF Advances
<1>12. QED
  BY <1>5, <1>6, <1>8, <1>9, <1>11 DEF QueueInv

LEMMA QueueInvInit == ArenaInit => QueueInv
  BY DEF ArenaInit, QueueInv, Advances

LEMMA QueueStep == QueueInv /\ [ArenaNext]_arenaVars => QueueInv'
<1>1. SUFFICES ASSUME QueueInv, [ArenaNext]_arenaVars PROVE QueueInv'
  OBVIOUS
<1>2. UNCHANGED <<inputs, tick>> => QueueInv'
  BY <1>1 DEF QueueInv
<1>3. ASSUME NEW p \in Player, NEW kind \in Kind, Command(p, kind) PROVE QueueInv'
  BY <1>1, <1>3, PushAdvances DEF Command, match
<1>4. ASSUME NEW p \in Player, HangUp(p) PROVE QueueInv'
  <2>1. "leave" \in Kind
    BY DEF Kind
  <2>2. CASE PushInput(p, "leave")
    BY <1>1, <1>4, <2>1, <2>2, PushAdvances DEF HangUp, match
  <2>3. CASE UNCHANGED inputs
    BY <1>2, <1>4, <2>3 DEF HangUp, match
  <2>4. QED
    BY <1>4, <2>2, <2>3 DEF HangUp
<1>5. ASSUME NEW p \in Player, Handler(p) \/ Join(p) \/ Deliver(p) PROVE QueueInv'
  BY <1>2, <1>5 DEF Handler, Unsink, CloseSink, Join, Deliver, match
<1>6. ASSUME Main \/ Published PROVE QueueInv'
  BY <1>2, <1>6 DEF Main, GracefulStop, Exit, Published, match
<1>7. ASSUME NEW fate \in [Player -> Fate], Tick(fate) PROVE QueueInv'
  BY <1>1, <1>7, TickAdvances
<1>8. ASSUME UNCHANGED arenaVars PROVE QueueInv'
  BY <1>2, <1>8 DEF arenaVars, match
<1>9. QED
  BY <1>1, <1>3, <1>4, <1>5, <1>6, <1>7, <1>8 DEF ArenaNext, Loop

LEMMA QueueAdvances == ArenaSpec => []QueueInv
  BY QueueInvInit, QueueStep, PTL DEF ArenaSpec

\* A command that got into the queue is obeyed within DrainTicks ticks, whatever the
\* players send (PushInput, drainInputs).
THEOREM CommandsArePrompt == ArenaSpec => []Prompt
<1>1. ASSUME QueueInv PROVE Prompt
  <2>1. PICK q \in Seq(QueuedCommand) : q = inputs /\ Advances(q, tick)
    BY <1>1 DEF QueueInv
  <2>2. PICK t \in Nat : t = tick
    BY <1>1 DEF QueueInv
  <2>3. PICK c, m, D \in Nat : c = InputCapacity /\ m = MaxDrain /\ m > 0 /\ D = DrainTicks /\ m * D >= c
    <3>1. PICK c, m \in Nat : c = InputCapacity /\ m = MaxDrain /\ m > 0 /\ c > 0
      BY ArenaConstants
    <3>2. PICK a \in Nat : a = c + m - 1
      BY <3>1
    <3>3. PICK x, y \in Int : /\ x = a \div m /\ y = a % m /\ y \in 0..(m - 1) /\ a = m * x + y
      BY <3>1, <3>2, Quotient
    <3>4. m * x >= c
      BY <3>1, <3>2, <3>3
    <3>5. x \in Nat
      <4>1. x < 0 => m * x <= 0
        BY <3>1, <3>3
      <4>2. QED
        BY <3>1, <3>3, <3>4, <4>1
    <3>6. x = DrainTicks
      BY <3>1, <3>2, <3>3 DEF DrainTicks
    <3>7. QED
      BY <3>1, <3>4, <3>5, <3>6
  <2>4. ASSUME NEW i \in DOMAIN inputs PROVE tick - inputs[i].at < DrainTicks
    <3>1. i \in 1..Len(q) /\ q[i] \in QueuedCommand
      BY <2>1
    <3>2. PICK a \in Nat : a = q[i].at /\ a <= t /\ i + MaxDrain * (t - a) <= InputCapacity
      BY <2>1, <2>2, <3>1 DEF QueuedCommand, Advances
    <3>3. PICK w \in Nat : w = t - a
      BY <2>2, <3>2
    <3>4. i >= 1 /\ i \in Nat /\ i + m * w <= c
      BY <2>3, <3>1, <3>2, <3>3
    <3>5. w >= D => m * w >= m * D
      <4>1. ASSUME w >= D PROVE m * w >= m * D
        <5>1. PICK e \in Nat : w = D + e
          BY <2>3, <4>1
        <5>2. m * w = m * D + m * e /\ m * e >= 0
          BY <2>3, <5>1
        <5>3. m * w \in Int /\ m * D \in Int /\ m * e \in Int
          BY <2>3, <5>1
        <5>4. QED
          BY <5>2, <5>3
      <4>2. QED
        BY <4>1
    <3>6. ~(w >= D)
      <4>1. m * w \in Int /\ m * D \in Int
        BY <2>3, <3>3
      <4>2. QED
        BY <2>3, <3>4, <3>5, <4>1
    <3>7. QED
      BY <2>1, <2>2, <2>3, <3>2, <3>3, <3>6
  <2>5. QED
    BY <2>4 DEF Prompt
<1>2. QED
  BY <1>1, QueueAdvances, PTL

-----------------------------------------------------------------------------
(* The operator: the inductive invariant. *)

\* The bounds on polls and faults that OpTypeOK does not give by itself.
BoundsKept ==
  /\ saga = "wait" => polls = 0 \/ (polls < SagaTimeout /\ polls < ReadyTimeout)
  /\ lost + faults <= MaxFaults

\* Before Provision there is nothing.
Untouched ==
  saga = "start" =>
    /\ rec = Absent /\ seenRec = Absent /\ pod = Absent /\ seenPod = Absent
    /\ work = Idle /\ polls = 0 /\ pods = 0

\* What is known about a Pod, or about its start, comes from a Pod that was created.
Podded ==
  /\ pod # Absent \/ seenPod # Absent => pods > 0
  /\ work.at = "created" => pods > 0
  /\ rec # Absent /\ (rec.started \/ Terminal(rec)) => pods > 0

\* The turn that has created a Pod has read a record that is not final.
CreatedLive == work.at = "created" => work.read # Absent /\ Live(work.read)

\* The cache is behind, and never ahead: what it knows is true for good.
Behind ==
  seenRec # Absent /\ rec # Absent =>
    /\ Terminal(seenRec) => Terminal(rec)
    /\ seenRec.deleting => rec.deleting

\* The operator has seen no reason to delete the Pod.
Wanted == seenRec = Absent \/ (~seenRec.deleting /\ Live(seenRec))

\* While it has seen none, and no Pod is lost, the Pod that was created is there.
Kept == rec # Absent /\ Wanted /\ lost = 0 /\ pods > 0 => pod # Absent /\ ~pod.dying

\* The parts of OpTypeOK.
Objects ==
  /\ rec \in Record \cup {Absent} /\ seenRec \in Record \cup {Absent}
  /\ pod \in PodObject \cup {Absent} /\ seenPod \in PodObject \cup {Absent}
  /\ work.at \in {"idle", "created", "collect", "finalize"}
  /\ work.read \in Record \cup {Absent}
Clocks == ttlOver \in BOOLEAN /\ retainOver \in BOOLEAN
Counters ==
  /\ saga \in {"start", "wait", "assign", "done", "cancelled", "crashed"}
  /\ polls \in 0..ReadyTimeout+SagaTimeout /\ pods \in 0..MaxPods
  /\ lost \in 0..MaxFaults /\ faults \in 0..MaxFaults

OpInv ==
  /\ Objects /\ Clocks /\ Counters
  /\ BoundsKept /\ Untouched /\ Podded /\ CreatedLive /\ Behind /\ Kept

-----------------------------------------------------------------------------

\* The assumptions, one by one.
LEMMA Constants ==
  /\ SagaTimeout \in Nat /\ ReadyTimeout \in Nat /\ MaxPods \in Nat /\ MaxFaults \in Nat
  /\ ReadyTimeout > 0
  /\ Absent \notin Record /\ Absent \notin PodObject
  BY OperatorAssumption, AbsentAssumption

\* What Reflect writes has the type of the fields.
LEMMA ReflectTypes ==
  ASSUME NEW p \in PodObject
  PROVE  /\ PhaseOf(p) \in {"None", "Pending", "Running", "Completed", "Failed"}
         /\ EndpointOf(p) \in 0..MaxPods
<1>1. p.id \in 1..MaxPods
  BY DEF PodObject
<1>2. EndpointOf(p) \in 0..MaxPods
  BY <1>1, Constants DEF EndpointOf, NoEndpoint
<1>3. PhaseOf(p) \in {"None", "Pending", "Running", "Completed", "Failed"}
  BY DEF PhaseOf
<1>4. QED
  BY <1>2, <1>3

\* Marking a record for deletion keeps its phase.
LEMMA DeletedKeeps ==
  ASSUME NEW r \in Record \cup {Absent}
  PROVE  /\ Deleted(r) \in Record \cup {Absent}
         /\ Deleted(r) # Absent => /\ r # Absent /\ Deleted(r).deleting
                                   /\ Deleted(r).phase = r.phase
                                   /\ Deleted(r).started = r.started
  BY Constants DEF Deleted, Record

LEMMA Parts == OpTypeOK <=> Objects /\ Clocks /\ Counters
  BY Zenon DEF OpTypeOK, Objects, Clocks, Counters

\* The initial state satisfies the invariant.
LEMMA OpInvInit == OpInit => OpInv
<1> SUFFICES ASSUME OpInit PROVE OpInv
  OBVIOUS
<1>1. Objects
  BY DEF OpInit, Objects, Idle
<1>2. Clocks
  BY Zenon DEF OpInit, Clocks
<1>3. Counters
  BY Constants DEF OpInit, Counters
<1>4. BoundsKept
  BY Constants DEF OpInit, BoundsKept
<1>5. Untouched /\ Podded /\ CreatedLive /\ Behind /\ Kept
  BY DEF OpInit, Untouched, Podded, CreatedLive, Behind, Kept, Idle
<1>6. QED
  BY <1>1, <1>2, <1>3, <1>4, <1>5 DEF OpInv

\* A step of the saga or of the server leaves the operator's side alone, and
\* makes of the record at most one that is being deleted.
SagaStep ==
  /\ saga # "start" /\ saga' # "start"
  /\ rec' = rec \/ rec' = Deleted(rec)
  /\ faults' = faults \/ Fault
  /\ pod' = pod /\ seenRec' = seenRec /\ seenPod' = seenPod /\ work' = work
  /\ ttlOver' = ttlOver /\ retainOver' = retainOver
  /\ pods' = pods /\ lost' = lost

LEMMA SagaStepKeeps ==
  ASSUME OpInv, SagaStep, saga' \in {"wait", "assign", "done", "cancelled", "crashed"},
         polls' \in 0..ReadyTimeout+SagaTimeout,
         saga' = "wait" => polls' < SagaTimeout /\ polls' < ReadyTimeout
  PROVE  OpInv'
<1>1. rec' \in Record \cup {Absent}
  BY DeletedKeeps DEF SagaStep, OpInv, Objects
<1>2. Objects'
  BY <1>1 DEF OpInv, SagaStep, Objects
<1>3. Clocks'
  BY Zenon DEF OpInv, SagaStep, Clocks
<1>4. Counters' /\ BoundsKept'
  BY Constants DEF OpInv, SagaStep, Counters, BoundsKept, Fault
<1>5. rec' # Absent => /\ rec # Absent /\ rec'.phase = rec.phase
                       /\ rec'.started = rec.started /\ (rec.deleting => rec'.deleting)
  BY DeletedKeeps DEF SagaStep, OpInv, Objects
<1>6. Untouched' /\ CreatedLive'
  BY DEF OpInv, SagaStep, Untouched, CreatedLive
<1>7. Podded' /\ Behind' /\ Kept'
  BY <1>5 DEF OpInv, SagaStep, Podded, Behind, Kept, Wanted, Terminal, Live
<1>8. QED
  BY <1>2, <1>3, <1>4, <1>6, <1>7 DEF OpInv

LEMMA ProvisionKeeps ==
  ASSUME OpInv, Provision
  PROVE  OpInv'
<1>1. /\ saga = "start" /\ rec = Absent /\ seenRec = Absent /\ pod = Absent
      /\ seenPod = Absent /\ work = Idle
  BY DEF Provision, OpInv, Untouched
<1>2. rec' \in Record
  BY Constants DEF Provision, Record, NoEndpoint
<1>3. /\ rec'.phase = "None" /\ ~rec'.started
  BY DEF Provision
<1>4. /\ pod' = pod /\ seenRec' = seenRec /\ seenPod' = seenPod /\ work' = work
      /\ ttlOver' = ttlOver /\ retainOver' = retainOver
      /\ pods' = pods /\ lost' = lost /\ polls' = polls
      /\ saga' \in {"wait", "cancelled"} /\ (faults' = faults \/ Fault)
  BY DEF Provision, cache, clocks
<1>5. Objects'
  BY <1>2, <1>4 DEF OpInv, Objects
<1>6. Clocks'
  BY Zenon, <1>4 DEF OpInv, Clocks
<1>7. polls = 0
  BY <1>1 DEF OpInv, Untouched
<1>8. Counters' /\ BoundsKept'
  BY Constants, <1>4, <1>7 DEF OpInv, Counters, BoundsKept, Fault
<1>9. Untouched' /\ CreatedLive' /\ Podded' /\ Behind' /\ Kept'
  BY <1>1, <1>3, <1>4
  DEF OpInv, Untouched, CreatedLive, Podded, Behind, Kept, Wanted, Terminal, Live, Idle
<1>10. QED
  BY <1>5, <1>6, <1>8, <1>9 DEF OpInv

LEMMA PollKeeps ==
  ASSUME OpInv, Poll
  PROVE  OpInv'
<1>1. /\ saga = "wait" /\ saga' \in {"wait", "assign", "cancelled"}
      /\ pod' = pod /\ seenRec' = seenRec /\ seenPod' = seenPod /\ work' = work
      /\ ttlOver' = ttlOver /\ retainOver' = retainOver
      /\ pods' = pods /\ lost' = lost
  BY DEF Poll, cache, clocks, Unready, Abandon
<1>2. rec' = rec \/ rec' = Deleted(rec)
  BY DEF Poll, Unready, Abandon, GivenUp
<1>3. faults' = faults \/ Fault
  BY DEF Poll, Unready, Abandon
<1>4. SagaStep
  BY <1>1, <1>2, <1>3 DEF SagaStep
<1>5. polls' = polls \/ polls' = polls + 1
  BY DEF Poll
<1>6. polls \in Nat /\ (polls = 0 \/ (polls < SagaTimeout /\ polls < ReadyTimeout))
  BY <1>1, Constants DEF OpInv, Counters, BoundsKept
<1>7. polls' \in 0..ReadyTimeout+SagaTimeout
  BY <1>5, <1>6, Constants
<1>8. saga' = "wait" => polls' < SagaTimeout /\ polls' < ReadyTimeout
  BY <1>1 DEF Poll, Unready, Abandon
<1>9. QED
  BY <1>1, <1>4, <1>7, <1>8, SagaStepKeeps

LEMMA AssignKeeps ==
  ASSUME OpInv, Assign
  PROVE  OpInv'
<1>1. SagaStep /\ saga' \in {"done", "cancelled"} /\ polls' = polls
  BY DEF Assign, SagaStep, cache, clocks
<1>2. polls' \in 0..ReadyTimeout+SagaTimeout
  BY <1>1 DEF OpInv, Counters
<1>3. QED
  BY <1>1, <1>2, SagaStepKeeps

LEMMA ServerCrashKeeps ==
  ASSUME OpInv, ServerCrash
  PROVE  OpInv'
<1>1. SagaStep /\ saga' = "crashed" /\ polls' = polls
  BY DEF ServerCrash, SagaStep, api, cache, clocks
<1>2. polls' \in 0..ReadyTimeout+SagaTimeout
  BY <1>1 DEF OpInv, Counters
<1>3. QED
  BY <1>1, <1>2, SagaStepKeeps

-----------------------------------------------------------------------------
(* The operator and the cluster. *)

\* A step that leaves the saga and the counters alone.
LEMMA SameCounters ==
  ASSUME OpInv, UNCHANGED <<sagaVars, pods, lost, faults>>
  PROVE  Counters' /\ BoundsKept'
  BY DEF OpInv, Counters, BoundsKept, sagaVars

\* The step that writes the record (an Update that succeeds) keeps what is final.
RecStep ==
  /\ rec # Absent /\ rec' \in Record
  /\ rec'.deleting = rec.deleting
  /\ Terminal(rec) => Terminal(rec')
  /\ rec'.started \/ Terminal(rec') => pods > 0

LEMMA RecStepKeeps ==
  ASSUME OpInv, RecStep, work' = work \/ work' = Idle, Clocks',
         UNCHANGED <<pod, cache, sagaVars, pods, lost, faults>>
  PROVE  OpInv'
<1>1. Objects'
  BY Constants DEF OpInv, Objects, RecStep, cache, Idle
<1>2. Counters' /\ BoundsKept'
  BY SameCounters
<1>3. saga' # "start"
  BY DEF OpInv, Untouched, RecStep, sagaVars
<1>4. Untouched' /\ CreatedLive' /\ Podded'
  BY <1>3 DEF OpInv, Untouched, CreatedLive, Podded, RecStep, cache, Idle
<1>5. Behind'
  BY DEF OpInv, Behind, RecStep, cache, Terminal
<1>6. Kept'
  BY DEF OpInv, Kept, Wanted, Live, Terminal, RecStep, cache
<1>7. QED
  BY <1>1, <1>2, <1>4, <1>5, <1>6 DEF OpInv

\* A record of the cache, or one a turn has read, that is current is the record.
LEMMA IsCurrent ==
  ASSUME OpInv, NEW r, Current(r)
  PROVE  r = rec /\ rec \in Record /\ rec # Absent
  BY DEF Current, OpInv, Objects

LEMMA AddFinalizerStep ==
  ASSUME OpInv, AddFinalizer
  PROVE  RecStep
<1>1. rec \in Record /\ rec # Absent
  BY IsCurrent DEF AddFinalizer
<1>2. QED
  BY <1>1 DEF AddFinalizer, RecStep, Record, OpInv, Podded, Terminal

LEMMA AddFinalizerKeeps ==
  ASSUME OpInv, AddFinalizer
  PROVE  OpInv'
<1>1. Clocks'
  BY Zenon DEF AddFinalizer, OpInv, Clocks, clocks
<1>2. QED
  BY <1>1, AddFinalizerStep, RecStepKeeps DEF AddFinalizer

LEMMA ExpireStep ==
  ASSUME OpInv, Expire
  PROVE  RecStep
<1>1. rec \in Record /\ rec # Absent /\ seenRec = rec
  BY IsCurrent DEF Expire
<1>2. pods > 0
  BY <1>1 DEF Expire, Expired, OpInv, Podded
<1>3. QED
  BY <1>1, <1>2 DEF Expire, RecStep, Record, Terminal

LEMMA ExpireKeeps ==
  ASSUME OpInv, Expire
  PROVE  OpInv'
<1>1. Clocks'
  BY Zenon DEF Expire, OpInv, Clocks, clocks
<1>2. QED
  BY <1>1, ExpireStep, RecStepKeeps DEF Expire

LEMMA SetStartedStep ==
  ASSUME OpInv, SetStarted
  PROVE  RecStep
<1>1. rec \in Record /\ rec # Absent /\ work.read = rec /\ work.at = "created"
  BY IsCurrent DEF SetStarted
<1>2. pods > 0 /\ ~Terminal(rec)
  BY <1>1 DEF OpInv, Podded, CreatedLive, Live
<1>3. QED
  BY <1>1, <1>2 DEF SetStarted, RecStep, Record

LEMMA SetStartedKeeps ==
  ASSUME OpInv, SetStarted
  PROVE  OpInv'
<1>1. Clocks'
  BY Zenon DEF SetStarted, OpInv, Clocks, clocks
<1>2. QED
  BY <1>1, SetStartedStep, RecStepKeeps DEF SetStarted

LEMMA ReflectStep ==
  ASSUME OpInv, Reflect
  PROVE  RecStep
<1>1. rec \in Record /\ rec # Absent /\ seenRec = rec /\ seenPod \in PodObject
  BY IsCurrent DEF Reflect, OpInv, Objects
<1>2. pods > 0 /\ ~Terminal(rec)
  BY <1>1 DEF Reflect, OpInv, Podded, Live
<1>3. rec' = [rec EXCEPT !.phase = PhaseOf(seenPod), !.endpoint = EndpointOf(seenPod)]
  BY DEF Reflect
<1>4. rec' \in Record
  BY <1>1, <1>3, ReflectTypes DEF Record
<1>5. rec'.deleting = rec.deleting
  BY <1>1, <1>3 DEF Record
<1>6. QED
  BY <1>1, <1>2, <1>4, <1>5 DEF RecStep

LEMMA ReflectKeeps ==
  ASSUME OpInv, Reflect
  PROVE  OpInv'
<1>1. Clocks'
  BY Zenon DEF Reflect, OpInv, Clocks, clocks
<1>2. QED
  BY <1>1, ReflectStep, RecStepKeeps DEF Reflect

\* A step that changes at most the Pod, which is there or dies for a reason, and the turn.
PodStep ==
  /\ pod' \in PodObject \cup {Absent}
  /\ pod' # Absent => pod # Absent
  /\ pod' = pod \/ rec = Absent \/ ~Wanted \/ lost' > 0
     \/ (pod # Absent /\ pod' # Absent /\ pod'.dying = pod.dying)
     \/ (pod # Absent /\ pod.dying)

LEMMA PodStepKeeps ==
  ASSUME OpInv, PodStep, saga # "start",
         work' = work \/ (work'.at \in {"idle", "collect", "finalize"}
                          /\ work'.read \in Record \cup {Absent}),
         Counters', BoundsKept', lost' >= lost,
         UNCHANGED <<rec, cache, clocks, saga, pods>>
  PROVE  OpInv'
<1>1. Objects'
  BY DEF OpInv, Objects, PodStep, cache
<1>2. Clocks'
  BY Zenon DEF OpInv, Clocks, clocks
<1>3. Untouched' /\ CreatedLive' /\ Podded'
  BY DEF OpInv, Untouched, CreatedLive, Podded, PodStep, cache
<1>4. Behind'
  BY DEF OpInv, Behind, cache
<1>5. lost' = 0 => lost = 0
  BY DEF OpInv, Counters
<1>6. Kept'
  BY <1>5 DEF OpInv, Kept, Wanted, PodStep, cache
<1>7. QED
  BY <1>1, <1>2, <1>3, <1>4, <1>6 DEF OpInv

LEMMA DeletePodTypes ==
  ASSUME OpInv, DeletePod
  PROVE  pod' \in PodObject \cup {Absent} /\ (pod' # Absent => pod # Absent)
  BY Constants DEF OpInv, Objects, DeletePod, PodObject

LEMMA FinalizeKeeps ==
  ASSUME OpInv, Finalize \/ Clean
  PROVE  OpInv'
<1>1. /\ seenRec # Absent /\ DeletePod /\ work'.at \in {"collect", "finalize"}
      /\ work'.read = seenRec /\ UNCHANGED <<rec, cache, clocks, sagaVars, pods, lost, faults>>
  BY DEF Finalize, Clean, Begins, Tends
<1>2. ~Wanted
  BY DEF Finalize, Clean, Wanted, Tends, Begins, Live
<1>3. PodStep
  BY <1>1, <1>2, DeletePodTypes DEF PodStep
<1>4. saga # "start" /\ work'.read \in Record \cup {Absent}
  BY <1>1 DEF OpInv, Untouched, Objects
<1>5. Counters' /\ BoundsKept' /\ lost' = lost /\ saga' = saga
  BY <1>1, SameCounters DEF sagaVars
<1>6. lost' >= lost
  BY <1>5, Constants DEF OpInv, Counters
<1>7. QED
  BY <1>1, <1>3, <1>4, <1>5, <1>6, PodStepKeeps

LEMMA PodMovesKeeps ==
  ASSUME OpInv, PodMoves \/ PodGone \/ PodLost \/ CollectGarbage
  PROVE  OpInv'
<1>1. pod # Absent /\ pod \in PodObject
  BY DEF PodMoves, PodGone, PodLost, CollectGarbage, OpInv, Objects
<1>2. /\ UNCHANGED <<rec, cache, work, clocks, sagaVars, pods, faults>>
      /\ lost' = lost \/ (lost + faults < MaxFaults /\ lost' = lost + 1)
  BY DEF PodMoves, PodGone, PodLost, CollectGarbage
<1>3. Counters' /\ BoundsKept' /\ lost' >= lost /\ lost \in Nat
  BY <1>2, Constants DEF OpInv, Counters, BoundsKept, sagaVars
<1>4. saga # "start" /\ saga' = saga
  BY <1>1, <1>2 DEF OpInv, Untouched, sagaVars
<1>5. ASSUME PodMoves PROVE PodStep
  <2>1. pod' \in PodObject /\ pod'.dying = pod.dying
    BY <1>1, <1>5 DEF PodMoves, PodObject
  <2>2. QED
    BY <1>1, <2>1, Constants DEF PodStep
<1>6. ASSUME PodGone PROVE PodStep
  BY <1>1, <1>6 DEF PodGone, PodStep
<1>7. ASSUME PodLost PROVE PodStep
  <2>1. pod' = Absent /\ lost' > 0
    BY <1>7, <1>3 DEF PodLost
  <2>2. QED
    BY <2>1 DEF PodStep
<1>8. ASSUME CollectGarbage PROVE PodStep
  BY <1>1, <1>8 DEF CollectGarbage, PodStep, PodObject
<1>9. PodStep
  BY <1>5, <1>6, <1>7, <1>8
<1>10. QED
  BY <1>2, <1>3, <1>4, <1>9, PodStepKeeps

LEMMA GiveUpKeeps ==
  ASSUME OpInv, GiveUp
  PROVE  OpInv'
<1>1. work.at # "idle" /\ work' = Idle /\ UNCHANGED <<rec, pod, cache, clocks, sagaVars, pods, lost>>
  BY DEF GiveUp, api
<1>2. faults' = faults \/ Fault
  BY DEF GiveUp
<1>3. saga # "start"
  BY <1>1 DEF OpInv, Untouched, Idle
<1>4. saga' = saga
  BY <1>1 DEF sagaVars
<1>5. Counters' /\ BoundsKept' /\ lost' >= lost
  BY <1>1, <1>2, Constants DEF OpInv, Counters, BoundsKept, sagaVars, Fault
<1>6. PodStep
  BY <1>1 DEF PodStep, OpInv, Objects
<1>7. work'.at = "idle" /\ work'.read = Absent
  BY <1>1 DEF Idle
<1>8. QED
  BY <1>1, <1>3, <1>4, <1>5, <1>6, <1>7, PodStepKeeps

\* The record goes, or is marked for deletion, and the turn is over.
LEMMA RemovalKeeps ==
  ASSUME OpInv, rec' = Absent \/ rec' = rec \/ rec' = Deleted(rec), saga # "start",
         work' = Idle, UNCHANGED <<pod, cache, clocks, sagaVars, pods, lost, faults>>
  PROVE  OpInv'
<1>1. Objects'
  BY DeletedKeeps DEF OpInv, Objects, cache, Idle
<1>2. Clocks'
  BY Zenon DEF OpInv, Clocks, clocks
<1>3. Counters' /\ BoundsKept'
  BY SameCounters
<1>4. rec' # Absent => /\ rec # Absent /\ rec'.phase = rec.phase
                       /\ rec'.started = rec.started /\ (rec.deleting => rec'.deleting)
  BY DeletedKeeps DEF OpInv, Objects
<1>5. Untouched' /\ CreatedLive'
  BY DEF Untouched, CreatedLive, sagaVars, Idle
<1>6. Podded' /\ Behind' /\ Kept'
  BY <1>4 DEF OpInv, Podded, Behind, Kept, Wanted, Terminal, Live, cache, Idle
<1>7. QED
  BY <1>1, <1>2, <1>3, <1>5, <1>6 DEF OpInv

LEMMA RemoveFinalizerKeeps ==
  ASSUME OpInv, RemoveFinalizer
  PROVE  OpInv'
<1>1. work.at = "finalize" /\ rec' = Absent /\ work' = Idle
      /\ UNCHANGED <<pod, cache, clocks, sagaVars, pods, lost, faults>>
  BY DEF RemoveFinalizer
<1>2. saga # "start"
  BY <1>1 DEF OpInv, Untouched, Idle
<1>3. QED
  BY <1>1, <1>2, RemovalKeeps

LEMMA CollectKeeps ==
  ASSUME OpInv, Collect
  PROVE  OpInv'
<1>1. /\ work.at = "collect" /\ work' = Idle /\ ttlOver' = ttlOver
      /\ UNCHANGED <<pod, cache, sagaVars, pods, lost, faults>>
  BY DEF Collect
<1>2. saga # "start"
  BY <1>1 DEF OpInv, Untouched, Idle
<1>3. CASE Current(work.read) /\ rec' = [rec EXCEPT !.ended = TRUE] /\ retainOver' = FALSE
  <2>1. rec \in Record /\ rec # Absent
    BY <1>3, IsCurrent
  <2>2. RecStep
    BY <1>3, <2>1 DEF RecStep, Record, OpInv, Podded, Terminal
  <2>3. Clocks'
    BY <1>1, <1>3, Zenon DEF OpInv, Clocks
  <2>4. QED
    BY <1>1, <2>2, <2>3, RecStepKeeps
<1>4. CASE (rec' = Absent \/ rec' = rec \/ rec' = Deleted(rec)) /\ retainOver' = retainOver
  BY <1>1, <1>2, <1>4, RemovalKeeps DEF clocks
<1>5. QED
  BY <1>3, <1>4 DEF Collect, Collected

LEMMA CreatePodKeeps ==
  ASSUME OpInv, CreatePod
  PROVE  OpInv'
<1>1. /\ seenRec # Absent /\ Live(seenRec) /\ ~seenRec.deleting /\ pods < MaxPods
      /\ pods' = pods + 1 /\ pod' = [id |-> pods', phase |-> "Pending", dying |-> FALSE]
      /\ work'.at = "created" /\ work'.read = seenRec
      /\ UNCHANGED <<rec, cache, clocks, sagaVars, lost, faults>>
  BY DEF CreatePod, Tends, Begins
<1>2. pods' \in 1..MaxPods /\ pods' > 0
  BY <1>1, Constants DEF OpInv, Counters
<1>3. pod' \in PodObject /\ ~pod'.dying
  BY <1>1, <1>2 DEF PodObject
<1>4. pod' # Absent
  BY <1>3, Constants
<1>5. Objects'
  BY <1>1, <1>3 DEF OpInv, Objects, cache
<1>6. Clocks'
  BY <1>1, Zenon DEF OpInv, Clocks, clocks
<1>7. Counters' /\ BoundsKept'
  BY <1>1, <1>2, Constants DEF OpInv, Counters, BoundsKept, sagaVars
<1>8. saga' # "start"
  BY <1>1 DEF OpInv, Untouched, sagaVars
<1>9. Untouched' /\ CreatedLive' /\ Podded'
  BY <1>1, <1>2, <1>8 DEF Untouched, CreatedLive, Podded
<1>10. Behind' /\ Kept'
  BY <1>1, <1>3, <1>4 DEF OpInv, Behind, Kept, cache
<1>11. QED
  BY <1>5, <1>6, <1>7, <1>9, <1>10 DEF OpInv

\* What the cache takes in cannot contradict what it knew.
LEMMA SeeRecKeeps ==
  ASSUME OpInv, SeeRec
  PROVE  OpInv'
<1>1. /\ seenRec # rec /\ seenRec' = rec
      /\ UNCHANGED <<api, seenPod, work, clocks, sagaVars, pods, lost, faults>>
  BY DEF SeeRec
<1>2. Objects'
  BY <1>1 DEF OpInv, Objects, api
<1>3. Clocks'
  BY <1>1, Zenon DEF OpInv, Clocks, clocks
<1>4. Counters' /\ BoundsKept'
  BY <1>1, SameCounters
<1>5. Untouched' /\ CreatedLive' /\ Podded'
  BY <1>1 DEF OpInv, Untouched, CreatedLive, Podded, api, sagaVars
<1>6. Behind'
  BY <1>1 DEF Behind, api
<1>7. ASSUME Wanted', rec # Absent
      PROVE  Wanted
  BY <1>1, <1>7 DEF OpInv, Behind, Wanted, Live
<1>8. Kept'
  BY <1>1, <1>7 DEF OpInv, Kept, api
<1>9. QED
  BY <1>2, <1>3, <1>4, <1>5, <1>6, <1>8 DEF OpInv

LEMMA SeePodKeeps ==
  ASSUME OpInv, SeePod
  PROVE  OpInv'
<1>1. /\ seenPod' = pod
      /\ UNCHANGED <<api, seenRec, work, clocks, sagaVars, pods, lost, faults>>
  BY DEF SeePod
<1>2. Objects'
  BY <1>1 DEF OpInv, Objects, api
<1>3. Clocks'
  BY <1>1, Zenon DEF OpInv, Clocks, clocks
<1>4. Counters' /\ BoundsKept'
  BY <1>1, SameCounters
<1>5. Untouched' /\ CreatedLive' /\ Podded'
  BY <1>1 DEF OpInv, Untouched, CreatedLive, Podded, api, sagaVars
<1>6. Behind' /\ Kept'
  BY <1>1 DEF OpInv, Behind, Kept, Wanted, api
<1>7. QED
  BY <1>2, <1>3, <1>4, <1>5, <1>6 DEF OpInv

LEMMA TimePassesKeeps ==
  ASSUME OpInv, TimePasses
  PROVE  OpInv'
<1>1. UNCHANGED <<api, cache, work, sagaVars, pods, lost, faults>>
  BY DEF TimePasses
<1>2. Objects'
  BY <1>1 DEF OpInv, Objects, api, cache
<1>3. Clocks'
  BY Zenon DEF OpInv, Clocks, TimePasses
<1>4. Counters' /\ BoundsKept'
  BY <1>1, SameCounters
<1>5. Untouched' /\ CreatedLive' /\ Podded'
  BY <1>1 DEF OpInv, Untouched, CreatedLive, Podded, api, cache, sagaVars
<1>6. Behind' /\ Kept'
  BY <1>1 DEF OpInv, Behind, Kept, Wanted, api, cache
<1>7. QED
  BY <1>2, <1>3, <1>4, <1>5, <1>6 DEF OpInv

LEMMA StutterKeeps ==
  ASSUME OpInv, UNCHANGED opVars
  PROVE  OpInv'
<1>1. /\ UNCHANGED <<rec, pod, seenRec, seenPod, work, ttlOver, retainOver>>
      /\ UNCHANGED <<sagaVars, pods, lost, faults>>
  BY DEF opVars, api, cache, clocks
<1>2. Objects'
  BY <1>1 DEF OpInv, Objects
<1>3. Clocks'
  BY <1>1, Zenon DEF OpInv, Clocks
<1>4. Counters' /\ BoundsKept'
  BY <1>1, SameCounters
<1>5. Untouched' /\ CreatedLive' /\ Podded' /\ Behind' /\ Kept'
  BY <1>1 DEF OpInv, Untouched, CreatedLive, Podded, Behind, Kept, Wanted, sagaVars
<1>6. QED
  BY <1>2, <1>3, <1>4, <1>5 DEF OpInv

\* OpInv is inductive.
LEMMA OpInvKept == OpInv /\ [OpNext]_opVars => OpInv'
  BY ProvisionKeeps, PollKeeps, AssignKeeps, ServerCrashKeeps, AddFinalizerKeeps,
     FinalizeKeeps, RemoveFinalizerKeeps, CollectKeeps, ExpireKeeps, CreatePodKeeps,
     SetStartedKeeps, ReflectKeeps, GiveUpKeeps, SeeRecKeeps, SeePodKeeps,
     PodMovesKeeps, TimePassesKeeps, StutterKeeps
  DEF OpNext, Reconcile

LEMMA OpInvariant == OpSpec => []OpInv
  BY OpInvInit, OpInvKept, PTL DEF OpSpec

-----------------------------------------------------------------------------
(* The theorems. *)

\* Record, Pod, cache and the turn of Reconcile always have their types, and no
\* bound is exceeded, the polls of K8sProvisioner.Provision included.
THEOREM OpTypeCorrect == OpSpec => []OpTypeOK
<1>1. OpInv => OpTypeOK
  BY Parts DEF OpInv
<1>2. QED
  BY <1>1, OpInvariant, PTL

\* An Update compares versions, so no turn overwrites a final phase on the strength
\* of a cache that has not seen it.
LEMMA FinalStep ==
  ASSUME OpInv, OpNext, rec # Absent, rec' # Absent, Terminal(rec)
  PROVE  rec'.phase = rec.phase
<1>1. rec \in Record
  BY DEF OpInv, Objects
<1>2. saga # "start"
  BY DEF OpInv, Untouched
<1>3. CASE rec' = rec \/ rec' = Deleted(rec)
  BY <1>1, <1>3, DeletedKeeps
<1>4. CASE rec' = [rec EXCEPT !.finalizer = TRUE] \/ rec' = [rec EXCEPT !.ended = TRUE]
  BY <1>1, <1>4 DEF Record
<1>5. CASE Expire \/ Reflect
  BY <1>5, IsCurrent DEF Expire, Reflect, Live
<1>6. CASE SetStarted
  BY <1>6, IsCurrent DEF SetStarted, OpInv, CreatedLive, Live
<1>7. CASE Provision
  BY <1>2, <1>7 DEF Provision
<1>8. CASE Poll
  <2>1. rec' = rec \/ rec' = Deleted(rec)
    BY <1>8 DEF Poll, Unready, Abandon, GivenUp
  <2>2. QED
    BY <1>3, <2>1
<1>9. CASE Assign \/ ServerCrash
  BY <1>3, <1>9 DEF Assign, ServerCrash, api
<1>10. CASE AddFinalizer \/ Collect
  BY <1>3, <1>4, <1>10 DEF AddFinalizer, Collect, Collected
<1>11. CASE Finalize \/ RemoveFinalizer \/ Clean \/ CreatePod \/ GiveUp
  BY <1>3, <1>11 DEF Finalize, RemoveFinalizer, Clean, CreatePod, GiveUp, api
<1>12. CASE SeeRec \/ SeePod \/ PodMoves \/ PodGone \/ PodLost \/ CollectGarbage \/ TimePasses
  BY <1>3, <1>12 DEF SeeRec, SeePod, PodMoves, PodGone, PodLost, CollectGarbage, TimePasses, api
<1>13. QED
  BY <1>5, <1>6, <1>7, <1>8, <1>9, <1>10, <1>11, <1>12 DEF OpNext, Reconcile

\* A final phase is for good, though Reconcile reads a cache that lags behind.
THEOREM FinalIsFinal == OpSpec => FinalStays
<1>1. OpInv /\ [OpNext]_opVars
      => [rec # Absent /\ rec' # Absent /\ Terminal(rec) => rec'.phase = rec.phase]_opVars
  BY FinalStep
<1>2. QED
  BY <1>1, OpInvariant, PTL DEF OpSpec, FinalStays

\* A turn that has read the finalizer has it still, or a deletion before it: a record
\* goes away only in finalize.
Seen ==
  /\ seenRec # Absent /\ seenRec.finalizer =>
       IF rec = Absent THEN seenRec.deleting ELSE rec.finalizer
  /\ work.at = "finalize" => /\ rec = Absent \/ rec.deleting
                             /\ seenRec = Absent \/ seenRec.deleting

\* A step that changes neither the cache nor begins finalize, and keeps of the record
\* the finalizer and the mark of deletion.
SeenStep ==
  /\ seenRec' = seenRec
  /\ work' = work \/ work'.at # "finalize"
  /\ \/ rec' = rec
     \/ /\ rec # Absent /\ rec' # Absent
        /\ rec.finalizer => rec'.finalizer
        /\ rec.deleting => rec'.deleting
     \/ rec' = Absent /\ rec # Absent /\ ~rec.finalizer

LEMMA SeenStepKeeps ==
  ASSUME OpInv, Seen, SeenStep
  PROVE  Seen'
  BY DEF Seen, SeenStep

\* A Delete is such a step.
LEMMA DeletedStep ==
  ASSUME OpInv
  PROVE  LET r == Deleted(rec)
         IN  \/ r = rec
             \/ rec # Absent /\ r # Absent /\ r.deleting /\ r.finalizer
             \/ r = Absent /\ rec # Absent /\ ~rec.finalizer
<1>1. CASE rec = Absent
  BY <1>1 DEF Deleted
<1>2. CASE rec # Absent /\ ~rec.finalizer
  BY <1>2 DEF Deleted
<1>3. CASE rec # Absent /\ rec.finalizer
  <2>1. rec \in Record
    BY <1>3 DEF OpInv, Objects
  <2>2. Deleted(rec) = [rec EXCEPT !.deleting = TRUE]
    BY <1>3 DEF Deleted
  <2>3. Deleted(rec) \in Record
    BY <2>1, <2>2 DEF Record
  <2>4. Deleted(rec).deleting /\ Deleted(rec).finalizer
    BY <1>3, <2>1, <2>2 DEF Record
  <2>5. QED
    BY <1>3, <2>3, <2>4, Constants
<1>4. QED
  BY <1>1, <1>2, <1>3

LEMMA SagaSeenStep ==
  ASSUME OpInv, Poll \/ Assign \/ ServerCrash
  PROVE  SeenStep
<1>1. seenRec' = seenRec /\ work' = work
  BY DEF Poll, Assign, ServerCrash, cache
<1>2. rec' = rec \/ rec' = Deleted(rec)
  BY DEF Poll, Assign, ServerCrash, Unready, Abandon, GivenUp, api
<1>3. QED
  BY <1>1, <1>2, DeletedStep DEF SeenStep

LEMMA UpdateSeenStep ==
  ASSUME OpInv, AddFinalizer \/ Expire \/ SetStarted \/ Reflect
  PROVE  SeenStep
<1>1. rec \in Record /\ rec # Absent
  BY IsCurrent DEF AddFinalizer, Expire, SetStarted, Reflect
<1>2. /\ seenRec' = seenRec
      /\ work' = work \/ work' = Idle
  BY DEF AddFinalizer, Expire, SetStarted, Reflect, cache
<1>3. rec' \in Record
  BY AddFinalizerStep, ExpireStep, SetStartedStep, ReflectStep DEF RecStep
<1>4. rec'.deleting = rec.deleting
  BY AddFinalizerStep, ExpireStep, SetStartedStep, ReflectStep DEF RecStep
<1>5. rec.finalizer => rec'.finalizer
  BY <1>1 DEF AddFinalizer, Expire, SetStarted, Reflect, Record
<1>6. rec' # Absent
  BY <1>3, Constants
<1>7. QED
  BY <1>1, <1>2, <1>4, <1>5, <1>6 DEF SeenStep, Idle

LEMMA CollectSeenStep ==
  ASSUME OpInv, Collect
  PROVE  SeenStep
<1>1. seenRec' = seenRec /\ work' = Idle
  BY DEF Collect, cache
<1>2. CASE rec' = rec \/ rec' = Deleted(rec)
  BY <1>1, <1>2, DeletedStep DEF SeenStep, Idle
<1>3. CASE Current(work.read) /\ rec' = [rec EXCEPT !.ended = TRUE]
  BY <1>1, <1>3, IsCurrent, Constants DEF SeenStep, Idle, Record
<1>4. QED
  BY <1>2, <1>3 DEF Collect, Collected, Deleted

LEMMA OtherSeenStep ==
  ASSUME OpInv,
         Clean \/ CreatePod \/ GiveUp \/ SeePod \/ PodMoves \/ PodGone \/ PodLost
           \/ CollectGarbage \/ TimePasses \/ UNCHANGED opVars
  PROVE  SeenStep
<1>1. seenRec' = seenRec /\ rec' = rec
  BY DEF Clean, CreatePod, GiveUp, SeePod, PodMoves, PodGone, PodLost, CollectGarbage,
         TimePasses, opVars, cache, api
<1>2. work' = work \/ work'.at # "finalize"
  BY DEF Clean, CreatePod, GiveUp, SeePod, PodMoves, PodGone, PodLost, CollectGarbage,
         TimePasses, opVars, Idle
<1>3. QED
  BY <1>1, <1>2 DEF SeenStep

LEMMA SeenKept == OpInv /\ Seen /\ [OpNext]_opVars => Seen'
<1> SUFFICES ASSUME OpInv, Seen, [OpNext]_opVars PROVE Seen'
  OBVIOUS
<1>1. CASE Provision
  <2>1. seenRec = Absent /\ work = Idle /\ seenRec' = seenRec /\ work' = work
    BY <1>1 DEF Provision, OpInv, Untouched, cache
  <2>2. QED
    BY <2>1 DEF Seen, Idle
<1>2. CASE Finalize
  <2>1. /\ seenRec # Absent /\ seenRec.deleting /\ seenRec' = seenRec /\ rec' = rec
    BY <1>2 DEF Finalize, Begins, cache
  <2>2. rec = Absent \/ rec.deleting
    BY <2>1 DEF OpInv, Behind
  <2>3. QED
    BY <2>1, <2>2 DEF Seen
<1>3. CASE RemoveFinalizer
  <2>1. /\ work.at = "finalize" /\ rec' = Absent /\ seenRec' = seenRec /\ work' = Idle
    BY <1>3 DEF RemoveFinalizer, cache
  <2>2. QED
    BY <2>1 DEF Seen, Idle
<1>4. CASE SeeRec
  <2>1. seenRec' = rec /\ rec' = rec /\ work' = work
    BY <1>4 DEF SeeRec, api
  <2>2. QED
    BY <2>1 DEF Seen
<1>5. CASE ~(Provision \/ Finalize \/ RemoveFinalizer \/ SeeRec)
  BY <1>5, SagaSeenStep, UpdateSeenStep, CollectSeenStep, OtherSeenStep, SeenStepKeeps
  DEF OpNext, Reconcile
<1>6. QED
  BY <1>1, <1>2, <1>3, <1>4, <1>5

LEMMA SeenInvariant == OpSpec => []Seen
<1>1. OpInit => Seen
  BY DEF OpInit, Seen, Idle
<1>2. QED
  BY <1>1, SeenKept, OpInvariant, PTL DEF OpSpec

\* The turn that creates a Pod has seen a record with its finalizer, and no final phase
\* and no deletion.  So the record is still there (Seen), and so is the first Pod if
\* none was lost (Kept).
LEMMA OnePodKept == OpInv /\ Seen /\ OnePod /\ [OpNext]_opVars => OnePod'
<1> SUFFICES ASSUME OpInv, Seen, OnePod, [OpNext]_opVars PROVE OnePod'
  OBVIOUS
<1>1. pods \in Nat /\ lost \in Nat
  BY Constants DEF OpInv, Counters
<1>2. CASE CreatePod
  <2>1. lost' = lost /\ pods' = pods + 1 /\ pod = Absent
    BY <1>2 DEF CreatePod
  <2>2. seenRec # Absent /\ seenRec.finalizer /\ ~seenRec.deleting /\ Wanted
    BY <1>2 DEF CreatePod, Tends, Begins, Wanted
  <2>3. rec # Absent
    BY <2>2 DEF Seen
  <2>4. lost = 0 => ~(pods > 0)
    BY <2>1, <2>2, <2>3 DEF OpInv, Kept
  <2>5. QED
    BY <1>1, <2>1, <2>4 DEF OnePod
<1>3. CASE PodLost
  BY <1>1, <1>3 DEF PodLost, OnePod
<1>4. CASE ~(CreatePod \/ PodLost)
  <2>1. pods' = pods /\ lost' = lost
    BY <1>4 DEF OpNext, Reconcile, Provision, Poll, Assign, ServerCrash, AddFinalizer,
       Finalize, RemoveFinalizer, Clean, Collect, Expire, SetStarted, Reflect, GiveUp,
       SeeRec, SeePod, PodMoves, PodGone, CollectGarbage, TimePasses, opVars
  <2>2. QED
    BY <2>1 DEF OnePod
<1>5. QED
  BY <1>2, <1>3, <1>4

\* An arena has one Pod in its life, unless Pods were evicted or deleted by hand: neither
\* a turn on a stale cache, nor one that takes up after another broke off, nor one after
\* the end of the match creates a second.
THEOREM NoSecondPod == OpSpec => []OnePod
<1>1. OpInit => OnePod
  BY DEF OpInit, OnePod
<1>2. QED
  BY <1>1, OnePodKept, SeenInvariant, OpInvariant, PTL DEF OpSpec

\* What a step of the saga makes of OnlyTimeoutLeaks.
LEMMA LeakStep ==
  ASSUME OpInv, OnlyTimeoutLeaks, [OpNext]_opVars
  PROVE  OnlyTimeoutLeaks'
<1> SUFFICES ASSUME saga' = "cancelled", faults' = 0, polls' < SagaTimeout
             PROVE  rec' = Absent \/ rec'.deleting
  BY DEF OnlyTimeoutLeaks
<1>1. faults \in Nat /\ ~Fault
  BY Constants DEF OpInv, Counters, Fault
<1>2. Deleted(rec) = Absent \/ Deleted(rec).deleting
  BY DeletedKeeps DEF OpInv, Objects
<1>3. CASE Poll
  <2>1. saga = "wait" /\ polls \in Nat
    BY <1>3, Constants DEF Poll, OpInv, Counters
  <2>2. ~(saga' = saga)
    BY <2>1
  <2>3. Abandon => rec' = Deleted(rec)
    BY <1>1 DEF Abandon, GivenUp
  <2>4. ASSUME polls' = polls + 1, Unready(polls + 1) PROVE Abandon
    BY <1>1, <2>1, <2>2, <2>4, Constants DEF Unready
  <2>5. \/ rec = Absent /\ rec' = rec
        \/ Abandon
    BY <1>1, <1>3, <2>4 DEF Poll
  <2>6. QED
    BY <1>2, <2>3, <2>5
<1>4. CASE Provision \/ Assign \/ ServerCrash
  BY <1>1, <1>2, <1>4 DEF Provision, Assign, ServerCrash
<1>5. ASSUME rec = Absent \/ rec.deleting,
             \/ rec' = rec \/ rec' = Absent
             \/ rec' = [rec EXCEPT !.ended = TRUE] /\ rec # Absent
             \/ rec' = Deleted(rec)
             \/ RecStep
      PROVE  rec' = Absent \/ rec'.deleting
  BY <1>2, <1>5 DEF RecStep, OpInv, Objects, Record
<1>6. ASSUME saga' = saga, faults' = faults, polls' = polls
      PROVE  rec = Absent \/ rec.deleting
  BY <1>6 DEF OnlyTimeoutLeaks
<1>7. CASE AddFinalizer \/ Expire \/ SetStarted \/ Reflect
  <2>1. saga' = saga /\ polls' = polls /\ faults' = faults
    BY <1>7 DEF AddFinalizer, Expire, SetStarted, Reflect, sagaVars
  <2>2. RecStep
    BY <1>7, AddFinalizerStep, ExpireStep, SetStartedStep, ReflectStep
  <2>3. QED
    BY <1>5, <1>6, <2>1, <2>2
<1>8. CASE Finalize \/ RemoveFinalizer \/ Clean \/ CreatePod \/ GiveUp
  <2>1. /\ saga' = saga /\ polls' = polls /\ (faults' = faults \/ Fault)
        /\ (rec' = rec \/ rec' = Absent)
    BY <1>8 DEF Finalize, RemoveFinalizer, Clean, CreatePod, GiveUp, sagaVars, api
  <2>2. QED
    BY <1>1, <1>5, <1>6, <2>1
<1>9. CASE Collect
  <2>1. /\ saga' = saga /\ polls' = polls /\ faults' = faults
        /\ \/ rec' = rec \/ rec' = Absent \/ rec' = Deleted(rec)
           \/ Current(work.read) /\ rec' = [rec EXCEPT !.ended = TRUE]
    BY <1>9 DEF Collect, Collected, sagaVars
  <2>2. QED
    BY <1>5, <1>6, <2>1 DEF Current
<1>10. CASE SeeRec \/ SeePod \/ PodMoves \/ PodGone \/ PodLost \/ CollectGarbage \/ TimePasses
            \/ UNCHANGED opVars
  <2>1. saga' = saga /\ polls' = polls /\ faults' = faults /\ rec' = rec
    BY <1>10 DEF SeeRec, SeePod, PodMoves, PodGone, PodLost, CollectGarbage, TimePasses,
                 sagaVars, api, opVars
  <2>2. QED
    BY <1>5, <1>6, <2>1
<1>11. QED
  BY <1>3, <1>4, <1>7, <1>8, <1>9, <1>10 DEF OpNext, Reconcile

\* "No arena leaks", up to the end of the saga's context: a saga that is cancelled, no
\* call having failed, has its arena deleted or marked for deletion, unless its context
\* ended while Provision was waiting.  (In the program that context ends before
\* Provision's own wait: see the run operator_default.)
THEOREM LeaksOnlyAtTimeout == OpSpec => []OnlyTimeoutLeaks
<1>1. OpInit => OnlyTimeoutLeaks
  BY DEF OpInit, OnlyTimeoutLeaks
<1>2. OpInv /\ OnlyTimeoutLeaks /\ [OpNext]_opVars => OnlyTimeoutLeaks'
  BY LeakStep
<1>3. QED
  BY <1>1, <1>2, OpInvariant, PTL DEF OpSpec
=============================================================================
