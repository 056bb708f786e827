---------------------------- MODULE ActorProofs -----------------------------
(***************************************************************************)
(* Proofs about the mailbox of a process (Actor.tla), for any senders,     *)
(* size of the mailbox, overflow policy, number of sends, panics and       *)
(* restarts: a message is handled once and in the order of its sender, or  *)
(* is a dead letter, or waits in the mailbox.                              *)
(*                                                                         *)
(* Every step is one of five kinds: a message gets a place in the mailbox, *)
(* or is a dead letter at once; the oldest in the mailbox is handled, or   *)
(* is a dead letter; or none of them moves.                                *)
(***************************************************************************)
EXTENDS Actor, TLAPS, SequenceTheorems

-----------------------------------------------------------------------------
(* The messages and where they are. *)

Mail == Sender \X Nat
Entry == [msg : Mail, poison : BOOLEAN, ready : BOOLEAN]
Place == {"idle", "check", "push", "publish", "signal", "wait", "woken"}

\* The messages in the mailbox, oldest first.
Box == [i \in 1..Len(mailbox) |-> mailbox[i].msg]

\* s has a message that is nowhere yet.
Carries(s) == sender[s].pc \in {"check", "push", "wait", "woken"}

\* How many of its messages s has got rid of.
Sent(s) == IF Carries(s) THEN sender[s].n - 1 ELSE sender[s].n

SentOf == [s \in Sender |-> Sent(s)]

\* The types the argument needs.
MailOK ==
  /\ mailbox \in Seq(Entry)
  /\ handled \in Seq(Mail) /\ letters \in Seq(Mail)
  /\ sender \in [Sender -> [pc : Place, n : Nat, poison : BOOLEAN]]
  /\ SentOf \in [Sender -> Nat]

\* The messages of q are among those that have been sent.
Real(q, sent) == \A i \in 1..Len(q) : q[i][2] \in 1..sent[q[i][1]]

\* The messages of each sender are in the order it sent them.
Rising(q) == \A i, j \in 1..Len(q) : i < j /\ q[i][1] = q[j][1] => q[i][2] < q[j][2]

\* Of each sender, those in q come before those in r.
Before(q, r) ==
  \A i \in 1..Len(q), j \in 1..Len(r) : q[i][1] = r[j][1] => q[i][2] < r[j][2]

Apart(q, r) == \A i \in 1..Len(q), j \in 1..Len(r) : q[i] # r[j]

In(m, q) == \E i \in 1..Len(q) : q[i] = m

\* Every message that was sent is in one of the three.
Kept(h, l, b, sent) ==
  \A s \in Sender : \A n \in 1..sent[s] : In(<<s, n>>, h) \/ In(<<s, n>>, l) \/ In(<<s, n>>, b)

\* The messages handled, the dead letters and those in the mailbox, for what was sent.
Sorted(h, l, b, sent) ==
  /\ Real(h, sent) /\ Real(l, sent) /\ Real(b, sent)
  /\ Rising(h) /\ Rising(b) /\ Before(h, b)
  /\ Apart(h, l) /\ Apart(b, l)
  /\ Kept(h, l, b, sent)

MailInv == MailOK /\ Sorted(handled, letters, Box, SentOf)

-----------------------------------------------------------------------------
(* Appending and taking the head. *)

LEMMA AppendIs ==
  ASSUME NEW S, NEW s \in Seq(S), NEW e \in S
  PROVE  /\ Append(s, e) \in Seq(S) /\ Append(s, e) # <<>>
         /\ Len(Append(s, e)) = Len(s) + 1 /\ Append(s, e)[Len(s) + 1] = e
         /\ \A i \in 1..Len(s) : Append(s, e)[i] = s[i]
<1>1. PICK t : t = Append(s, e)
  OBVIOUS
<1>2. t \in Seq(S) /\ t # <<>> /\ Len(t) = Len(s) + 1
  BY <1>1, AppendProperties
<1>3. t[Len(s) + 1] = e
  BY <1>1, AppendProperties
<1>4. \A i \in 1..Len(s) : t[i] = s[i]
  BY <1>1, AppendProperties
<1>5. QED
  BY <1>1, <1>2, <1>3, <1>4

LEMMA TailIs ==
  ASSUME NEW S, NEW s \in Seq(S), s # <<>>
  PROVE  /\ Head(s) \in S /\ Head(s) = s[1] /\ Tail(s) \in Seq(S)
         /\ Len(s) \in Nat /\ Len(s) >= 1 /\ Len(Tail(s)) = Len(s) - 1
         /\ \A i \in 1..(Len(s) - 1) : Tail(s)[i] = s[i + 1]
<1>1. PICK t : t = Tail(s)
  OBVIOUS
<1>2. t \in Seq(S) /\ Len(t) = Len(s) - 1 /\ Head(s) \in S
  BY <1>1, HeadTailProperties
<1>3. \A i \in 1..Len(t) : t[i] = s[i + 1]
  BY <1>1, HeadTailProperties
<1>4. Len(s) \in Nat /\ Len(s) >= 1 /\ Head(s) = s[1]
  OBVIOUS
<1>5. QED
  BY <1>1, <1>2, <1>3, <1>4

\* r is q and, last, m.
Adds(q, m, r) ==
  /\ Len(r) = Len(q) + 1 /\ r[Len(q) + 1] = m
  /\ \A i \in 1..Len(q) : r[i] = q[i]

\* r is q without its first, m.
Drops(q, m, r) ==
  /\ Len(q) >= 1 /\ q[1] = m /\ Len(r) = Len(q) - 1
  /\ \A i \in 1..(Len(q) - 1) : r[i] = q[i + 1]

LEMMA InAdded ==
  ASSUME NEW q \in Seq(Mail), NEW r \in Seq(Mail), NEW m, Adds(q, m, r), NEW x
  PROVE  In(x, r) <=> In(x, q) \/ x = m
<1>1. PICK n \in Nat : n = Len(q)
  OBVIOUS
<1>2. Len(r) = n + 1 /\ r[n + 1] = m /\ \A i \in 1..n : r[i] = q[i]
  BY <1>1 DEF Adds
<1>3. \A i : i \in 1..(n + 1) <=> i \in 1..n \/ i = n + 1
  BY <1>1
<1>4. QED
  BY <1>1, <1>2, <1>3 DEF In

LEMMA InDropped ==
  ASSUME NEW q \in Seq(Mail), NEW r \in Seq(Mail), NEW m, Drops(q, m, r), NEW x
  PROVE  In(x, q) <=> In(x, r) \/ x = m
<1>1. PICK n \in Nat : n = Len(q)
  OBVIOUS
<1>2. n >= 1 /\ q[1] = m /\ Len(r) = n - 1 /\ \A i \in 1..(n - 1) : r[i] = q[i + 1]
  BY <1>1 DEF Drops
<1>3. ASSUME In(x, q) PROVE In(x, r) \/ x = m
  <2>1. PICK i \in 1..n : q[i] = x
    BY <1>1, <1>3 DEF In
  <2>2. CASE i = 1
    BY <1>2, <2>1, <2>2
  <2>3. CASE i # 1
    <3>1. i - 1 \in 1..(n - 1) /\ (i - 1) + 1 = i
      BY <1>2, <2>3
    <3>2. r[i - 1] = x
      BY <1>2, <2>1, <3>1
    <3>3. QED
      BY <1>2, <3>1, <3>2 DEF In
  <2>4. QED
    BY <2>2, <2>3
<1>4. ASSUME In(x, r) \/ x = m PROVE In(x, q)
  <2>1. CASE x = m
    <3>1. 1 \in 1..n
      BY <1>2
    <3>2. QED
      BY <1>1, <1>2, <2>1, <3>1 DEF In
  <2>2. CASE In(x, r)
    <3>1. PICK i \in 1..(n - 1) : r[i] = x
      BY <1>2, <2>2 DEF In
    <3>2. i + 1 \in 1..n /\ q[i + 1] = x
      BY <1>2, <3>1
    <3>3. QED
      BY <1>1, <3>2 DEF In
  <2>3. QED
    BY <1>4, <2>1, <2>2
<1>5. QED
  BY <1>3, <1>4

-----------------------------------------------------------------------------
(* The four ways in which a message moves. *)

Mails(q) == q \in Seq(Mail)

LEMMA MailIs ==
  ASSUME NEW q, Mails(q), NEW i \in 1..Len(q)
  PROVE  q[i] \in Mail /\ q[i][1] \in Sender /\ q[i][2] \in Nat
<1>1. q[i] \in Mail
  BY DEF Mails
<1>2. QED
  BY <1>1 DEF Mail

\* The next message of s, after sent.
Follows(m, s, sent, sent2) ==
  /\ s \in Sender /\ m = <<s, sent[s] + 1>>
  /\ sent \in [Sender -> Nat] /\ sent2 = [sent EXCEPT ![s] = sent[s] + 1]

LEMMA FollowsIs ==
  ASSUME NEW m, NEW s, NEW sent, NEW sent2, Follows(m, s, sent, sent2)
  PROVE  /\ m \in Mail /\ m[1] = s /\ m[2] = sent[s] + 1 /\ sent[s] \in Nat
         /\ sent2 \in [Sender -> Nat] /\ sent2[s] = sent[s] + 1
         /\ \A u \in Sender : u # s => sent2[u] = sent[u]
         /\ \A u \in Sender, n \in Nat : n \in 1..sent2[u] <=> n \in 1..sent[u] \/ <<u, n>> = m
<1>1. s \in Sender /\ m = <<s, sent[s] + 1>> /\ sent[s] \in Nat
  BY DEF Follows
<1>2. m \in Mail /\ m[1] = s /\ m[2] = sent[s] + 1
  BY <1>1 DEF Mail
<1>3. /\ sent2 \in [Sender -> Nat] /\ sent2[s] = sent[s] + 1
      /\ \A u \in Sender : u # s => sent2[u] = sent[u]
  BY <1>1 DEF Follows
<1>4. ASSUME NEW u \in Sender, NEW n \in Nat
      PROVE  n \in 1..sent2[u] <=> n \in 1..sent[u] \/ <<u, n>> = m
  <2>1. CASE u = s
    <3>1. <<u, n>> = m <=> n = sent[s] + 1
      BY <1>1, <2>1
    <3>2. QED
      BY <1>1, <1>3, <2>1, <3>1
  <2>2. CASE u # s
    <3>1. <<u, n>> # m
      BY <1>1, <2>2
    <3>2. QED
      BY <1>3, <2>2, <3>1
  <2>3. QED
    BY <2>1, <2>2
<1>5. QED
  BY <1>1, <1>2, <1>3, <1>4

\* What has been sent stays sent; the next message has not been.
LEMMA RealStays ==
  ASSUME NEW m, NEW s, NEW sent, NEW sent2, Follows(m, s, sent, sent2),
         NEW q, Mails(q), Real(q, sent)
  PROVE  /\ Real(q, sent2)
         /\ \A i \in 1..Len(q) : q[i] # m /\ (q[i][1] = s => q[i][2] < m[2])
<1>1. ASSUME NEW i \in 1..Len(q)
      PROVE  q[i][2] \in 1..sent2[q[i][1]] /\ q[i] # m /\ (q[i][1] = s => q[i][2] < m[2])
  <2>1. PICK u \in Sender, n \in Nat : u = q[i][1] /\ n = q[i][2]
    BY MailIs
  <2>2. n \in 1..sent[u]
    BY <2>1 DEF Real
  <2>3. PICK v, w \in Nat : v = sent[u] /\ w = sent2[u]
    BY FollowsIs DEF Follows
  <2>4. CASE u = s
    <3>1. w = v + 1 /\ m[2] = v + 1
      BY <2>3, <2>4, FollowsIs
    <3>2. n \in 1..w /\ n < m[2]
      BY <2>2, <2>3, <3>1
    <3>3. QED
      BY <2>1, <2>3, <3>2
  <2>5. CASE u # s
    <3>1. w = v /\ m[1] = s
      BY <2>3, <2>5, FollowsIs
    <3>2. QED
      BY <2>1, <2>2, <2>3, <2>5, <3>1
  <2>6. QED
    BY <2>4, <2>5
<1>2. QED
  BY <1>1 DEF Real

LEMMA RealAdded ==
  ASSUME NEW q, Mails(q), NEW r, NEW m, Adds(q, m, r), NEW sent, Real(q, sent),
         m[2] \in 1..sent[m[1]]
  PROVE  Real(r, sent)
<1>1. PICK n \in Nat : n = Len(q)
  BY DEF Mails
<1>2. Len(r) = n + 1 /\ r[n + 1] = m /\ \A i \in 1..n : r[i] = q[i]
  BY <1>1 DEF Adds
<1>3. \A i : i \in 1..(n + 1) <=> i \in 1..n \/ i = n + 1
  BY <1>1
<1>4. QED
  BY <1>1, <1>2, <1>3 DEF Real

LEMMA RisingAdded ==
  ASSUME NEW q, Mails(q), NEW r, NEW m, Adds(q, m, r), Rising(q),
         \A i \in 1..Len(q) : q[i][1] = m[1] => q[i][2] < m[2]
  PROVE  Rising(r)
<1>1. PICK n \in Nat : n = Len(q)
  BY DEF Mails
<1>2. Len(r) = n + 1 /\ r[n + 1] = m /\ \A i \in 1..n : r[i] = q[i]
  BY <1>1 DEF Adds
<1>3. ASSUME NEW i \in 1..(n + 1), NEW j \in 1..(n + 1), i < j, r[i][1] = r[j][1]
      PROVE  r[i][2] < r[j][2]
  <2>1. i \in 1..n
    BY <1>1, <1>3
  <2>2. CASE j = n + 1
    BY <1>1, <1>2, <1>3, <2>1, <2>2
  <2>3. CASE j # n + 1
    <3>1. j \in 1..n
      BY <1>1, <2>3
    <3>2. QED
      BY <1>1, <1>2, <1>3, <2>1, <3>1 DEF Rising
  <2>4. QED
    BY <2>2, <2>3
<1>4. QED
  BY <1>2, <1>3 DEF Rising

\* What holds of all of q and of m holds of all of r.
LEMMA AllAdded ==
  ASSUME NEW q, Mails(q), NEW r, NEW m, Adds(q, m, r), NEW j \in 1..Len(r)
  PROVE  r[j] = m \/ \E i \in 1..Len(q) : r[j] = q[i]
<1>1. PICK n \in Nat : n = Len(q)
  BY DEF Mails
<1>2. Len(r) = n + 1 /\ r[n + 1] = m /\ \A i \in 1..n : r[i] = q[i]
  BY <1>1 DEF Adds
<1>3. j = n + 1 \/ j \in 1..n
  BY <1>1, <1>2
<1>4. QED
  BY <1>1, <1>2, <1>3

LEMMA ApartAdded ==
  ASSUME NEW q, Mails(q), NEW r, NEW m, Adds(q, m, r), NEW l, Apart(q, l),
         \A i \in 1..Len(l) : l[i] # m
  PROVE  Apart(r, l)
<1>1. ASSUME NEW i \in 1..Len(r), NEW j \in 1..Len(l) PROVE r[i] # l[j]
  <2>1. CASE r[i] = m
    BY <2>1
  <2>2. CASE r[i] # m
    <3>1. PICK k \in 1..Len(q) : r[i] = q[k]
      BY <2>2, AllAdded
    <3>2. QED
      BY <3>1 DEF Apart
  <2>3. QED
    BY <2>1, <2>2
<1>2. QED
  BY <1>1 DEF Apart

\* The next message is sent, and is in one of the three.
LEMMA KeptMore ==
  ASSUME NEW h, NEW l, NEW b, NEW l2, NEW b2, NEW m, NEW s, NEW sent, NEW sent2,
         Follows(m, s, sent, sent2), Kept(h, l, b, sent),
         \A x : In(x, l) => In(x, l2), \A x : In(x, b) => In(x, b2), In(m, l2) \/ In(m, b2)
  PROVE  Kept(h, l2, b2, sent2)
<1>1. ASSUME NEW u \in Sender, NEW n \in 1..sent2[u]
      PROVE  In(<<u, n>>, h) \/ In(<<u, n>>, l2) \/ In(<<u, n>>, b2)
  <2>1. n \in Nat
    <3>1. PICK k \in Nat : k = sent2[u]
      BY FollowsIs
    <3>2. QED
      BY <3>1
  <2>2. n \in 1..sent[u] \/ <<u, n>> = m
    BY <2>1, FollowsIs
  <2>3. QED
    BY <2>2 DEF Kept
<1>2. QED
  BY <1>1 DEF Kept

LEMMA DroppedIs ==
  ASSUME NEW q, Mails(q), NEW r, NEW m, Drops(q, m, r)
  PROVE  /\ 1 \in 1..Len(q) /\ q[1] = m
         /\ \A j \in 1..Len(r) : j + 1 \in 1..Len(q) /\ 1 < j + 1 /\ r[j] = q[j + 1]
<1>1. PICK n \in Nat : n = Len(q)
  BY DEF Mails
<1>2. n >= 1 /\ q[1] = m /\ Len(r) = n - 1 /\ \A i \in 1..(n - 1) : r[i] = q[i + 1]
  BY <1>1 DEF Drops
<1>3. \A j \in 1..(n - 1) : j + 1 \in 1..n /\ 1 < j + 1
  BY <1>1
<1>4. 1 \in 1..n
  BY <1>2
<1>5. QED
  BY <1>1, <1>2, <1>3, <1>4

\* A message gets a place in the mailbox.
LEMMA SortedQueued ==
  ASSUME NEW h, NEW l, NEW b, NEW b2, Mails(h), Mails(l), Mails(b), Mails(b2),
         NEW m, NEW s, NEW sent, NEW sent2, Follows(m, s, sent, sent2),
         Sorted(h, l, b, sent), Adds(b, m, b2)
  PROVE  Sorted(h, l, b2, sent2)
<1>1. /\ Real(h, sent2) /\ \A i \in 1..Len(h) : h[i] # m /\ (h[i][1] = s => h[i][2] < m[2])
      /\ Real(l, sent2) /\ \A i \in 1..Len(l) : l[i] # m
      /\ Real(b, sent2) /\ \A i \in 1..Len(b) : b[i][1] = s => b[i][2] < m[2]
  BY RealStays DEF Sorted
<1>2. m[1] = s /\ m[2] \in 1..sent2[m[1]]
  BY FollowsIs
<1>3. Real(b2, sent2)
  BY <1>1, <1>2, RealAdded
<1>4. Rising(b2)
  BY <1>1, <1>2, RisingAdded DEF Sorted
<1>5. Before(h, b2)
  <2>1. ASSUME NEW i \in 1..Len(h), NEW j \in 1..Len(b2), h[i][1] = b2[j][1]
        PROVE  h[i][2] < b2[j][2]
    <3>1. CASE b2[j] = m
      BY <1>1, <1>2, <2>1, <3>1
    <3>2. CASE b2[j] # m
      <4>1. PICK k \in 1..Len(b) : b2[j] = b[k]
        BY <3>2, AllAdded
      <4>2. QED
        BY <2>1, <4>1 DEF Sorted, Before
    <3>3. QED
      BY <3>1, <3>2
  <2>2. QED
    BY <2>1 DEF Before
<1>6. Apart(b2, l)
  BY <1>1, ApartAdded DEF Sorted
<1>7. Kept(h, l, b2, sent2)
  <2>1. \A x : In(x, b2) <=> In(x, b) \/ x = m
    BY InAdded DEF Mails
  <2>2. QED
    BY <2>1, KeptMore DEF Sorted
<1>8. QED
  BY <1>1, <1>3, <1>4, <1>5, <1>6, <1>7 DEF Sorted

\* A message is a dead letter at once.
LEMMA SortedBounced ==
  ASSUME NEW h, NEW l, NEW b, NEW l2, Mails(h), Mails(l), Mails(b), Mails(l2),
         NEW m, NEW s, NEW sent, NEW sent2, Follows(m, s, sent, sent2),
         Sorted(h, l, b, sent), Adds(l, m, l2)
  PROVE  Sorted(h, l2, b, sent2)
<1>1. /\ Real(h, sent2) /\ \A i \in 1..Len(h) : h[i] # m
      /\ Real(l, sent2) /\ Real(b, sent2) /\ \A i \in 1..Len(b) : b[i] # m
  BY RealStays DEF Sorted
<1>2. m[2] \in 1..sent2[m[1]]
  BY FollowsIs
<1>3. Real(l2, sent2)
  BY <1>1, <1>2, RealAdded
<1>4. Apart(h, l2) /\ Apart(b, l2)
  BY <1>1, AllAdded DEF Sorted, Apart
<1>5. Kept(h, l2, b, sent2)
  <2>1. \A x : In(x, l2) <=> In(x, l) \/ x = m
    BY InAdded DEF Mails
  <2>2. QED
    BY <2>1, KeptMore DEF Sorted
<1>6. QED
  BY <1>1, <1>3, <1>4, <1>5 DEF Sorted

\* What is left of the mailbox when its oldest message has gone.
LEMMA SortedRest ==
  ASSUME NEW h, NEW l, NEW b, NEW b2, Mails(h), Mails(l), Mails(b), Mails(b2),
         NEW m, NEW sent, Sorted(h, l, b, sent), Drops(b, m, b2)
  PROVE  /\ m[2] \in 1..sent[m[1]] /\ Real(b2, sent) /\ Rising(b2) /\ Before(h, b2) /\ Apart(b2, l)
         /\ \A i \in 1..Len(h) : h[i] # m /\ (h[i][1] = m[1] => h[i][2] < m[2])
         /\ \A i \in 1..Len(l) : l[i] # m
         /\ \A i \in 1..Len(b2) : b2[i] # m /\ (m[1] = b2[i][1] => m[2] < b2[i][2])
<1>1. /\ 1 \in 1..Len(b) /\ b[1] = m
      /\ \A j \in 1..Len(b2) : j + 1 \in 1..Len(b) /\ 1 < j + 1 /\ b2[j] = b[j + 1]
  BY DroppedIs
<1>2. m[2] \in 1..sent[m[1]] /\ m[2] \in Nat /\ m[1] \in Sender
  BY <1>1, MailIs DEF Sorted, Real
<1>3. Real(b2, sent)
  BY <1>1 DEF Sorted, Real
<1>4. Rising(b2)
  <2>1. ASSUME NEW i \in 1..Len(b2), NEW j \in 1..Len(b2), i < j, b2[i][1] = b2[j][1]
        PROVE  b2[i][2] < b2[j][2]
    <3>1. i + 1 < j + 1
      BY <2>1
    <3>2. QED
      BY <1>1, <2>1, <3>1 DEF Sorted, Rising
  <2>2. QED
    BY <2>1 DEF Rising
<1>5. Before(h, b2)
  BY <1>1 DEF Sorted, Before
<1>6. Apart(b2, l)
  BY <1>1 DEF Sorted, Apart
<1>7. ASSUME NEW i \in 1..Len(h) PROVE h[i] # m /\ (h[i][1] = m[1] => h[i][2] < m[2])
  <2>1. h[i][1] = m[1] => h[i][2] < m[2]
    BY <1>1 DEF Sorted, Before
  <2>2. QED
    BY <1>2, <2>1
<1>8. \A i \in 1..Len(l) : l[i] # m
  BY <1>1 DEF Sorted, Apart
<1>9. ASSUME NEW i \in 1..Len(b2) PROVE b2[i] # m /\ (m[1] = b2[i][1] => m[2] < b2[i][2])
  <2>1. m[1] = b2[i][1] => m[2] < b2[i][2]
    BY <1>1 DEF Sorted, Rising
  <2>2. QED
    BY <1>2, <2>1
<1>10. QED
  BY <1>2, <1>3, <1>4, <1>5, <1>6, <1>7, <1>8, <1>9

\* The oldest message of the mailbox is handled.
LEMMA SortedHandled ==
  ASSUME NEW h, NEW l, NEW b, NEW h2, NEW b2, Mails(h), Mails(l), Mails(b), Mails(h2), Mails(b2),
         NEW m, NEW sent, Sorted(h, l, b, sent), Drops(b, m, b2), Adds(h, m, h2)
  PROVE  Sorted(h2, l, b2, sent)
<1>1. /\ m[2] \in 1..sent[m[1]] /\ Real(b2, sent) /\ Rising(b2) /\ Before(h, b2) /\ Apart(b2, l)
      /\ \A i \in 1..Len(h) : h[i][1] = m[1] => h[i][2] < m[2]
      /\ \A i \in 1..Len(l) : l[i] # m
      /\ \A i \in 1..Len(b2) : m[1] = b2[i][1] => m[2] < b2[i][2]
  BY SortedRest
<1>2. Real(h2, sent) /\ Rising(h2)
  BY <1>1, RealAdded, RisingAdded DEF Sorted
<1>3. Before(h2, b2)
  <2>1. ASSUME NEW i \in 1..Len(h2), NEW j \in 1..Len(b2), h2[i][1] = b2[j][1]
        PROVE  h2[i][2] < b2[j][2]
    <3>1. CASE h2[i] = m
      BY <1>1, <2>1, <3>1
    <3>2. CASE h2[i] # m
      <4>1. PICK k \in 1..Len(h) : h2[i] = h[k]
        BY <3>2, AllAdded
      <4>2. QED
        BY <1>1, <2>1, <4>1 DEF Before
    <3>3. QED
      BY <3>1, <3>2
  <2>2. QED
    BY <2>1 DEF Before
<1>4. Apart(h2, l)
  BY <1>1, AllAdded DEF Sorted, Apart
<1>5. Kept(h2, l, b2, sent)
  <2>1. \A x : (In(x, h2) <=> In(x, h) \/ x = m) /\ (In(x, b) <=> In(x, b2) \/ x = m)
    BY InAdded, InDropped DEF Mails
  <2>2. QED
    BY <2>1 DEF Sorted, Kept
<1>6. QED
  BY <1>1, <1>2, <1>3, <1>4, <1>5 DEF Sorted

\* The oldest message of the mailbox is a dead letter.
LEMMA SortedDrained ==
  ASSUME NEW h, NEW l, NEW b, NEW l2, NEW b2, Mails(h), Mails(l), Mails(b), Mails(l2), Mails(b2),
         NEW m, NEW sent, Sorted(h, l, b, sent), Drops(b, m, b2), Adds(l, m, l2)
  PROVE  Sorted(h, l2, b2, sent)
<1>1. /\ m[2] \in 1..sent[m[1]] /\ Real(b2, sent) /\ Rising(b2) /\ Before(h, b2) /\ Apart(b2, l)
      /\ \A i \in 1..Len(h) : h[i] # m
      /\ \A i \in 1..Len(b2) : b2[i] # m
  BY SortedRest
<1>2. Real(l2, sent)
  BY <1>1, RealAdded DEF Sorted
<1>3. Apart(h, l2) /\ Apart(b2, l2)
  BY <1>1, AllAdded DEF Sorted, Apart
<1>4. Kept(h, l2, b2, sent)
  <2>1. \A x : (In(x, l2) <=> In(x, l) \/ x = m) /\ (In(x, b) <=> In(x, b2) \/ x = m)
    BY InAdded, InDropped DEF Mails
  <2>2. QED
    BY <2>1 DEF Sorted, Kept
<1>5. QED
  BY <1>1, <1>2, <1>3, <1>4 DEF Sorted

-----------------------------------------------------------------------------
(* The steps of the senders and of the process. *)

Carrying == {"check", "push", "wait", "woken"}

LEMMA BoxIs ==
  ASSUME mailbox \in Seq(Entry)
  PROVE  /\ Mails(Box) /\ Len(Box) = Len(mailbox)
         /\ \A i \in 1..Len(mailbox) : Box[i] = mailbox[i].msg
<1>1. PICK n \in Nat : n = Len(mailbox)
  OBVIOUS
<1>2. PICK b : b = [i \in 1..n |-> mailbox[i].msg]
  OBVIOUS
<1>3. \A i \in 1..n : mailbox[i].msg \in Mail
  <2>1. \A i \in 1..n : mailbox[i] \in Entry
    BY <1>1
  <2>2. \A e \in Entry : e.msg \in Mail
    BY DEF Entry
  <2>3. QED
    BY <2>1, <2>2
<1>4. b \in Seq(Mail) /\ Len(b) = n
  BY <1>2, <1>3
<1>5. Box = b
  BY <1>1, <1>2 DEF Box
<1>6. QED
  BY <1>1, <1>2, <1>4, <1>5 DEF Mails

LEMMA SentIs ==
  ASSUME MailOK, NEW s \in Sender
  PROVE  /\ SentOf[s] = Sent(s) /\ Sent(s) \in Nat /\ sender[s].n \in Nat /\ sender[s].pc \in Place
         /\ sender[s] \in [pc : Place, n : Nat, poison : BOOLEAN]
         /\ Sent(s) = IF sender[s].pc \in Carrying THEN sender[s].n - 1 ELSE sender[s].n
<1>1. SentOf[s] = Sent(s) /\ Sent(s) \in Nat
  BY DEF MailOK, SentOf
<1>2. sender[s] \in [pc : Place, n : Nat, poison : BOOLEAN]
  BY DEF MailOK
<1>3. sender[s].n \in Nat /\ sender[s].pc \in Place
  BY <1>2
<1>4. QED
  BY <1>1, <1>2, <1>3 DEF Sent, Carries, Carrying

\* s goes on at to.
LEMMA AtIs ==
  ASSUME MailOK, NEW s \in Sender, NEW from, NEW to \in Place, At(s, from, to)
  PROVE  /\ sender' \in [Sender -> [pc : Place, n : Nat, poison : BOOLEAN]]
         /\ sender[s].pc = from
         /\ Sent(s)' = IF to \in Carrying THEN sender[s].n - 1 ELSE sender[s].n
         /\ \A u \in Sender : u # s => Sent(u)' = Sent(u)
<1>1. PICK r \in [pc : Place, n : Nat, poison : BOOLEAN] : r = sender[s]
  BY SentIs
<1>2. PICK c : c = [r EXCEPT !.pc = to]
  OBVIOUS
<1>3. c \in [pc : Place, n : Nat, poison : BOOLEAN] /\ c.pc = to /\ c.n = r.n
  BY <1>2
<1>4. sender' = [sender EXCEPT ![s] = c]
  BY <1>1, <1>2 DEF At
<1>5. /\ sender' \in [Sender -> [pc : Place, n : Nat, poison : BOOLEAN]]
      /\ sender'[s] = c /\ \A u \in Sender : u # s => sender'[u] = sender[u]
  BY <1>3, <1>4 DEF MailOK
<1>6. Sent(s)' = IF to \in Carrying THEN sender[s].n - 1 ELSE sender[s].n
  BY <1>1, <1>3, <1>5 DEF Sent, Carries, Carrying
<1>7. \A u \in Sender : u # s => Sent(u)' = Sent(u)
  BY <1>5 DEF Sent, Carries
<1>8. QED
  BY <1>5, <1>6, <1>7 DEF At

LEMMA SentSame ==
  ASSUME \A s \in Sender : Sent(s)' = Sent(s)
  PROVE  SentOf' = SentOf
  BY DEF SentOf

\* s still has its message, or still has none.
LEMMA AtKeeps ==
  ASSUME MailOK, NEW s \in Sender, NEW from, NEW to \in Place, At(s, from, to),
         from \in Carrying <=> to \in Carrying
  PROVE  SentOf' = SentOf /\ sender' \in [Sender -> [pc : Place, n : Nat, poison : BOOLEAN]]
<1>1. Sent(s)' = Sent(s)
  BY AtIs, SentIs
<1>2. \A u \in Sender : Sent(u)' = Sent(u)
  BY <1>1, AtIs
<1>3. QED
  BY <1>2, AtIs, SentSame

\* s gets rid of its message.
LEMMA AtSends ==
  ASSUME MailOK, NEW s \in Sender, NEW from \in Carrying, NEW to \in Place \ Carrying, At(s, from, to)
  PROVE  /\ Follows(Msg(s), s, SentOf, SentOf')
         /\ sender' \in [Sender -> [pc : Place, n : Nat, poison : BOOLEAN]]
<1>1. PICK n \in Nat : n = sender[s].n
  BY SentIs
<1>2. Sent(s) = n - 1 /\ Sent(s)' = n /\ \A u \in Sender : u # s => Sent(u)' = Sent(u)
  BY <1>1, AtIs, SentIs
<1>3. PICK f \in [Sender -> Nat] : f = SentOf /\ f[s] = n - 1
  BY <1>2, SentIs DEF MailOK
<1>4. PICK g : g = [u \in Sender |-> Sent(u)']
  OBVIOUS
<1>5. SentOf' = g
  BY <1>4 DEF SentOf
<1>6. g = [f EXCEPT ![s] = f[s] + 1]
  <2>1. \A u \in Sender : g[u] = IF u = s THEN f[s] + 1 ELSE f[u]
    BY <1>1, <1>2, <1>3, <1>4, SentIs
  <2>2. QED
    BY <1>3, <1>4, <2>1
<1>7. Msg(s) = <<s, f[s] + 1>>
  BY <1>1, <1>3 DEF Msg
<1>8. QED
  BY <1>3, <1>5, <1>6, <1>7, AtIs DEF Follows

LEMMA MailTypes ==
  MailInv => MailOK /\ Mails(handled) /\ Mails(letters) /\ Mails(Box)
  BY BoxIs DEF MailInv, MailOK, Mails

\* No message moves.
LEMMA StillSorted ==
  ASSUME MailInv, Box' = Box, SentOf' = SentOf, UNCHANGED <<handled, letters>>,
         mailbox' \in Seq(Entry),
         sender' \in [Sender -> [pc : Place, n : Nat, poison : BOOLEAN]]
  PROVE  MailInv'
<1>1. PICK h, l, b, f : h = handled /\ l = letters /\ b = Box /\ f = SentOf
  OBVIOUS
<1>2. Sorted(h, l, b, f) /\ MailOK
  BY <1>1 DEF MailInv
<1>3. h = handled' /\ l = letters' /\ b = Box' /\ f = SentOf'
  BY <1>1
<1>4. Sorted(handled, letters, Box, SentOf)'
  BY <1>2, <1>3
<1>5. MailOK'
  BY <1>2 DEF MailOK
<1>6. QED
  BY <1>4, <1>5 DEF MailInv

LEMMA RunSorted ==
  ASSUME MailInv, UNCHANGED <<mailbox, sender, handled, letters>>
  PROVE  MailInv'
<1>1. Box' = Box /\ SentOf' = SentOf
  BY DEF Box, SentOf, Sent, Carries
<1>2. QED
  BY <1>1, StillSorted DEF MailInv, MailOK

LEMMA TurnSorted ==
  ASSUME MailInv, NEW s \in Sender, NEW from, NEW to \in Place, At(s, from, to),
         from \in Carrying <=> to \in Carrying, UNCHANGED <<mailbox, handled, letters>>
  PROVE  MailInv'
<1>1. MailOK
  BY DEF MailInv
<1>2. SentOf' = SentOf /\ sender' \in [Sender -> [pc : Place, n : Nat, poison : BOOLEAN]]
  BY <1>1, AtKeeps
<1>3. Box' = Box
  BY DEF Box
<1>4. QED
  BY <1>1, <1>2, <1>3, StillSorted DEF MailOK

LEMMA AppendAdds ==
  ASSUME NEW q, Mails(q), NEW m \in Mail
  PROVE  Mails(Append(q, m)) /\ Adds(q, m, Append(q, m))
  BY AppendIs DEF Mails, Adds

LEMMA BounceSorted ==
  ASSUME MailInv, NEW s \in Sender, NEW from \in Carrying, Bounces(s, from)
  PROVE  MailInv'
<1>1. MailOK /\ Mails(handled) /\ Mails(letters) /\ Mails(Box)
  BY MailTypes
<1>2. /\ At(s, from, "idle") /\ letters' = Append(letters, Msg(s))
      /\ UNCHANGED <<mailbox, handled>>
  BY DEF Bounces, Letter, box
<1>3. PICK m : m = Msg(s)
  OBVIOUS
<1>4. /\ Follows(m, s, SentOf, SentOf')
      /\ sender' \in [Sender -> [pc : Place, n : Nat, poison : BOOLEAN]]
  <2>1. "idle" \in Place \ Carrying
    BY DEF Place, Carrying
  <2>2. QED
    BY <1>1, <1>2, <1>3, <2>1, AtSends
<1>5. PICK h, l, b, f, g, l2 : /\ h = handled /\ l = letters /\ b = Box /\ f = SentOf
                               /\ g = SentOf' /\ l2 = letters'
  OBVIOUS
<1>6. m \in Mail
  BY <1>4, FollowsIs
<1>7. Mails(l2) /\ Adds(l, m, l2)
  BY <1>1, <1>2, <1>3, <1>5, <1>6, AppendAdds
<1>8. Sorted(h, l2, b, g)
  BY <1>1, <1>4, <1>5, <1>7, SortedBounced DEF MailInv
<1>9. Box' = Box
  BY <1>2 DEF Box
<1>10. Sorted(handled, letters, Box, SentOf)'
  BY <1>2, <1>5, <1>8, <1>9
<1>11. MailOK'
  BY <1>1, <1>2, <1>4, <1>5, <1>7, FollowsIs DEF MailOK, Mails
<1>12. QED
  BY <1>10, <1>11 DEF MailInv

\* tryPush: the entry is the last of the mailbox.
LEMMA QueueSorted ==
  ASSUME MailInv, NEW s \in Sender, At(s, "push", "publish"),
         mailbox' = Append(mailbox, [msg |-> Msg(s), poison |-> sender[s].poison, ready |-> FALSE]),
         UNCHANGED <<handled, letters>>
  PROVE  MailInv'
<1>1. MailOK /\ Mails(handled) /\ Mails(letters) /\ Mails(Box)
  BY MailTypes
<1>2. PICK m : m = Msg(s)
  OBVIOUS
<1>3. /\ Follows(m, s, SentOf, SentOf')
      /\ sender' \in [Sender -> [pc : Place, n : Nat, poison : BOOLEAN]]
  <2>1. "publish" \in Place \ Carrying /\ "push" \in Carrying
    BY DEF Place, Carrying
  <2>2. QED
    BY <1>1, <1>2, <2>1, AtSends
<1>4. m \in Mail
  BY <1>3, FollowsIs
<1>5. PICK p \in BOOLEAN : p = sender[s].poison
  BY <1>1, SentIs
<1>6. PICK e : e = [msg |-> m, poison |-> p, ready |-> FALSE]
  OBVIOUS
<1>7. e \in Entry /\ e.msg = m
  BY <1>4, <1>6 DEF Entry
<1>8. PICK q \in Seq(Entry) : q = mailbox
  BY <1>1 DEF MailOK
<1>9. PICK r : r = Append(q, e) /\ r = mailbox'
  BY <1>2, <1>5, <1>6, <1>8
<1>10. PICK n \in Nat : n = Len(q)
  BY <1>8
<1>11. r \in Seq(Entry) /\ Len(r) = n + 1 /\ r[n + 1] = e /\ \A i \in 1..n : r[i] = q[i]
  <2>1. PICK t : t = Append(q, e)
    OBVIOUS
  <2>2. t \in Seq(Entry) /\ Len(t) = n + 1 /\ t[n + 1] = e /\ \A i \in 1..n : t[i] = q[i]
    BY <1>7, <1>10, <2>1, AppendIs
  <2>3. QED
    BY <1>9, <2>1, <2>2
<1>12. PICK b, c : b = Box /\ c = Box'
  OBVIOUS
<1>13. Len(b) = n /\ \A i \in 1..n : b[i] = q[i].msg
  BY <1>8, <1>10, <1>12, BoxIs
<1>14. c = [i \in 1..(n + 1) |-> r[i].msg]
  BY <1>9, <1>11, <1>12 DEF Box
<1>15. Mails(c) /\ Len(c) = n + 1
  <2>1. \A i \in 1..(n + 1) : r[i].msg \in Mail
    <3>1. \A i \in 1..(n + 1) : r[i] \in Entry
      BY <1>11
    <3>2. \A x \in Entry : x.msg \in Mail
      BY DEF Entry
    <3>3. QED
      BY <3>1, <3>2
  <2>2. QED
    BY <1>10, <1>14, <2>1 DEF Mails
<1>16. Adds(b, m, c)
  <2>1. n + 1 \in 1..(n + 1) /\ \A i \in 1..n : i \in 1..(n + 1)
    BY <1>10
  <2>2. QED
    BY <1>7, <1>11, <1>13, <1>14, <1>15, <2>1 DEF Adds
<1>17. PICK h, l, f, g : h = handled /\ l = letters /\ f = SentOf /\ g = SentOf'
  OBVIOUS
<1>18. Sorted(h, l, c, g)
  BY <1>1, <1>3, <1>12, <1>15, <1>16, <1>17, SortedQueued DEF MailInv
<1>19. Sorted(handled, letters, Box, SentOf)'
  BY <1>12, <1>17, <1>18
<1>20. MailOK'
  BY <1>1, <1>3, <1>9, <1>11, FollowsIs DEF MailOK
<1>21. QED
  BY <1>19, <1>20 DEF MailInv

\* The oldest entry leaves the mailbox.
LEMMA PopIs ==
  ASSUME MailInv, mailbox # <<>>, mailbox' = Tail(mailbox)
  PROVE  /\ mailbox' \in Seq(Entry) /\ Mails(Box') /\ Head(mailbox).msg \in Mail
         /\ Drops(Box, Head(mailbox).msg, Box')
<1>1. PICK q \in Seq(Entry) : q = mailbox
  BY DEF MailInv, MailOK
<1>2. PICK r, e : r = Tail(q) /\ e = Head(q)
  OBVIOUS
<1>3. PICK n \in Nat : n = Len(q)
  OBVIOUS
<1>4. /\ e \in Entry /\ e = q[1] /\ r \in Seq(Entry) /\ n >= 1 /\ Len(r) = n - 1
      /\ \A i \in 1..(n - 1) : r[i] = q[i + 1]
  <2>1. q # <<>>
    BY <1>1
  <2>2. QED
    BY <1>2, <1>3, <2>1, TailIs
<1>5. r = mailbox'
  BY <1>1, <1>2
<1>6. PICK b, c : b = Box /\ c = Box'
  OBVIOUS
<1>7. Len(b) = n /\ \A i \in 1..n : b[i] = q[i].msg
  BY <1>1, <1>3, <1>6, BoxIs
<1>8. PICK k \in Nat : k = n - 1
  BY <1>3, <1>4
<1>9. c = [i \in 1..k |-> r[i].msg]
  BY <1>4, <1>5, <1>6, <1>8 DEF Box
<1>10. \A x \in Entry : x.msg \in Mail
  BY DEF Entry
<1>11. Mails(c) /\ Len(c) = k
  <2>1. \A i \in 1..k : r[i] \in Entry
    BY <1>4, <1>8
  <2>2. QED
    BY <1>9, <1>10, <2>1 DEF Mails
<1>12. Drops(b, e.msg, c)
  <2>1. \A i \in 1..k : c[i] = r[i].msg /\ r[i] = q[i + 1] /\ i + 1 \in 1..n
    BY <1>4, <1>8, <1>9
  <2>2. 1 \in 1..n
    BY <1>4
  <2>3. QED
    BY <1>4, <1>7, <1>8, <1>11, <2>1, <2>2 DEF Drops
<1>13. QED
  BY <1>1, <1>2, <1>4, <1>5, <1>6, <1>10, <1>11, <1>12

\* invoke, whatever comes of it.
LEMMA InvokeSorted ==
  ASSUME MailInv, mailbox # <<>>, mailbox' = Tail(mailbox),
         handled' = Append(handled, Head(mailbox).msg), UNCHANGED <<sender, letters>>
  PROVE  MailInv'
<1>1. MailOK /\ Mails(handled) /\ Mails(letters) /\ Mails(Box)
  BY MailTypes
<1>2. PICK m : m = Head(mailbox).msg
  OBVIOUS
<1>3. mailbox' \in Seq(Entry) /\ Mails(Box') /\ m \in Mail /\ Drops(Box, m, Box')
  BY <1>2, PopIs
<1>4. SentOf' = SentOf
  BY DEF SentOf, Sent, Carries
<1>5. PICK h, l, b, f, h2, b2 : /\ h = handled /\ l = letters /\ b = Box /\ f = SentOf
                                /\ h2 = handled' /\ b2 = Box'
  OBVIOUS
<1>6. Mails(h2) /\ Adds(h, m, h2)
  BY <1>1, <1>2, <1>3, <1>5, AppendAdds
<1>7. Sorted(h, l, b, f)
  BY <1>5 DEF MailInv
<1>8. Sorted(h2, l, b2, f)
  BY <1>1, <1>3, <1>5, <1>6, <1>7, SortedHandled
<1>9. Sorted(handled, letters, Box, SentOf)'
  BY <1>4, <1>5, <1>8
<1>10. MailOK'
  BY <1>1, <1>3, <1>4, <1>5, <1>6 DEF MailOK, Mails
<1>11. QED
  BY <1>9, <1>10 DEF MailInv

\* shutdown: the mailbox is drained into the dead letters.
LEMMA DrainSorted ==
  ASSUME MailInv, mailbox # <<>>, mailbox' = Tail(mailbox),
         letters' = Append(letters, Head(mailbox).msg), UNCHANGED <<sender, handled>>
  PROVE  MailInv'
<1>1. MailOK /\ Mails(handled) /\ Mails(letters) /\ Mails(Box)
  BY MailTypes
<1>2. PICK m : m = Head(mailbox).msg
  OBVIOUS
<1>3. mailbox' \in Seq(Entry) /\ Mails(Box') /\ m \in Mail /\ Drops(Box, m, Box')
  BY <1>2, PopIs
<1>4. SentOf' = SentOf
  BY DEF SentOf, Sent, Carries
<1>5. PICK h, l, b, f, l2, b2 : /\ h = handled /\ l = letters /\ b = Box /\ f = SentOf
                                /\ l2 = letters' /\ b2 = Box'
  OBVIOUS
<1>6. Mails(l2) /\ Adds(l, m, l2)
  BY <1>1, <1>2, <1>3, <1>5, AppendAdds
<1>7. Sorted(h, l, b, f)
  BY <1>5 DEF MailInv
<1>8. Sorted(h, l2, b2, f)
  BY <1>1, <1>3, <1>5, <1>6, <1>7, SortedDrained
<1>9. Sorted(handled, letters, Box, SentOf)'
  BY <1>4, <1>5, <1>8
<1>10. MailOK'
  BY <1>1, <1>3, <1>4, <1>5, <1>6 DEF MailOK, Mails
<1>11. QED
  BY <1>9, <1>10 DEF MailInv

\* tryPush: the entry can be seen.
LEMMA PublishSorted ==
  ASSUME MailInv, NEW s \in Sender, Publish(s)
  PROVE  MailInv'
<1>1. MailOK
  BY DEF MailInv
<1>2. /\ At(s, "publish", "signal") /\ UNCHANGED <<handled, letters>>
      /\ mailbox' = [i \in DOMAIN mailbox |->
           IF mailbox[i].msg = Msg(s) THEN [mailbox[i] EXCEPT !.ready = TRUE] ELSE mailbox[i]]
  BY DEF Publish, log
<1>3. PICK q \in Seq(Entry) : q = mailbox
  BY <1>1 DEF MailOK
<1>4. PICK n \in Nat : n = Len(q) /\ DOMAIN q = 1..n
  OBVIOUS
<1>5. PICK m, r : m = Msg(s) /\ r = mailbox'
  OBVIOUS
<1>6. r = [i \in 1..n |-> IF q[i].msg = m THEN [q[i] EXCEPT !.ready = TRUE] ELSE q[i]]
  BY <1>2, <1>3, <1>4, <1>5
<1>7. \A e \in Entry : [e EXCEPT !.ready = TRUE] \in Entry /\ [e EXCEPT !.ready = TRUE].msg = e.msg
  BY DEF Entry
<1>8. \A i \in 1..n : r[i] \in Entry /\ r[i].msg = q[i].msg
  BY <1>4, <1>6, <1>7
<1>9. r \in Seq(Entry) /\ Len(r) = n
  <2>1. r = [i \in 1..n |-> r[i]]
    BY <1>6
  <2>2. r \in [1..n -> Entry]
    BY <1>8, <2>1
  <2>3. QED
    BY <1>4, <2>2
<1>10. Box' = Box
  BY <1>3, <1>4, <1>5, <1>8, <1>9 DEF Box
<1>11. SentOf' = SentOf /\ sender' \in [Sender -> [pc : Place, n : Nat, poison : BOOLEAN]]
  <2>1. "signal" \in Place /\ ("publish" \in Carrying <=> "signal" \in Carrying)
    BY DEF Place, Carrying
  <2>2. QED
    BY <1>1, <1>2, <2>1, AtKeeps
<1>12. QED
  BY <1>2, <1>5, <1>9, <1>10, <1>11, StillSorted

\* Ref.Send, Ref.Poison: the sender has one message more, and carries it.
LEMMA SendSorted ==
  ASSUME MailInv, NEW s \in Sender, Send(s)
  PROVE  MailInv'
<1>1. MailOK
  BY DEF MailInv
<1>2. PICK poison \in {FALSE, (s \in Poisoner)} :
        sender' = [sender EXCEPT ![s] = [pc |-> "check", n |-> @.n + 1, poison |-> poison]]
  BY DEF Send
<1>3. sender[s].pc = "idle" /\ UNCHANGED <<mailbox, handled, letters>>
  BY DEF Send, box, log
<1>4. PICK n \in Nat, p \in BOOLEAN : n = sender[s].n /\ p = poison
  <2>1. sender[s].n \in Nat
    BY <1>1, SentIs
  <2>2. poison \in BOOLEAN
    <3>1. (s \in Poisoner) \in BOOLEAN
      <4>1. (s \in Poisoner) = TRUE \/ (s \in Poisoner) = FALSE
        OBVIOUS
      <4>2. QED
        BY <4>1
    <3>2. {FALSE, (s \in Poisoner)} \subseteq BOOLEAN
      BY Zenon, <3>1
    <3>3. QED
      BY Zenon, <3>2
  <2>3. QED
    BY Zenon, <2>1, <2>2
<1>5. PICK c : c = [pc |-> "check", n |-> n + 1, poison |-> p]
  OBVIOUS
<1>6. c \in [pc : Place, n : Nat, poison : BOOLEAN] /\ c.pc = "check" /\ c.n = n + 1
  BY <1>5 DEF Place
<1>7. sender' = [sender EXCEPT ![s] = c]
  BY <1>2, <1>4, <1>5
<1>8. /\ sender' \in [Sender -> [pc : Place, n : Nat, poison : BOOLEAN]]
      /\ sender'[s] = c /\ \A u \in Sender : u # s => sender'[u] = sender[u]
  BY <1>1, <1>6, <1>7 DEF MailOK
<1>9. Sent(s)' = Sent(s)
  <2>1. Sent(s) = n
    BY <1>3, <1>4 DEF Sent, Carries
  <2>2. Sent(s)' = (n + 1) - 1
    BY <1>6, <1>8 DEF Sent, Carries
  <2>3. QED
    BY <2>1, <2>2
<1>10. \A u \in Sender : Sent(u)' = Sent(u)
  BY <1>8, <1>9 DEF Sent, Carries
<1>11. Box' = Box
  BY <1>3 DEF Box
<1>12. QED
  BY <1>1, <1>3, <1>8, <1>10, <1>11, SentSame, StillSorted DEF MailOK

LEMMA CheckSorted ==
  ASSUME MailInv, NEW s \in Sender, Check(s)
  PROVE  MailInv'
<1>1. PICK from \in {"check", "woken"} :
        \/ dead /\ Bounces(s, from)
        \/ ~dead /\ At(s, from, "push") /\ UNCHANGED <<box, stop, life, log, counters>>
  BY DEF Check
<1>2. from \in Carrying /\ "push" \in Carrying /\ "push" \in Place
  BY DEF Carrying, Place
<1>3. CASE Bounces(s, from)
  BY <1>2, <1>3, BounceSorted
<1>4. CASE At(s, from, "push") /\ UNCHANGED <<box, stop, life, log, counters>>
  BY <1>2, <1>4, TurnSorted DEF box, log
<1>5. QED
  BY <1>1, <1>3, <1>4

LEMMA PushSorted ==
  ASSUME MailInv, NEW s \in Sender, Push(s)
  PROVE  MailInv'
<1>1. "push" \in Carrying /\ "wait" \in Carrying /\ "wait" \in Place
  BY DEF Carrying, Place
<1>2. CASE /\ At(s, "push", "publish")
           /\ mailbox' = Append(mailbox, [msg |-> Msg(s), poison |-> sender[s].poison, ready |-> FALSE])
           /\ UNCHANGED <<notify, space, stop, life, log, counters>>
  BY <1>2, QueueSorted DEF log
<1>3. CASE Bounces(s, "push")
  BY <1>1, <1>3, BounceSorted
<1>4. CASE At(s, "push", "wait") /\ UNCHANGED <<box, stop, life, log, counters>>
  BY <1>1, <1>4, TurnSorted DEF box, log
<1>5. QED
  BY <1>2, <1>3, <1>4 DEF Push

LEMMA WaitSorted ==
  ASSUME MailInv, NEW s \in Sender, Wait(s)
  PROVE  MailInv'
<1>1. "wait" \in Carrying /\ "woken" \in Carrying /\ "woken" \in Place
  BY DEF Carrying, Place
<1>2. CASE At(s, "wait", "woken") /\ UNCHANGED <<mailbox, notify, stop, life, log, counters>>
  BY <1>1, <1>2, TurnSorted DEF log
<1>3. CASE Bounces(s, "wait")
  BY <1>1, <1>3, BounceSorted
<1>4. QED
  BY <1>2, <1>3 DEF Wait

LEMMA SignalSorted ==
  ASSUME MailInv, NEW s \in Sender, Signal(s)
  PROVE  MailInv'
<1>1. "idle" \in Place /\ ("signal" \in Carrying <=> "idle" \in Carrying)
  BY DEF Carrying, Place
<1>2. QED
  BY <1>1, TurnSorted DEF Signal, log

LEMMA RunsSorted ==
  ASSUME MailInv, Runs
  PROVE  MailInv'
<1>1. CASE PreStart
  BY <1>1, RunSorted DEF PreStart, box, log
<1>2. CASE TakeCtrl
  BY <1>2, RunSorted DEF TakeCtrl, box, log
<1>3. CASE Invoke
  <2>1. mailbox # <<>> /\ handled' = Append(handled, Head(mailbox).msg) /\ UNCHANGED <<sender, letters>>
    BY <1>3 DEF Invoke, HasHead
  <2>2. mailbox' = Tail(mailbox)
    BY <1>3 DEF Invoke, Pop, AfterFailure
  <2>3. QED
    BY <2>1, <2>2, InvokeSorted
<1>4. CASE GoToSleep
  BY <1>4, RunSorted DEF GoToSleep, box, log
<1>5. CASE Wake
  BY <1>5, RunSorted DEF Wake, log
<1>6. CASE SetDead
  BY <1>6, RunSorted DEF SetDead, box, log
<1>7. CASE Drain
  <2>1. UNCHANGED <<sender, handled>>
    BY <1>7 DEF Drain
  <2>2. CASE HasHead /\ Pop /\ letters' = Letter(Head(mailbox).msg)
    <3>1. /\ mailbox # <<>> /\ mailbox' = Tail(mailbox)
          /\ letters' = Append(letters, Head(mailbox).msg)
      BY <2>2 DEF HasHead, Pop, Letter
    <3>2. QED
      BY <2>1, <3>1, DrainSorted
  <2>3. CASE UNCHANGED <<box, letters>>
    BY <2>1, <2>3, RunSorted DEF box
  <2>4. QED
    BY <1>7, <2>2, <2>3 DEF Drain
<1>8. CASE Close
  BY <1>8, RunSorted DEF Close, box, log
<1>9. QED
  BY <1>1, <1>2, <1>3, <1>4, <1>5, <1>6, <1>7, <1>8 DEF Runs

LEMMA MailStep == MailInv /\ [Next]_vars => MailInv'
<1> SUFFICES ASSUME MailInv, [Next]_vars PROVE MailInv'
  OBVIOUS
<1>1. CASE \E s \in Sender : Send(s) \/ Sends(s)
  BY <1>1, SendSorted, CheckSorted, PushSorted, PublishSorted, SignalSorted, WaitSorted DEF Sends
<1>2. CASE Stop
  BY <1>2, RunSorted DEF Stop, box, log
<1>3. CASE Runs
  BY <1>3, RunsSorted
<1>4. CASE UNCHANGED vars
  BY <1>4, RunSorted DEF vars
<1>5. QED
  BY <1>1, <1>2, <1>3, <1>4 DEF Next

-----------------------------------------------------------------------------

LEMMA NoMail ==
  ASSUME NEW q, q \in Seq(Mail), q = <<>>
  PROVE  Len(q) = 0 /\ \A i : i \notin 1..Len(q)
  OBVIOUS

LEMMA MailInit == Init => MailInv
<1> SUFFICES ASSUME Init PROVE MailInv
  OBVIOUS
<1>1. /\ mailbox = <<>> /\ handled = <<>> /\ letters = <<>>
      /\ sender = [s \in Sender |-> [pc |-> "idle", n |-> 0, poison |-> FALSE]]
  BY DEF Init
<1>2. \A s \in Sender : Sent(s) = 0
  BY <1>1 DEF Sent, Carries
<1>3. SentOf \in [Sender -> Nat] /\ \A s \in Sender : SentOf[s] = 0
  BY <1>2 DEF SentOf
<1>4. MailOK
  <2>1. [pc |-> "idle", n |-> 0, poison |-> FALSE] \in [pc : Place, n : Nat, poison : BOOLEAN]
    BY DEF Place
  <2>2. QED
    BY <1>1, <1>3, <2>1 DEF MailOK
<1>5. Len(mailbox) = 0 /\ Len(handled) = 0 /\ Len(letters) = 0
  BY <1>1, EmptySeq
<1>6. Len(Box) = 0
  BY <1>4, <1>5, BoxIs DEF MailOK
<1>7. PICK h, l, b, f : h = handled /\ l = letters /\ b = Box /\ f = SentOf
  OBVIOUS
<1>8. /\ \A i : i \notin 1..Len(h) /\ i \notin 1..Len(l) /\ i \notin 1..Len(b)
      /\ \A s \in Sender : \A n : n \notin 1..f[s]
  BY <1>3, <1>5, <1>6, <1>7
<1>9. Sorted(h, l, b, f)
  BY <1>8 DEF Sorted, Real, Rising, Before, Apart, Kept
<1>10. QED
  BY <1>4, <1>7, <1>9 DEF MailInv

LEMMA MailDelivered == MailInv => NothingVanishes
<1> SUFFICES ASSUME MailInv PROVE NothingVanishes
  OBVIOUS
<1>1. MailOK /\ Mails(handled) /\ Mails(letters) /\ Mails(Box)
  BY MailTypes
<1>2. PICK h, l, b, f : h = handled /\ l = letters /\ b = Box /\ f = SentOf
  OBVIOUS
<1>3. Sorted(h, l, b, f)
  BY <1>2 DEF MailInv
<1>4. DOMAIN h = 1..Len(h) /\ DOMAIN l = 1..Len(l) /\ DOMAIN mailbox = 1..Len(mailbox)
  BY <1>1, <1>2 DEF Mails, MailOK
<1>5. Range(handled) \cap Range(letters) = {}
  BY <1>2, <1>3, <1>4 DEF Sorted, Apart, Range
<1>6. ASSUME NEW s \in Sender PROVE InOrder(s)
  BY <1>2, <1>3, <1>4 DEF Sorted, Rising, InOrder
<1>7. ASSUME NEW s \in Sender, NEW n \in 1..sender[s].n
      PROVE  \/ <<s, n>> \in Range(handled) \cup Range(letters)
                              \cup {mailbox[i].msg : i \in DOMAIN mailbox}
             \/ n = sender[s].n /\ sender[s].pc \notin {"idle", "signal"}
  <2>1. PICK k \in Nat, c \in Place : k = sender[s].n /\ c = sender[s].pc
    BY <1>1, SentIs
  <2>2. f[s] = IF c \in Carrying THEN k - 1 ELSE k
    BY <1>1, <1>2, <2>1, SentIs
  <2>3. CASE n \in 1..f[s]
    <3>1. In(<<s, n>>, h) \/ In(<<s, n>>, l) \/ In(<<s, n>>, b)
      BY <1>3, <2>3 DEF Sorted, Kept
    <3>2. CASE In(<<s, n>>, h)
      BY <1>2, <1>4, <3>2 DEF In, Range
    <3>3. CASE In(<<s, n>>, l)
      BY <1>2, <1>4, <3>3 DEF In, Range
    <3>4. CASE In(<<s, n>>, b)
      BY <1>1, <1>2, <1>4, <3>4, BoxIs DEF In, MailOK
    <3>5. QED
      BY <3>1, <3>2, <3>3, <3>4
  <2>4. CASE n \notin 1..f[s]
    <3>1. c \in Carrying /\ n = k
      BY <2>1, <2>2, <2>4
    <3>2. c \notin {"idle", "signal"}
      BY <3>1 DEF Carrying
    <3>3. QED
      BY <2>1, <3>1, <3>2
  <2>5. QED
    BY <2>3, <2>4
<1>8. QED
  BY <1>5, <1>6, <1>7 DEF NothingVanishes

\* Delivery, whatever the senders, the panics, the restarts and the end of the
\* process: the messages of a sender are handled in order and at most once, none is
\* a dead letter too, and none is lost while the process lives.
THEOREM Delivery == Spec => []NothingVanishes
<1>1. Init => MailInv
  BY MailInit
<1>2. MailInv /\ [Next]_vars => MailInv'
  BY MailStep
<1>3. MailInv => NothingVanishes
  BY MailDelivered
<1>4. QED
  BY <1>1, <1>2, <1>3, PTL DEF Spec
=====
