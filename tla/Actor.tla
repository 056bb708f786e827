-------------------------------- MODULE Actor --------------------------------
(***************************************************************************)
(* pkg/actor: one process, its two queues and the goroutines that send to  *)
(* it.  The ring of the mailbox is used by its specification, Fifo.tla: a  *)
(* push takes its place in one step and is visible in a later one.  A      *)
(* process has no children here.                                           *)
(***************************************************************************)
EXTENDS Integers, Sequences, FiniteSets, SequencesExt

CONSTANTS Sender,
          Poisoner,      \* the senders that call Ref.Poison too
          Size,          \* MailboxSize, rounded by ringbuf.New
          Overflows,     \* the overflow policies to look at
          Restarts,      \* Strategy.MaxRestarts
          MaxSends,      \* bound on all sends
          MaxFailures    \* bound on calls of the actor that panic

ASSUME ActorAssumption ==
  /\ IsFiniteSet(Sender) /\ Poisoner \subseteq Sender /\ Size \in Nat \ {0, 1} /\ Restarts \in Nat
  /\ Overflows \subseteq {"Block", "DropNewest"}
  /\ MaxSends \in Nat /\ MaxFailures \in Nat

Message == Sender \X (1..MaxSends)

VARIABLES overflow,      \* Props.Overflow
          mailbox,       \* entries [msg, poison, ready]
          notify, space, \* the two signal channels of the mailbox
          ctrl,          \* ctrlStop is in the control queue
          ctrlNotify,    \* its signal channel
          stopper,       \* where Ref.Stop is
          pc,            \* where the process's goroutine is
          dead, stopped, \* process.dead; stoppedCh is closed
          restarts,      \* restarts within Window
          sender,        \* sender[s]: where s is in sendUser, and what it sends
          handled,       \* the messages invoke has been given, in order
          letters,       \* the dead letters, in order
          panicked       \* calls of the actor that panicked

box == <<mailbox, notify, space>>
stop == <<ctrl, ctrlNotify, stopper>>
life == <<pc, dead, stopped, restarts>>
log == <<handled, letters>>
counters == <<panicked, overflow>>
vars == <<overflow, mailbox, notify, space, ctrl, ctrlNotify, stopper, pc, dead, stopped, restarts,
          sender, handled, letters, panicked>>

\* Type invariant.
TypeOK ==
  /\ mailbox \in Seq([msg : Message, poison : BOOLEAN, ready : BOOLEAN]) /\ Len(mailbox) <= Size
  /\ {notify, space, ctrl, ctrlNotify, dead, stopped} \subseteq BOOLEAN
  /\ stopper \in {"idle", "signal", "done"}
  /\ pc \in {"start", "ctrl", "user", "sleep", "stopping", "drain", "close", "last", "exited"}
  /\ restarts \in 0..Restarts
  /\ sender \in [Sender -> [pc : {"idle", "check", "push", "publish", "signal", "wait", "woken"},
                            n : 0..MaxSends, poison : BOOLEAN]]
  /\ handled \in Seq(Message) /\ letters \in Seq(Message)
  /\ panicked \in 0..MaxFailures /\ overflow \in Overflows

Init ==
  /\ mailbox = <<>> /\ notify = FALSE /\ space = FALSE
  /\ ctrl = FALSE /\ ctrlNotify = FALSE /\ stopper = "idle"
  /\ pc = "start" /\ dead = FALSE /\ stopped = FALSE /\ restarts = 0
  /\ sender = [s \in Sender |-> [pc |-> "idle", n |-> 0, poison |-> FALSE]]
  /\ handled = <<>> /\ letters = <<>>
  /\ panicked = 0 /\ overflow \in Overflows

-----------------------------------------------------------------------------
(* sendUser. *)

Msg(s) == <<s, sender[s].n>>
At(s, from, to) == sender[s].pc = from /\ sender' = [sender EXCEPT ![s].pc = to]

TotalSends == FoldFunction(+, 0, [s \in Sender |-> sender[s].n])

\* Ref.Send or Ref.Poison.
Send(s) ==
  /\ sender[s].pc = "idle" /\ TotalSends < MaxSends
  /\ \E poison \in {FALSE, (s \in Poisoner)} :
       sender' = [sender EXCEPT ![s] = [pc |-> "check", n |-> @.n + 1, poison |-> poison]]
  /\ UNCHANGED <<box, stop, life, log, counters>>

\* Mutant: a message that cannot be delivered is thrown away.
MutLetter(msg) == letters

\* System.deadLetter.
Letter(msg) == Append(letters, msg)

\* The message is a dead letter and sendUser returns.
Bounces(s, from) ==
  /\ At(s, from, "idle")
  /\ letters' = Letter(Msg(s))
  /\ UNCHANGED <<box, stop, life, handled, counters>>

\* The load of dead, before the first push and after a wake-up.
Check(s) ==
  \E from \in {"check", "woken"} :
    /\ sender[s].pc = from
    /\ \/ dead /\ Bounces(s, from)
       \/ ~dead /\ At(s, from, "push") /\ UNCHANGED <<box, stop, life, log, counters>>

HasRoom == Len(mailbox) < Size

\* tryPush: take a place.
Push(s) ==
  \/ /\ HasRoom
     /\ At(s, "push", "publish")
     /\ mailbox' = Append(mailbox, [msg |-> Msg(s), poison |-> sender[s].poison, ready |-> FALSE])
     /\ UNCHANGED <<notify, space, stop, life, log, counters>>
  \/ /\ ~HasRoom /\ overflow = "DropNewest"
     /\ Bounces(s, "push")
  \/ /\ ~HasRoom /\ overflow = "Block"
     /\ At(s, "push", "wait")
     /\ UNCHANGED <<box, stop, life, log, counters>>

Publish(s) ==
  /\ At(s, "publish", "signal")
  /\ mailbox' = [i \in DOMAIN mailbox |->
       IF mailbox[i].msg = Msg(s) THEN [mailbox[i] EXCEPT !.ready = TRUE] ELSE mailbox[i]]
  /\ UNCHANGED <<notify, space, stop, life, log, counters>>

\* Mutant: the consumer is not woken.
MutSignalled == notify

\* signal(notify): a signal that is there already is enough.
Signalled == TRUE

Signal(s) ==
  /\ At(s, "signal", "idle")
  /\ notify' = Signalled
  /\ UNCHANGED <<mailbox, space, stop, life, log, counters>>

\* Mutant: a blocked sender does not look at stoppedCh.
MutReleased == FALSE

\* The second case of the select.
Released == stopped

Wait(s) ==
  /\ sender[s].pc = "wait"
  /\ \/ /\ space /\ space' = FALSE
        /\ At(s, "wait", "woken")
        /\ UNCHANGED <<mailbox, notify, stop, life, log, counters>>
     \/ Released /\ Bounces(s, "wait")

-----------------------------------------------------------------------------
(* run. *)

\* ctrlQueue.push signals after the item is in the queue.
CtrlSignalled == TRUE

\* Ref.Stop: push, then the signal.
Stop ==
  /\ \/ stopper = "idle" /\ ctrl' = TRUE /\ stopper' = "signal" /\ UNCHANGED ctrlNotify
     \/ stopper = "signal" /\ ctrlNotify' = CtrlSignalled /\ stopper' = "done" /\ UNCHANGED ctrl
  /\ UNCHANGED <<box, life, sender, log, counters>>

\* allowRestart, with the limits of Strategy: recent are the restarts within Window.
MayRestart(recent) == recent < Restarts

\* handleFailure: the directive is Resume, Restart within the limit, or Stop (also
\* the end of Escalate and of a restart over the limit).  Restarts older than
\* Window do not count.
HandleFailure ==
  /\ panicked < MaxFailures /\ panicked' = panicked + 1
  /\ \/ pc' \in {"ctrl", "stopping"} /\ UNCHANGED restarts
     \/ \E recent \in 0..restarts :
          MayRestart(recent) /\ restarts' = recent + 1 /\ pc' = "start"

\* safePreStart, of the first instance or of a fresh one.
PreStart ==
  /\ pc = "start"
  /\ \/ pc' = "ctrl" /\ UNCHANGED <<restarts, panicked>>
     \/ HandleFailure
  /\ UNCHANGED <<box, stop, dead, stopped, sender, log, overflow>>

\* The control queue goes first.
TakeCtrl ==
  /\ pc = "ctrl"
  /\ pc' = IF ctrl THEN "stopping" ELSE "user"
  /\ ctrl' = FALSE
  /\ UNCHANGED <<box, ctrlNotify, stopper, dead, stopped, restarts, sender, log, counters>>

\* TryPop finds an entry: one that is taken but not published hides those behind it.
HasHead == mailbox # <<>> /\ Head(mailbox).ready

\* Mutant: a place is signalled only when it ends a full mailbox, which is too seldom
\* when two senders wait and their signals fall together.
MutPop == mailbox' = Tail(mailbox) /\ space' = (space \/ ~HasRoom) /\ UNCHANGED notify

\* tryPop.
Pop == mailbox' = Tail(mailbox) /\ space' = TRUE /\ UNCHANGED notify

\* A failure does not touch the mailbox, from which the message has been taken.
AfterFailure == Tail(mailbox)

\* invoke: a poison pill, or Receive, which returns or panics.
Invoke ==
  /\ pc = "user" /\ HasHead
  /\ handled' = Append(handled, Head(mailbox).msg)
  /\ \/ /\ Pop
        /\ pc' = IF Head(mailbox).poison THEN "stopping" ELSE "ctrl"
        /\ UNCHANGED <<restarts, panicked>>
     \/ /\ ~Head(mailbox).poison /\ HandleFailure
        /\ mailbox' = AfterFailure /\ space' = TRUE /\ UNCHANGED notify
  /\ UNCHANGED <<stop, dead, stopped, sender, letters, overflow>>

GoToSleep ==
  /\ pc = "user" /\ ~HasHead
  /\ pc' = "sleep"
  /\ UNCHANGED <<box, stop, dead, stopped, restarts, sender, log, counters>>

Wake ==
  /\ pc = "sleep" /\ pc' = "ctrl"
  /\ \/ ctrlNotify /\ ctrlNotify' = FALSE /\ UNCHANGED notify
     \/ notify /\ notify' = FALSE /\ UNCHANGED ctrlNotify
  /\ UNCHANGED <<mailbox, space, ctrl, stopper, dead, stopped, restarts, sender, log, counters>>

\* shutdown: dead is set, the mailbox drained, stoppedCh closed, and drained again.
SetDead ==
  /\ pc = "stopping" /\ pc' = "drain" /\ dead' = TRUE
  /\ UNCHANGED <<box, stop, stopped, restarts, sender, log, counters>>

Drain ==
  /\ pc \in {"drain", "last"}
  /\ \/ /\ HasHead /\ Pop
        /\ letters' = Letter(Head(mailbox).msg)
        /\ UNCHANGED pc
     \/ /\ ~HasHead
        /\ pc' = IF pc = "drain" THEN "close" ELSE "exited"
        /\ UNCHANGED <<box, letters>>
  /\ UNCHANGED <<stop, dead, stopped, restarts, sender, handled, counters>>

Close ==
  /\ pc = "close" /\ pc' = "last" /\ stopped' = TRUE
  /\ UNCHANGED <<box, stop, dead, restarts, sender, log, counters>>

-----------------------------------------------------------------------------

Sends(s) == Check(s) \/ Push(s) \/ Publish(s) \/ Signal(s) \/ Wait(s)
Runs == PreStart \/ TakeCtrl \/ Invoke \/ GoToSleep \/ Wake \/ SetDead \/ Drain \/ Close

Next == (\E s \in Sender : Send(s) \/ Sends(s)) \/ Stop \/ Runs

Spec == Init /\ [][Next]_vars

-----------------------------------------------------------------------------
(* Properties. *)

\* The messages of a sender are handled in the order it sent them.
InOrder(s) ==
  \A i, j \in DOMAIN handled :
    i < j /\ handled[i][1] = s /\ handled[j][1] = s => handled[i][2] < handled[j][2]

\* Delivery: messages of a sender are handled in order and at most once, none is a
\* dead letter too, and while the process lives none is lost: it is handled, a dead
\* letter, or in the mailbox; panics, restarts and both overflow policies included.
NothingVanishes ==
  /\ Range(handled) \cap Range(letters) = {}
  /\ \A s \in Sender :
       /\ InOrder(s)
       /\ pc # "exited" =>
            \A n \in 1..sender[s].n :
              \/ <<s, n>> \in Range(handled) \cup Range(letters)
                              \cup {mailbox[i].msg : i \in DOMAIN mailbox}
              \/ n = sender[s].n /\ sender[s].pc \notin {"idle", "signal"}

\* "A sender to the full mailbox of a dead actor does not block for ever" (comment of
\* sendUser), nor does one to a live actor.
SendReturns == \A s \in Sender : sender[s].pc # "idle" ~> sender[s].pc = "idle"

\* No message waits in the mailbox of a sleeping process: after the last send the
\* mailbox empties, into the actor or the dead letters (NothingVanishes).
EverythingRead == mailbox # <<>> /\ ~dead ~> mailbox = <<>> \/ dead
==============================================================================
