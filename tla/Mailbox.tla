------------------------------ MODULE Mailbox ------------------------------
(***************************************************************************)
(* One lastOnly subscriber of utils/messages/messageHandlerSubscriber.py:  *)
(* the pipe the gateway writes to, the daemon thread that drains it into a *)
(* one-place cache, and the threads that receive() from and empty() it.    *)
(* Messages are numbered in the order in which they are sent.              *)
(*                                                                         *)
(* A process is forked after its constructor has run, and threads do not   *)
(* survive a fork: a subscriber that was constructed there drains its pipe *)
(* in the parent only (DrainInReader = FALSE).                             *)
(***************************************************************************)
EXTENDS Integers, Sequences

CONSTANTS
  Threads,       \* the threads that may call empty() on the subscriber
  MailPipeCap,   \* messages the OS pipe holds
  MaxSent,       \* bound on the messages sent
  MaxFailures,   \* bound on the failures of the pipe
  DrainInReader, \* does the drain thread run in the reader's process?
  Timeouts       \* may empty() give up on a busy pipe after max_wait_s?

ASSUME MailboxAssumption ==
  /\ MailPipeCap \in Nat \ {0} /\ MaxSent \in Nat /\ MaxFailures \in Nat
  /\ DrainInReader \in BOOLEAN /\ Timeouts \in BOOLEAN

VARIABLES
  sent,       \* the number of the last message sent
  pipe,       \* the messages in the pipe, oldest first
  hand,       \* the message the drain thread holds, 0 if none
  cached,     \* _lastonly_cached_message, 0 if none
  discarding, \* _lastonly_discarding
  emptying,   \* emptying[c]: sent when c entered empty(); -1 outside
  failures,   \* how often the pipe has failed
  \* history
  shown,      \* the newest message ever cached
  got,        \* the newest message receive() returned
  lost,       \* the newest message an empty() or a failure took away
  floor       \* messages up to this one were sent before an empty() that returned

mailVars == <<sent, pipe, hand, cached, discarding, emptying, failures, shown,
              got, lost, floor>>

Numbers == 0 .. MaxSent
Newer(m, n) == IF m > n THEN m ELSE n

MailTypeOK ==
  /\ sent \in Numbers
  /\ pipe \in Seq(1 .. MaxSent)
  /\ hand \in Numbers /\ cached \in Numbers
  /\ discarding \in BOOLEAN
  /\ emptying \in [Threads -> -1 .. MaxSent]
  /\ failures \in 0 .. MaxFailures
  /\ shown \in Numbers /\ got \in Numbers /\ lost \in Numbers /\ floor \in Numbers

MailInit ==
  /\ sent = 0 /\ pipe = <<>> /\ hand = 0 /\ cached = 0
  /\ discarding = FALSE
  /\ emptying = [c \in Threads |-> -1]
  /\ failures = 0
  /\ shown = 0 /\ got = 0 /\ lost = 0 /\ floor = 0
----------------------------------------------------------------------------
\* The gateway writes the next message; it blocks while the pipe is full.
Put ==
  /\ sent < MaxSent /\ Len(pipe) < MailPipeCap
  /\ sent' = sent + 1
  /\ pipe' = Append(pipe, sent + 1)
  /\ UNCHANGED <<hand, cached, discarding, emptying, failures, shown, got, lost,
                 floor>>

DrainRecv_TakesNewest ==
  /\ hand = 0 /\ pipe # <<>>
  /\ hand' = pipe[Len(pipe)]
  /\ pipe' = SubSeq(pipe, 1, Len(pipe) - 1)
  /\ UNCHANGED <<sent, cached, discarding, emptying, failures, shown, got, lost,
                 floor>>
\* _recv_once in _lastonly_drain_loop.
DrainRecv ==
  /\ hand = 0 /\ pipe # <<>>
  /\ hand' = Head(pipe)
  /\ pipe' = Tail(pipe)
  /\ UNCHANGED <<sent, cached, discarding, emptying, failures, shown, got, lost,
                 floor>>

DrainStore_KeepsOldest ==
  /\ hand # 0
  /\ hand' = 0
  /\ IF cached # 0 THEN UNCHANGED <<cached, shown>> ELSE cached' = hand /\ shown' = hand
  /\ UNCHANGED <<sent, pipe, discarding, emptying, failures, got, lost, floor>>
\* The locked part of the drain loop: the message replaces the cached one, or is
\* dropped while someone empties.  In the parent of a forked reader it goes to
\* the parent's copy of the cache.
DrainStore ==
  /\ hand # 0
  /\ hand' = 0
  /\ cached' = IF ~DrainInReader THEN cached ELSE IF discarding THEN 0 ELSE hand
  /\ shown' = IF DrainInReader /\ ~discarding THEN hand ELSE shown
  /\ lost' = IF DrainInReader /\ discarding THEN Newer(hand, lost) ELSE lost
  /\ UNCHANGED <<sent, pipe, discarding, emptying, failures, got, floor>>

\* receive() with something to return.
ReceiveCached ==
  /\ cached # 0
  /\ got' = cached
  /\ cached' = 0
  /\ UNCHANGED <<sent, pipe, hand, discarding, emptying, failures, shown, lost,
                 floor>>

\* empty(), first locked part.
EmptyStart(c) ==
  /\ emptying[c] = -1
  /\ emptying' = [emptying EXCEPT ![c] = sent]
  /\ discarding' = TRUE
  /\ cached' = 0 /\ lost' = Newer(cached, lost)
  /\ UNCHANGED <<sent, pipe, hand, failures, shown, got, floor>>

\* empty(), last locked part: the pipe has been quiet, or time is up.
EmptyEnd(c) ==
  /\ emptying[c] >= 0
  /\ pipe = <<>> \/ Timeouts
  /\ floor' = Newer(emptying[c], floor)
  /\ emptying' = [emptying EXCEPT ![c] = -1]
  /\ discarding' = FALSE
  /\ cached' = 0 /\ lost' = Newer(cached, lost)
  /\ UNCHANGED <<sent, pipe, hand, failures, shown, got>>

\* _recover_pipe: the cache is cleared and a new pipe replaces the old one.  The
\* drain thread calls it when its own poll or recv failed, so it holds no
\* message; a thread in empty() may call it at any time.
RecoverPipe ==
  /\ failures < MaxFailures
  /\ hand = 0 \/ \E c \in Threads : emptying[c] >= 0
  /\ failures' = failures + 1
  /\ pipe' = <<>> /\ cached' = 0
  /\ lost' = IF pipe = <<>> THEN Newer(cached, lost) ELSE pipe[Len(pipe)]
  /\ UNCHANGED <<sent, hand, discarding, emptying, shown, got, floor>>

Empty(c) == EmptyStart(c) \/ EmptyEnd(c)

MailNext ==
  \/ Put \/ DrainRecv \/ DrainStore \/ ReceiveCached \/ RecoverPipe
  \/ \E c \in Threads : Empty(c)

MailSpec == MailInit /\ [][MailNext]_mailVars

\* The drain thread and the reader poll for ever, and an empty() that has
\* started returns.
FairMailSpec ==
  /\ MailSpec
  /\ WF_mailVars(DrainRecv) /\ WF_mailVars(DrainStore)
  /\ WF_mailVars(ReceiveCached)
  /\ \A c \in Threads : SF_mailVars(EmptyEnd(c))
----------------------------------------------------------------------------
(* Properties. *)

\* What is on its way to the reader is in the order it was sent, and newer than
\* everything the reader has been offered.
InOrder ==
  /\ \A i \in 1 .. Len(pipe) :
       /\ pipe[i] > shown /\ pipe[i] > hand /\ pipe[i] <= sent
       /\ \A j \in 1 .. Len(pipe) : i < j => pipe[i] < pipe[j]
  /\ hand = 0 \/ (hand > shown /\ hand <= sent)
  /\ cached \in {0, shown} /\ shown <= sent
  /\ got <= shown /\ (cached # 0 => got < cached)

OrderInv == MailTypeOK /\ InOrder

\* The subscriber implements LatestValue: whatever the drain thread, several
\* callers of empty() and pipe failures do, the reader is never offered an older
\* message after a newer one, nor one twice.
Latest == INSTANCE LatestValue WITH slot <- cached
ImplementsLatestValue == Latest!Spec

\* receive() returns messages in the order in which they were sent.
ReadsMoveForward == [][got' # got => got' > got]_mailVars

\* Every message is read, or makes way for a newer one that is, unless an
\* empty() or a failure takes it or a newer one away: nothing is stranded in the
\* pipe, with the drain thread or in the cache.
EveryMessageCounts ==
  \A m \in 1 .. MaxSent : sent >= m ~> got >= m \/ lost >= m

\* "Empties the receiving pipe of any existing data": what was sent before an
\* empty() began is not offered to the reader after it has returned.
EmptiedStaysEmpty == cached # 0 => cached > floor
=============================================================================
