---------------------------- MODULE MailboxProofs ----------------------------
(***************************************************************************)
(* A lastOnly subscriber keeps the order of its messages and implements    *)
(* LatestValue, for any number of messages, failures and emptying threads. *)
(***************************************************************************)
EXTENDS Mailbox, TLAPS

LEMMA NewerType ==
  ASSUME NEW m, NEW n \in Numbers, m \in Numbers \/ m = -1
  PROVE  Newer(m, n) \in Numbers
  BY MailboxAssumption DEF Newer, Numbers, MailboxAssumption

LEMMA InitOrder == MailInit => OrderInv
<1> SUFFICES ASSUME MailInit PROVE OrderInv
  OBVIOUS
<1>1. 0 \in Numbers /\ 0 \in 0 .. MaxFailures /\ -1 \in -1 .. MaxSent
  BY MailboxAssumption DEF Numbers, MailboxAssumption
<1>2. MailTypeOK
  <2>1. emptying \in [Threads -> -1 .. MaxSent]
    BY <1>1 DEF MailInit
  <2>2. pipe \in Seq(1 .. MaxSent)
    BY DEF MailInit
  <2>3. QED
    BY <1>1, <2>1, <2>2 DEF MailInit, MailTypeOK
<1>3. pipe = <<>> /\ sent = 0 /\ hand = 0 /\ cached = 0 /\ shown = 0 /\ got = 0
  BY DEF MailInit
<1>4. InOrder
  BY <1>3 DEF InOrder
<1>5. QED
  BY <1>2, <1>4 DEF OrderInv

\* The next message goes behind everything that is under way.
LEMMA PutOrder ==
  ASSUME OrderInv, Put
  PROVE  OrderInv'
<1> USE MailboxAssumption DEF MailboxAssumption, OrderInv, Numbers
<1>1. pipe \in Seq(1 .. MaxSent) /\ sent \in Nat /\ sent + 1 \in 1 .. MaxSent
  BY DEF Put, MailTypeOK
<1>2. pipe' \in Seq(1 .. MaxSent)
  BY <1>1 DEF Put
<1>3. MailTypeOK'
  BY <1>1, <1>2 DEF Put, MailTypeOK
<1>4. /\ Len(pipe) \in Nat /\ Len(pipe') = Len(pipe) + 1
      /\ pipe'[Len(pipe) + 1] = sent + 1
      /\ \A i \in 1 .. Len(pipe) : pipe'[i] = pipe[i] /\ pipe[i] \in Nat
  BY <1>1 DEF Put
<1>5. UNCHANGED <<hand, cached, shown, got>> /\ sent' = sent + 1
  BY DEF Put
<1>6. hand \in Nat /\ shown \in Nat /\ hand <= sent /\ shown <= sent
  BY DEF MailTypeOK, InOrder
<1>7. ASSUME NEW i \in 1 .. Len(pipe')
      PROVE  /\ pipe'[i] > shown' /\ pipe'[i] > hand' /\ pipe'[i] <= sent'
             /\ \A j \in 1 .. Len(pipe') : i < j => pipe'[i] < pipe'[j]
  <2>1. CASE i = Len(pipe) + 1
    <3>1. \A j \in 1 .. Len(pipe') : ~(i < j)
      BY <1>4, <2>1
    <3>2. pipe'[i] > shown' /\ pipe'[i] > hand' /\ pipe'[i] <= sent'
      BY <1>1, <1>4, <1>5, <1>6, <2>1
    <3>3. QED
      BY <3>1, <3>2
  <2>2. CASE i \in 1 .. Len(pipe)
    <3>1. /\ pipe[i] > shown /\ pipe[i] > hand /\ pipe[i] <= sent
          /\ \A j \in 1 .. Len(pipe) : i < j => pipe[i] < pipe[j]
      BY <2>2 DEF InOrder
    <3>2. ASSUME NEW j \in 1 .. Len(pipe'), i < j
          PROVE  pipe'[i] < pipe'[j]
      <4>1. CASE j = Len(pipe) + 1
        BY <1>1, <1>4, <2>2, <3>1, <4>1
      <4>2. CASE j \in 1 .. Len(pipe)
        BY <1>4, <2>2, <3>1, <3>2, <4>2
      <4>3. QED
        BY <1>4, <4>1, <4>2
    <3>3. pipe'[i] > shown' /\ pipe'[i] > hand' /\ pipe'[i] <= sent'
      BY <1>1, <1>4, <1>5, <1>6, <2>2, <3>1
    <3>4. QED
      BY <3>2, <3>3
  <2>3. QED
    BY <1>4, <2>1, <2>2
<1>8. InOrder'
  BY <1>5, <1>6, <1>7 DEF InOrder, MailTypeOK
<1>9. QED
  BY <1>3, <1>8

\* The oldest message moves from the pipe to the drain thread.
LEMMA DrainRecvOrder ==
  ASSUME OrderInv, DrainRecv
  PROVE  OrderInv'
<1> USE MailboxAssumption DEF MailboxAssumption, OrderInv, Numbers
<1>1. pipe \in Seq(1 .. MaxSent) /\ pipe # <<>>
  BY DEF DrainRecv, MailTypeOK
<1>2. /\ Len(pipe) \in Nat /\ Len(pipe) >= 1 /\ Len(pipe') = Len(pipe) - 1
      /\ hand' = pipe[1] /\ hand' \in 1 .. MaxSent /\ pipe' \in Seq(1 .. MaxSent)
      /\ \A i \in 1 .. Len(pipe') : pipe'[i] = pipe[i + 1] /\ i + 1 \in 1 .. Len(pipe)
      /\ \A i \in 1 .. Len(pipe) : pipe[i] \in Nat
  BY <1>1 DEF DrainRecv
<1>3. MailTypeOK'
  BY <1>2 DEF DrainRecv, MailTypeOK
<1>4. UNCHANGED <<sent, cached, shown, got>>
  BY DEF DrainRecv
<1>5. /\ \A i \in 1 .. Len(pipe) : pipe[i] > shown /\ pipe[i] <= sent
      /\ \A i, j \in 1 .. Len(pipe) : i < j => pipe[i] < pipe[j]
  BY DEF InOrder
<1>6. ASSUME NEW i \in 1 .. Len(pipe')
      PROVE  /\ pipe'[i] > shown' /\ pipe'[i] > hand' /\ pipe'[i] <= sent'
             /\ \A j \in 1 .. Len(pipe') : i < j => pipe'[i] < pipe'[j]
  <2>1. pipe'[i] = pipe[i + 1] /\ i + 1 \in 1 .. Len(pipe) /\ 1 \in 1 .. Len(pipe)
    BY <1>2
  <2>2. pipe[1] < pipe[i + 1] /\ pipe[1] \in Nat /\ pipe[i + 1] \in Nat
    BY <1>2, <1>5, <2>1
  <2>3. pipe'[i] > shown' /\ pipe'[i] > hand' /\ pipe'[i] <= sent'
    BY <1>2, <1>4, <1>5, <2>1, <2>2
  <2>4. ASSUME NEW j \in 1 .. Len(pipe'), i < j
        PROVE  pipe'[i] < pipe'[j]
    <3>1. pipe'[j] = pipe[j + 1] /\ j + 1 \in 1 .. Len(pipe) /\ i + 1 < j + 1
      BY <1>2, <2>4
    <3>2. QED
      BY <1>5, <2>1, <3>1
  <2>5. QED
    BY <2>3, <2>4
<1>7. hand' > shown' /\ hand' <= sent'
  BY <1>2, <1>4, <1>5
<1>8. InOrder'
  BY <1>4, <1>6, <1>7 DEF InOrder
<1>9. QED
  BY <1>3, <1>8

\* The steps on the cache and the flags leave the pipe as it is, or drop it.
LEMMA CacheOrder ==
  ASSUME OrderInv, ReceiveCached \/ RecoverPipe \/ (\E c \in Threads : Empty(c))
  PROVE  OrderInv'
<1> USE MailboxAssumption DEF MailboxAssumption, OrderInv, Numbers
<1>1. CASE ReceiveCached
  BY <1>1 DEF ReceiveCached, MailTypeOK, InOrder
<1>2. CASE RecoverPipe
  <2>1. lost' \in Numbers
    <3>0. pipe \in Seq(1 .. MaxSent)
      BY DEF MailTypeOK
    <3>1. pipe # <<>> => pipe[Len(pipe)] \in 1 .. MaxSent
      BY <3>0
    <3>2. Newer(cached, lost) \in Numbers
      BY NewerType DEF MailTypeOK
    <3>3. QED
      BY <1>2, <3>1, <3>2 DEF RecoverPipe
  <2>2. pipe' = <<>> /\ pipe' \in Seq(1 .. MaxSent)
    BY <1>2 DEF RecoverPipe
  <2>3. failures' \in 0 .. MaxFailures
    BY <1>2 DEF RecoverPipe, MailTypeOK
  <2>4. QED
    BY <1>2, <2>1, <2>2, <2>3 DEF RecoverPipe, MailTypeOK, InOrder
<1>3. ASSUME NEW c \in Threads, Empty(c)
      PROVE  OrderInv'
  <2>1. Newer(cached, lost) \in Numbers
    BY NewerType DEF MailTypeOK
  <2>2. Newer(emptying[c], floor) \in Numbers
    <3>1. emptying[c] \in -1 .. MaxSent
      BY DEF MailTypeOK
    <3>2. emptying[c] \in Numbers \/ emptying[c] = -1
      BY <3>1
    <3>3. QED
      BY <3>2, NewerType DEF MailTypeOK
  <2>3. UNCHANGED <<sent, pipe, hand, shown, got, failures>> /\ cached' = 0
    BY <1>3 DEF Empty, EmptyStart, EmptyEnd
  <2>4. InOrder'
    BY <2>3 DEF InOrder, MailTypeOK
  <2>5. CASE EmptyStart(c)
    <3>1. emptying' \in [Threads -> -1 .. MaxSent]
      BY <2>5 DEF EmptyStart, MailTypeOK
    <3>2. QED
      BY <2>1, <2>3, <2>4, <2>5, <3>1 DEF EmptyStart, MailTypeOK
  <2>6. CASE EmptyEnd(c)
    <3>1. emptying' \in [Threads -> -1 .. MaxSent]
      BY <2>6 DEF EmptyEnd, MailTypeOK
    <3>2. lost' \in Numbers /\ floor' \in Numbers /\ cached' \in Numbers
      BY <2>1, <2>2, <2>3, <2>6 DEF EmptyEnd
    <3>3. MailTypeOK'
      BY <2>3, <2>6, <3>1, <3>2 DEF EmptyEnd, MailTypeOK
    <3>4. QED
      BY <2>4, <3>3
  <2>7. QED
    BY <1>3, <2>5, <2>6 DEF Empty
<1>4. QED
  BY <1>1, <1>2, <1>3

\* The drain thread's message is newer than everything shown and older than the pipe.
LEMMA DrainStoreOrder ==
  ASSUME OrderInv, DrainStore
  PROVE  OrderInv'
<1> USE MailboxAssumption DEF MailboxAssumption, OrderInv, Numbers
<1>1. Newer(hand, lost) \in Numbers
  BY NewerType DEF MailTypeOK
<1>2. MailTypeOK'
  BY <1>1 DEF DrainStore, MailTypeOK
<1>3. /\ hand > shown /\ hand <= sent /\ hand \in Nat /\ shown \in Nat /\ got \in Nat
      /\ hand' = 0 /\ pipe' = pipe /\ sent' = sent /\ got' = got
      /\ shown' \in {hand, shown} /\ cached' \in {0, shown', cached}
      /\ shown' = shown => cached' \in {0, cached}
      /\ shown' = hand => cached' \in {0, hand}
  BY DEF DrainStore, InOrder, MailTypeOK
<1>4. \A i \in 1 .. Len(pipe) :
        pipe[i] \in Nat /\ pipe[i] > hand /\ pipe[i] > shown /\ pipe[i] <= sent
  BY DEF MailTypeOK, InOrder
<1>5. \A i, j \in 1 .. Len(pipe) : i < j => pipe[i] < pipe[j]
  BY DEF InOrder
<1>6. \A i \in 1 .. Len(pipe') :
        /\ pipe'[i] > shown' /\ pipe'[i] > hand' /\ pipe'[i] <= sent'
        /\ \A j \in 1 .. Len(pipe') : i < j => pipe'[i] < pipe'[j]
  BY <1>3, <1>4, <1>5
<1>7. /\ cached' \in {0, shown'} /\ shown' <= sent'
      /\ got' <= shown' /\ (cached' # 0 => got' < cached')
  BY <1>3 DEF InOrder, MailTypeOK
<1>8. InOrder'
  BY <1>3, <1>6, <1>7 DEF InOrder
<1>9. QED
  BY <1>2, <1>8

LEMMA StepOrder == OrderInv /\ [MailNext]_mailVars => OrderInv'
<1> SUFFICES ASSUME OrderInv, [MailNext]_mailVars PROVE OrderInv'
  OBVIOUS
<1>1. CASE UNCHANGED mailVars
  BY <1>1 DEF mailVars, OrderInv, MailTypeOK, InOrder
<1>2. CASE MailNext
  BY <1>2, PutOrder, DrainRecvOrder, DrainStoreOrder, CacheOrder DEF MailNext
<1>3. QED
  BY <1>1, <1>2

\* Messages stay in order on their way to the reader.
THEOREM OrderCorrect == MailSpec => []OrderInv
  BY InitOrder, StepOrder, PTL DEF MailSpec

\* receive() returns messages in the order in which they were sent.
THEOREM ReadsInOrder == MailSpec => ReadsMoveForward
<1>1. OrderInv /\ [MailNext]_mailVars => [got' # got => got' > got]_mailVars
  <2> SUFFICES ASSUME OrderInv, MailNext PROVE got' # got => got' > got
    OBVIOUS
  <2>1. CASE ReceiveCached
    BY <2>1 DEF ReceiveCached, OrderInv, MailTypeOK, InOrder, Numbers
  <2>2. CASE ~ReceiveCached
    BY <2>2 DEF MailNext, Put, DrainRecv, DrainStore, RecoverPipe, Empty, EmptyStart, EmptyEnd
  <2>3. QED
    BY <2>1, <2>2
<1>2. QED
  BY <1>1, OrderCorrect, PTL DEF MailSpec, ReadsMoveForward

\* Every step of the subscriber is a step of LatestValue or invisible to the reader.
THEOREM Refinement == MailSpec => ImplementsLatestValue
<1>1. MailInit => Latest!Init
  BY DEF MailInit, Latest!Init
<1>2. OrderInv /\ [MailNext]_mailVars => [Latest!Next]_<<sent, shown, cached>>
  <2> SUFFICES ASSUME OrderInv, [MailNext]_mailVars
               PROVE  [Latest!Next]_<<sent, shown, cached>>
    OBVIOUS
  <2> USE DEF OrderInv
  <2>1. CASE UNCHANGED mailVars
    BY <2>1 DEF mailVars
  <2>2. CASE Put
    BY <2>2 DEF Put, Latest!Next, Latest!Put
  <2>3. CASE DrainRecv
    BY <2>3 DEF DrainRecv
  <2>4. CASE DrainStore
    <3>1. hand \in Nat /\ shown \in Nat /\ sent \in Nat /\ hand > shown /\ hand <= sent
      BY <2>4, MailboxAssumption DEF DrainStore, MailTypeOK, InOrder, Numbers, MailboxAssumption
    <3>2. CASE ~DrainInReader
      BY <2>4, <3>2 DEF DrainStore
    <3>3. CASE DrainInReader /\ discarding
      BY <2>4, <3>3 DEF DrainStore, Latest!Next, Latest!Clear
    <3>4. CASE DrainInReader /\ ~discarding
      BY <2>4, <3>1, <3>4 DEF DrainStore, Latest!Next, Latest!Show
    <3>5. QED
      BY <3>2, <3>3, <3>4
  <2>5. CASE ReceiveCached
    BY <2>5 DEF ReceiveCached, Latest!Next, Latest!Clear
  <2>6. CASE RecoverPipe
    BY <2>6 DEF RecoverPipe, Latest!Next, Latest!Clear
  <2>7. ASSUME NEW c \in Threads, Empty(c)
        PROVE  [Latest!Next]_<<sent, shown, cached>>
    BY <2>7 DEF Empty, EmptyStart, EmptyEnd, Latest!Next, Latest!Clear
  <2>8. QED
    BY <2>1, <2>2, <2>3, <2>4, <2>5, <2>6, <2>7 DEF MailNext
<1>3. QED
  BY <1>1, <1>2, OrderCorrect, PTL DEF MailSpec, ImplementsLatestValue, Latest!Spec
=============================================================================
