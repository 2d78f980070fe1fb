---------------------------- MODULE TrafficProofs ----------------------------
(***************************************************************************)
(* Proofs about the two directions of the traffic communication.           *)
(*                                                                         *)
(* TrafficUpload: UploadInv, and that the shared memory is the queue of    *)
(* DropOldest, for every size.  The second needs to know which entry each  *)
(* slot holds: RingInv, by linear arithmetic (Number) where the code has   *)
(* an index that wraps.                                                    *)
(*                                                                         *)
(* TrafficFeed: FeedInv, for every period.  That a position is dropped     *)
(* only near one that was published needs the time of the last (LastKept)  *)
(* and that nothing was received in the first period (Late).               *)
(***************************************************************************)
EXTENDS TrafficUpload, TrafficFeed, FiniteSetTheorems, SequenceTheorems, TLAPS

\* The number of the entry that was put last in slot i, if there was one.
Number(i) ==
  IF i < lastMem THEN inserted + 1 + i - lastMem ELSE inserted + 1 + i - lastMem - MemSize

\* What was put in is counted: entries of states, and one at most per event; an
\* attempt becomes one connection.
Counted ==
  /\ inserted <= states + sharedSeq
  /\ sharedSeq <= eventSeq /\ tcpSeq <= eventSeq
  /\ connecting + conns <= MaxConns

\* An unread slot holds the entry that was put in it last, and what is newer than
\* an unread entry is unread.
RingInv ==
  /\ \A i \in Slots : ring[i] # 0 => ring[i] = Number(i)
  /\ \A i, j \in Slots : ring[i] # 0 /\ Number(i) <= Number(j) => ring[j] # 0

UploadIInv == UploadTypeOK /\ Counted /\ RingInv

\* The port is closed for a connection that is being attempted.
Attempted == port = "closing" => connecting > 0

\* The bounds are natural numbers, and no entry is numbered beyond MaxEntries.
LEMMA Bounds ==
  ASSUME UploadTypeOK, Counted
  PROVE  /\ MemSize \in Nat /\ MemSize > 0
         /\ MaxEvents \in Nat /\ MaxStates \in Nat /\ MaxEntries \in Nat
         /\ MaxConns \in Nat /\ MaxHeard \in Nat
         /\ inserted \in Nat /\ lastMem \in Int
         /\ states < MaxStates => inserted + 1 <= MaxEntries
         /\ sharedSeq < eventSeq => inserted + 1 <= MaxEntries
BY TrafficUploadAssumption DEF UploadTypeOK, Counted, MaxEntries, Slots

\* The next slot is a slot.
LEMMA NextSlotTyped ==
  ASSUME NEW i \in Slots
  PROVE  NextSlot(i) \in Slots
BY TrafficUploadAssumption DEF NextSlot, Slots

\* Insert overwrites the oldest entry there can be and moves on.
LEMMA InsertKeeps ==
  ASSUME UploadTypeOK, Counted, RingInv, Insert, inserted + 1 <= MaxEntries
  PROVE  /\ ring' \in [Slots -> 0..MaxEntries] /\ lastMem' \in Slots
         /\ inserted' \in 0..MaxEntries
         /\ RingInv'
<1>1. /\ MemSize \in Nat /\ MemSize > 0 /\ MaxEntries \in Nat
      /\ inserted \in Nat /\ lastMem \in Slots /\ inserted + 1 \in 0..MaxEntries
      /\ ring \in [Slots -> 0..MaxEntries]
  BY Bounds DEF UploadTypeOK
<1>2. lastMem' \in Slots /\ inserted' \in 0..MaxEntries
  BY <1>1, NextSlotTyped DEF Insert
<1>3. ring' \in [Slots -> 0..MaxEntries]
  BY <1>1 DEF Insert
<1>4. /\ ring'[lastMem] = inserted + 1
      /\ \A i \in Slots \ {lastMem} : ring'[i] = ring[i]
  BY <1>1 DEF Insert
<1>5. \A i \in Slots : i = lastMem => Number(i)' = inserted + 1
  BY <1>1 DEF Insert, Number, NextSlot, Slots
<1>6. \A i \in Slots \ {lastMem} : Number(i)' = Number(i)
  BY <1>1 DEF Insert, Number, NextSlot, Slots
<1>7. \A i \in Slots \ {lastMem} : Number(i) > Number(lastMem) /\ Number(i) <= inserted
  BY <1>1 DEF Number, Slots
<1>8. \A i \in Slots : ring'[i] # 0 => ring'[i] = Number(i)'
  <2> TAKE i \in Slots
  <2>1. CASE i = lastMem
    BY <1>4, <1>5, <2>1
  <2>2. CASE i # lastMem
    BY <1>4, <1>6, <2>2 DEF RingInv
  <2>3. QED
    BY <2>1, <2>2
<1>9. \A i, j \in Slots : ring'[i] # 0 /\ Number(i)' <= Number(j)' => ring'[j] # 0
  <2> TAKE i, j \in Slots
  <2>1. CASE j = lastMem
    BY <1>1, <1>4, <2>1
  <2>2. CASE j # lastMem /\ i = lastMem
    BY <1>1, <1>5, <1>6, <1>7, <2>2 DEF Number, Slots
  <2>3. CASE j # lastMem /\ i # lastMem
    BY <1>4, <1>6, <2>3 DEF RingInv
  <2>4. QED
    BY <2>1, <2>2, <2>3
<1>10. QED
  BY <1>2, <1>3, <1>8, <1>9 DEF RingInv

\* Steps of the server, the reactor and the socket leave the ring alone.
LEMMA RingStays ==
  ASSUME RingInv, UNCHANGED <<ring, lastMem, inserted>>
  PROVE  RingInv'
BY DEF RingInv, Number

\* A periodic check takes everything.
LEMMA PeriodicCheckKeeps ==
  ASSUME UploadIInv, PeriodicCheck
  PROVE  UploadIInv'
<1>1. \A i \in Unread : ring[i] \in 1..MaxEntries
  BY Bounds DEF UploadIInv, UploadTypeOK, Unread
<1>2. taken' \subseteq 1..MaxEntries
  BY <1>1 DEF UploadIInv, UploadTypeOK, PeriodicCheck
<1>3. ring' \in [Slots -> 0..MaxEntries]
  BY Bounds DEF UploadIInv, PeriodicCheck
<1>4. UploadTypeOK'
  BY <1>2, <1>3 DEF UploadIInv, UploadTypeOK, PeriodicCheck, collected, client, tcp
<1>5. RingInv'
  BY DEF PeriodicCheck, RingInv
<1>6. QED
  BY <1>4, <1>5 DEF UploadIInv, Counted, PeriodicCheck, collected, client

\* A state entry, or one for the newest event, is put in.
LEMMA FlushKeeps ==
  ASSUME UploadIInv, FlushStates \/ FlushEvent
  PROVE  UploadIInv'
<1>1. CASE FlushStates
  <2>1. inserted + 1 <= MaxEntries
    BY <1>1, Bounds DEF UploadIInv, FlushStates
  <2>2. /\ ring' \in [Slots -> 0..MaxEntries] /\ lastMem' \in Slots
        /\ inserted' \in 0..MaxEntries /\ RingInv'
    BY <1>1, <2>1, InsertKeeps DEF UploadIInv, FlushStates
  <2>3. states' \in 0..MaxStates
    BY <1>1, Bounds DEF UploadIInv, UploadTypeOK, FlushStates
  <2>4. UploadTypeOK'
    BY <1>1, <2>2, <2>3 DEF UploadIInv, UploadTypeOK, FlushStates, client, tcp
  <2>5. Counted'
    BY <1>1, Bounds DEF UploadIInv, UploadTypeOK, Counted, FlushStates, Insert, client
  <2>6. QED
    BY <2>2, <2>4, <2>5 DEF UploadIInv
<1>2. CASE FlushEvent
  <2>1. sharedSeq < eventSeq
    BY <1>2, Bounds DEF UploadIInv, UploadTypeOK, Counted, FlushEvent
  <2>2. inserted + 1 <= MaxEntries
    BY <2>1, Bounds DEF UploadIInv
  <2>3. /\ ring' \in [Slots -> 0..MaxEntries] /\ lastMem' \in Slots
        /\ inserted' \in 0..MaxEntries /\ RingInv'
    BY <1>2, <2>2, InsertKeeps DEF UploadIInv, FlushEvent
  <2>4. UploadTypeOK'
    BY <1>2, <2>3 DEF UploadIInv, UploadTypeOK, FlushEvent, client, tcp
  <2>5. Counted'
    BY <1>2, <2>1, Bounds DEF UploadIInv, UploadTypeOK, Counted, FlushEvent, Insert, client
  <2>6. QED
    BY <2>3, <2>4, <2>5 DEF UploadIInv
<1>3. QED
  BY <1>1, <1>2

\* Every other step leaves the shared memory alone.
Elsewhere ==
  \/ ServerChanges \/ SockBreaks \/ ServerBroadcasts \/ RosChanges \/ HearEvent
  \/ ConnectTcp \/ SendEventTcp \/ CloseTcp
  \/ ServerFound \/ PortClosed \/ ConnectionMade \/ ConnectionLost

LEMMA ElsewhereShared ==
  ASSUME Elsewhere
  PROVE  UNCHANGED shared
BY DEF Elsewhere, ServerChanges, SockBreaks, ServerBroadcasts, RosChanges, HearEvent,
       ConnectTcp, SendEventTcp, CloseTcp, ServerFound, PortClosed, ConnectionMade,
       ConnectionLost, shared

LEMMA ElsewhereTyped ==
  ASSUME UploadTypeOK, Counted, Elsewhere
  PROVE  UploadTypeOK' /\ Counted'
<1>1. UNCHANGED <<ring, lastMem, inserted, taken>>
  BY ElsewhereShared DEF shared
<1>2. CASE ServerChanges
  BY <1>1, <1>2 DEF ServerChanges, UploadTypeOK, Counted, collected, client
<1>14. CASE SockBreaks
  BY <1>1, <1>14 DEF SockBreaks, UploadTypeOK, Counted, collected, client
<1>3. CASE ServerBroadcasts
  BY <1>1, <1>3, Bounds DEF ServerBroadcasts, UploadTypeOK, Counted, collected, tcp
<1>4. CASE RosChanges
  BY <1>1, <1>4 DEF RosChanges, UploadTypeOK, Counted, client, tcp
<1>5. CASE HearEvent
  BY <1>1, <1>5, Bounds DEF HearEvent, UploadTypeOK, Counted, client, tcp
<1>6. CASE ConnectTcp
  BY <1>1, <1>6 DEF ConnectTcp, UploadTypeOK, Counted, collected, client
<1>7. CASE SendEventTcp
  <2>1. arrived' \in 0..MaxEvents /\ lost' \in 0..MaxEvents
    BY <1>7 DEF SendEventTcp, UploadTypeOK
  <2>2. /\ tcpSeq' = eventSeq
        /\ UNCHANGED <<rosUp, eventSeq, sharedSeq, states, sock, client, server>>
    BY <1>7 DEF SendEventTcp
  <2>3. QED
    BY <1>1, <2>1, <2>2, Bounds DEF UploadTypeOK, Counted, client
<1>8. CASE CloseTcp
  BY <1>1, <1>8 DEF CloseTcp, ClosedSock, UploadTypeOK, Counted, collected, client
<1>9. CASE ServerFound
  <2>1. /\ port' \in {"open", "closing", "closed"}
        /\ period' \in BOOLEAN /\ missed' \in BOOLEAN
    BY <1>9 DEF ServerFound, UploadTypeOK
  <2>2. QED
    BY <1>1, <1>9, <2>1, Bounds DEF ServerFound, UploadTypeOK, Counted, collected, tcp
<1>10. CASE PortClosed
  BY <1>1, <1>10, Bounds DEF PortClosed, UploadTypeOK, Counted, collected, tcp
<1>11. CASE ConnectionMade
  <2>1. connection' \in BOOLEAN
    BY <1>11 DEF ConnectionMade
  <2>2. /\ connecting' \in 0..MaxConns /\ conns' \in 0..MaxConns
        /\ connecting' + conns' <= MaxConns
    BY <1>11, Bounds DEF ConnectionMade, UploadTypeOK, Counted
  <2>3. UNCHANGED <<collected, tcp, shared, port, heard, period, missed, server>>
    BY <1>11 DEF ConnectionMade
  <2>4. QED
    BY <2>1, <2>2, <2>3 DEF UploadTypeOK, Counted, collected, shared, tcp
<1>12. CASE ConnectionLost
  <2>1. /\ connection' \in BOOLEAN /\ period' \in BOOLEAN /\ missed' \in BOOLEAN
        /\ port' \in {"open", "closing", "closed"}
    BY <1>12 DEF ConnectionLost, ListensAgain, UploadTypeOK
  <2>2. conns' \in 0..MaxConns /\ connecting + conns' <= MaxConns
    BY <1>12, Bounds DEF ConnectionLost, UploadTypeOK, Counted
  <2>3. UNCHANGED <<collected, tcp, shared, heard, connecting, server>>
    BY <1>12 DEF ConnectionLost
  <2>4. QED
    BY <2>1, <2>2, <2>3 DEF UploadTypeOK, Counted, collected, shared, tcp
<1>13. QED
  BY <1>2, <1>3, <1>4, <1>5, <1>6, <1>7, <1>8, <1>9, <1>10, <1>11, <1>12, <1>14
     DEF Elsewhere

LEMMA NextSplits ==
  ASSUME UploadNext
  PROVE  FlushStates \/ FlushEvent \/ PeriodicCheck \/ Elsewhere
BY DEF UploadNext, Collector, Reactor, Elsewhere

LEMMA InitUpload == UploadInit => UploadIInv /\ NeverDeaf /\ Attempted
<1> SUFFICES ASSUME UploadInit PROVE UploadIInv /\ NeverDeaf /\ Attempted
  OBVIOUS
<1>1. /\ MemSize \in Nat /\ MemSize > 0 /\ MaxEvents \in Nat /\ MaxStates \in Nat
      /\ MaxConns \in Nat /\ MaxHeard \in Nat /\ MaxEntries \in Nat
  BY TrafficUploadAssumption DEF MaxEntries
<1>2. 0 \in Slots
  BY <1>1 DEF Slots
<1>3. UploadTypeOK
  <2>1. /\ rosUp \in BOOLEAN /\ connection \in BOOLEAN
        /\ period \in BOOLEAN /\ missed \in BOOLEAN /\ server \in BOOLEAN
    BY DEF UploadInit
  <2>2. ring \in [Slots -> 0..MaxEntries]
    BY <1>1 DEF UploadInit
  <2>3. QED
    BY <1>1, <1>2, <2>1, <2>2 DEF UploadInit, UploadTypeOK
<1>4. QED
  BY <1>1, <1>3 DEF UploadInit, UploadIInv, Counted, RingInv, NeverDeaf, Attempted

LEMMA UploadIInvKept ==
  ASSUME UploadIInv, [UploadNext]_uploadVars
  PROVE  UploadIInv'
<1>1. CASE Elsewhere
  <2>1. UNCHANGED <<ring, lastMem, inserted>>
    BY <1>1, ElsewhereShared DEF shared
  <2>2. RingInv'
    BY <2>1, RingStays DEF UploadIInv
  <2>3. QED
    BY <1>1, <2>2, ElsewhereTyped DEF UploadIInv
<1>2. CASE UNCHANGED uploadVars
  BY <1>2 DEF uploadVars, collected, tcp, shared, client, UploadIInv, UploadTypeOK, Counted,
              RingInv, Number
<1>3. QED
  BY <1>1, <1>2, NextSplits, FlushKeeps, PeriodicCheckKeeps

\* Deafness, step by step.
LEMMA NeverDeafKept ==
  ASSUME UploadTypeOK, NeverDeaf, Attempted, [UploadNext]_uploadVars
  PROVE  NeverDeaf' /\ Attempted'
<1>1. /\ connecting \in Nat /\ conns \in Nat
      /\ port \in {"open", "closing", "closed"}
  BY TrafficUploadAssumption DEF UploadTypeOK
<1>2. CASE UNCHANGED client
  BY <1>2 DEF NeverDeaf, Attempted, client
<1>3. CASE ServerFound
  BY <1>1, <1>3 DEF NeverDeaf, Attempted, ServerFound
<1>4. CASE ConnectionMade
  BY <1>1, <1>4 DEF NeverDeaf, Attempted, ConnectionMade
<1>5. CASE ConnectionLost
  <2>1. connecting' = connecting /\ connection' = FALSE /\ period' = FALSE
    BY <1>5 DEF ConnectionLost
  <2>2. CASE port = "closing"
    <3>1. port' = "closing" /\ missed' = TRUE /\ connecting > 0
      BY <1>5, <2>2 DEF ConnectionLost, ListensAgain, Attempted
    <3>2. QED
      BY <2>1, <3>1 DEF NeverDeaf, Attempted
  <2>3. CASE port # "closing"
    <3>1. port' = "open"
      BY <1>1, <1>5, <2>3 DEF ConnectionLost, ListensAgain
    <3>2. QED
      BY <2>1, <3>1 DEF NeverDeaf, Attempted
  <2>4. QED
    BY <2>2, <2>3
<1>6. CASE ServerBroadcasts \/ PortClosed
  BY <1>6 DEF NeverDeaf, Attempted, ServerBroadcasts, PortClosed
<1>7. ServerChanges \/ SockBreaks \/ RosChanges \/ HearEvent \/ Collector \/ PeriodicCheck
        => UNCHANGED client
  BY DEF ServerChanges, SockBreaks, RosChanges, HearEvent, Collector, FlushStates,
         FlushEvent, ConnectTcp, SendEventTcp, CloseTcp, PeriodicCheck
<1>8. UNCHANGED uploadVars => UNCHANGED client
  BY DEF uploadVars
<1>9. QED
  BY <1>2, <1>3, <1>4, <1>5, <1>6, <1>7, <1>8 DEF UploadNext, Reactor

\* The client that reports to the server always has a connection, tries to get one
\* or listens for the server, through any number of losses and double broadcasts; and
\* its periodic task is stopped only while it listens, or since a connection was lost
\* while the port was closing, when listenUDP fails (UploadInv), for all bounds.
THEOREM UploadSafe == UploadSpec => []UploadInv
<1>1. UploadInit => UploadIInv /\ NeverDeaf /\ Attempted
  BY InitUpload
<1>2. UploadIInv /\ NeverDeaf /\ Attempted /\ [UploadNext]_uploadVars
        => UploadIInv' /\ NeverDeaf' /\ Attempted'
  BY UploadIInvKept, NeverDeafKept DEF UploadIInv
<1>3. UploadIInv /\ NeverDeaf => UploadInv
  BY DEF UploadIInv, UploadInv
<1>4. QED
  BY <1>1, <1>2, <1>3, PTL DEF UploadSpec
----------------------------------------------------------------------------
(* The shared memory is a queue. *)

\* The values a function takes on a finite set are at most as many as its members,
\* and as many if no two are equal.
LEMMA ImageCount ==
  ASSUME NEW U, IsFiniteSet(U), NEW r
  PROVE  /\ IsFiniteSet({r[i] : i \in U})
         /\ Cardinality({r[i] : i \in U}) <= Cardinality(U)
         /\ (\A i, j \in U : r[i] = r[j] => i = j)
              => Cardinality({r[i] : i \in U}) = Cardinality(U)
<1> DEFINE T == {r[i] : i \in U}
           f == [i \in U |-> r[i]]
<1>1. f \in Surjection(U, T)
  BY DEF Surjection
<1>2. /\ IsFiniteSet(T) /\ Cardinality(T) <= Cardinality(U)
      /\ Cardinality(T) = Cardinality(U) <=> f \in Injection(U, T)
  BY <1>1, FS_Surjection
<1>3. (\A i, j \in U : r[i] = r[j] => i = j) => f \in Injection(U, T)
  BY DEF Injection, IsInjective
<1>4. QED
  BY <1>2, <1>3

\* There are MemSize slots.
LEMMA SlotCount ==
  /\ IsFiniteSet(Slots) /\ Cardinality(Slots) = MemSize
  /\ \A i \in Slots : Cardinality(Slots \ {i}) = MemSize - 1
<1>1. MemSize \in Nat /\ MemSize > 0
  BY TrafficUploadAssumption
<1>2. IsFiniteSet(Slots) /\ Cardinality(Slots) = MemSize
  BY <1>1, FS_Interval DEF Slots
<1>3. QED
  BY <1>1, <1>2, FS_RemoveElement

Queued == {ring[i] : i \in Unread}

\* When the slot to be written is free the queue is not full; when it is not, the
\* queue is full and the slot holds its oldest entry.
LEMMA FullOrFree ==
  ASSUME UploadTypeOK, Counted, RingInv
  PROVE  /\ ring[lastMem] = 0 => Cardinality(Queued) # MemSize
         /\ ring[lastMem] # 0 =>
              /\ Cardinality(Queued) = MemSize
              /\ {e \in Queued : \A f \in Queued : e <= f} = {ring[lastMem]}
<1>1. /\ MemSize \in Nat /\ MemSize > 0 /\ MaxEntries \in Nat
      /\ inserted \in Nat /\ lastMem \in Slots
      /\ ring \in [Slots -> 0..MaxEntries]
  BY Bounds DEF UploadTypeOK
<1>2. CASE ring[lastMem] = 0
  <2>1. Unread \subseteq Slots \ {lastMem}
    BY <1>2 DEF Unread
  <2>2. IsFiniteSet(Slots \ {lastMem})
    BY SlotCount, FS_RemoveElement
  <2>3. IsFiniteSet(Unread) /\ Cardinality(Unread) <= Cardinality(Slots \ {lastMem})
    BY <2>1, <2>2, FS_Subset
  <2>4. /\ Cardinality(Slots \ {lastMem}) = MemSize - 1
        /\ Cardinality(Unread) \in Nat
    BY <1>1, <2>3, SlotCount, FS_CardinalityType
  <2>5. /\ IsFiniteSet(Queued) /\ Cardinality(Queued) <= Cardinality(Unread)
    BY <2>3, ImageCount DEF Queued
  <2>6. Cardinality(Queued) \in Nat
    BY <2>5, FS_CardinalityType
  <2>7. QED
    BY <1>1, <1>2, <2>3, <2>4, <2>5, <2>6
<1>3. CASE ring[lastMem] # 0
  <2>1. \A j \in Slots : Number(lastMem) <= Number(j)
    BY <1>1 DEF Number, Slots
  <2>2. \A j \in Slots : ring[j] # 0 /\ ring[j] = Number(j)
    BY <1>1, <1>3, <2>1 DEF RingInv
  <2>3. Unread = Slots
    BY <2>2 DEF Unread
  <2>4. \A i, j \in Slots : ring[i] = ring[j] => i = j
    <3> SUFFICES ASSUME NEW i \in Slots, NEW j \in Slots, Number(i) = Number(j)
                 PROVE  i = j
      BY <2>2
    <3>1. QED
      BY <1>1 DEF Number, Slots
  <2>5. Cardinality(Queued) = MemSize
    BY <2>3, <2>4, SlotCount, ImageCount DEF Queued
  <2>6. \A f \in Queued : ring[lastMem] <= f
    BY <1>1, <2>1, <2>2, <2>3 DEF Queued
  <2>7. ring[lastMem] \in Queued /\ Queued \subseteq Nat
    BY <1>1, <2>3 DEF Queued
  <2>8. {e \in Queued : \A f \in Queued : e <= f} = {ring[lastMem]}
    <3>1. \A e \in Queued : (\A f \in Queued : e <= f) => e = ring[lastMem]
      <4> SUFFICES ASSUME NEW e \in Queued, e <= ring[lastMem]
                   PROVE  e = ring[lastMem]
        BY <2>7
      <4>1. e \in Nat /\ ring[lastMem] \in Nat /\ ring[lastMem] <= e
        BY <2>6, <2>7
      <4>2. QED
        BY <4>1
    <3>2. QED
      BY <2>6, <2>7, <3>1
  <2>9. QED
    BY <1>3, <2>5, <2>8
<1>4. QED
  BY <1>2, <1>3

\* DropOldest counts as this module does.
LEMMA SameCount == \A S : Reports!Cardinality(S) = Cardinality(S)
BY DEF Reports!Cardinality, Cardinality

\* Insert puts one entry in the queue.
LEMMA InsertPuts ==
  ASSUME UploadTypeOK, Counted, RingInv, Insert, UNCHANGED taken
  PROVE  Reports!Put
<1>1. /\ inserted \in Nat /\ lastMem \in Slots
      /\ ring \in [Slots -> 0..MaxEntries]
  BY Bounds DEF UploadTypeOK
<1>2. /\ ring'[lastMem] = inserted + 1
      /\ \A i \in Slots \ {lastMem} : ring'[i] = ring[i]
  BY <1>1 DEF Insert
<1>3. Unread' = Unread \cup {lastMem}
  BY <1>1, <1>2 DEF Unread
<1>4. Queued' = {ring[i] : i \in Unread \ {lastMem}} \cup {inserted + 1}
  BY <1>1, <1>2, <1>3 DEF Queued, Unread
<1>5. CASE ring[lastMem] = 0
  <2>1. Unread \ {lastMem} = Unread
    BY <1>5 DEF Unread
  <2>2. Queued' = Queued \cup {inserted + 1} /\ Cardinality(Queued) # MemSize
    BY <1>4, <1>5, <2>1, FullOrFree DEF Queued
  <2>3. QED
    BY <2>2, SameCount DEF Reports!Put, Queued, Insert
<1>6. CASE ring[lastMem] # 0
  <2>1. \A i \in Unread : ring[i] = ring[lastMem] => i = lastMem
    <3> SUFFICES ASSUME NEW i \in Slots, Number(i) = Number(lastMem)
                 PROVE  i = lastMem
      BY <1>1, <1>6 DEF Unread, RingInv
    <3>1. MemSize \in Nat /\ MemSize > 0
      BY TrafficUploadAssumption
    <3>2. QED
      BY <1>1, <3>1 DEF Number, Slots
  <2>2. {ring[i] : i \in Unread \ {lastMem}} = Queued \ {ring[lastMem]}
    BY <2>1 DEF Queued
  <2>3. Queued' = (Queued \ {ring[lastMem]}) \cup {inserted + 1}
    BY <1>4, <2>2
  <2>4. /\ Cardinality(Queued) = MemSize
        /\ {e \in Queued : \A f \in Queued : e <= f} = {ring[lastMem]}
    BY <1>6, FullOrFree
  <2>5. QED
    BY <2>3, <2>4, SameCount DEF Reports!Put, Reports!Oldest, Queued, Insert
<1>7. QED
  BY <1>5, <1>6

\* A periodic check takes the whole queue.
LEMMA CheckTakes ==
  ASSUME UploadTypeOK, PeriodicCheck
  PROVE  Reports!TakeAll
<1>1. Unread' = {}
  BY DEF PeriodicCheck, Unread
<1>2. QED
  BY <1>1 DEF PeriodicCheck, Reports!TakeAll

\* The ring of the shared memory, whose index wraps and which is emptied slot by
\* slot, is a queue that loses only its oldest entry, only when it is full, and
\* hands out none twice: TrafficUpload implements DropOldest.
THEOREM ReportsQueued == UploadSpec => ReportsAreQueued
<1>1. UploadInit => Reports!Init
  BY DEF UploadInit, Unread, Reports!Init
<1>2. UploadIInv /\ [UploadNext]_uploadVars
        => [Reports!Next]_<<inserted, {ring[i] : i \in Unread}, taken>>
  <2> SUFFICES ASSUME UploadIInv, [UploadNext]_uploadVars
               PROVE  [Reports!Next]_<<inserted, {ring[i] : i \in Unread}, taken>>
    OBVIOUS
  <2>1. CASE FlushStates
    BY <2>1, InsertPuts DEF UploadIInv, FlushStates, Reports!Next
  <2>2. CASE FlushEvent
    BY <2>2, InsertPuts DEF UploadIInv, FlushEvent, Reports!Next
  <2>3. CASE PeriodicCheck
    BY <2>3, CheckTakes DEF UploadIInv, Reports!Next
  <2>4. CASE Elsewhere \/ UNCHANGED uploadVars
    <3>1. UNCHANGED <<ring, inserted, taken>>
      BY <2>4, ElsewhereShared DEF uploadVars, shared
    <3>2. QED
      BY <3>1 DEF Unread
  <2>5. QED
    BY <2>1, <2>2, <2>3, <2>4, NextSplits
<1>3. UploadInit => UploadIInv
  BY InitUpload
<1>4. UploadIInv /\ [UploadNext]_uploadVars => UploadIInv'
  BY UploadIInvKept
<1>5. QED
  BY <1>1, <1>2, <1>3, <1>4, PTL DEF UploadSpec, ReportsAreQueued, Reports!Spec
-----------------------------------------------------------------------------
(* The feed. *)

\* lastGps is the time of the last position published, the greatest, or 0.
LastKept ==
  /\ published = <<>> <=> lastGps = 0
  /\ published # <<>> => published[Len(published)] = lastGps
  /\ \A i \in DOMAIN published : published[i] <= lastGps
  /\ \A i, j \in DOMAIN published : i < j => published[i] + Period <= published[j]
  /\ \A t \in dropped : lastGps # 0 /\ t < lastGps + Period

\* What waits was received when the clock had passed the first period.
Late ==
  /\ clock >= Period
  /\ \A s \in Sources : \A i \in DOMAIN queue[s] : queue[s][i] >= Period
  /\ location # 0 => location >= Period

\* The unread state of a light is newer than what was published, and is its state
\* or an earlier one.
LightKept ==
  /\ \A l \in Lights : relayed[l] <= lightState[l]
  /\ semaphore # None =>
       relayed[semaphore.light] < semaphore.state
       /\ semaphore.state <= lightState[semaphore.light]

FeedIInv == FeedTypeOK /\ LastKept /\ Late /\ LightKept

LEMMA FeedImplied == FeedIInv => FeedInv
<1> SUFFICES ASSUME FeedIInv PROVE FeedInv
  OBVIOUS
<1>1. \A t \in dropped : \E i \in DOMAIN published : t < published[i] + Period
  <2> TAKE t \in dropped
  <2>1. published # <<>> /\ published \in Seq(Times)
    BY DEF FeedIInv, LastKept, FeedTypeOK
  <2>2. Len(published) \in DOMAIN published
    BY <2>1
  <2>3. t < published[Len(published)] + Period
    BY <2>1 DEF FeedIInv, LastKept
  <2>4. QED
    BY <2>2, <2>3
<1>2. GpsPaced
  BY <1>1 DEF FeedIInv, LastKept, GpsPaced
<1>3. LightsInOrder
  <2>1. semaphore # None => semaphore.state > relayed[semaphore.light]
    BY TrafficFeedAssumption DEF FeedIInv, FeedTypeOK, LightKept, None
  <2>2. QED
    BY <2>1 DEF FeedIInv, LightKept, LightsInOrder
<1>4. QED
  BY <1>2, <1>3 DEF FeedIInv, FeedInv

\* The period and the bounds are numbers.
LEMMA FeedNumbers ==
  /\ Period \in Nat /\ Period > 0 /\ MaxTime \in Nat /\ Period <= MaxTime
  /\ MaxLightStates \in Nat
BY TrafficFeedAssumption

LEMMA InitFeed == FeedInit => FeedIInv
<1> SUFFICES ASSUME FeedInit PROVE FeedIInv
  OBVIOUS
<1>1. node \in BOOLEAN /\ cars \in BOOLEAN
  BY DEF FeedInit
<1>2. FeedTypeOK
  BY <1>1, FeedNumbers DEF FeedInit, FeedTypeOK, Times
<1>3. LastKept /\ LightKept
  BY FeedNumbers DEF FeedInit, LastKept, LightKept
<1>4. Late
  BY FeedNumbers DEF FeedInit, Late
<1>5. QED
  BY <1>2, <1>3, <1>4 DEF FeedIInv
----------------------------------------------------------------------------
(* Publishing a position of time t. *)

\* What PublishGps needs and what it changes.
GpsTyped == lastGps \in 0..MaxTime /\ published \in Seq(Times) /\ dropped \subseteq Times

LEMMA PublishKeeps ==
  ASSUME GpsTyped, LastKept, NEW t \in Times, t >= Period, PublishGps(t)
  PROVE  GpsTyped' /\ LastKept'
<1>1. /\ t \in Nat /\ t > 0 /\ lastGps \in Nat /\ t <= MaxTime
      /\ Period \in Nat /\ Period > 0 /\ MaxTime \in Nat
  BY FeedNumbers DEF Times, GpsTyped
<1>2. \A i \in DOMAIN published : published[i] \in Nat
  BY FeedNumbers DEF GpsTyped, Times
<1>3. CASE ~node
  BY <1>3 DEF PublishGps, GpsTyped, LastKept
<1>4. CASE node /\ Due(t)
  <2>1. /\ published' = Append(published, t) /\ lastGps' = t /\ dropped' = dropped
        /\ t >= lastGps + Period
    BY <1>4 DEF PublishGps, Due
  <2>2. /\ published' \in Seq(Times)
        /\ Len(published') = Len(published) + 1
        /\ published'[Len(published')] = t
        /\ \A i \in DOMAIN published : published'[i] = published[i]
        /\ DOMAIN published' = DOMAIN published \cup {Len(published) + 1}
        /\ published' # <<>>
    BY <2>1 DEF GpsTyped
  <2>3. GpsTyped'
    BY <1>1, <2>1, <2>2 DEF GpsTyped
  <2>4. \A i \in DOMAIN published' : published'[i] <= t
    BY <1>1, <1>2, <2>1, <2>2 DEF LastKept
  <2>5. \A i, j \in DOMAIN published' : i < j => published'[i] + Period <= published'[j]
    <3> SUFFICES ASSUME NEW i \in DOMAIN published', NEW j \in DOMAIN published', i < j
                 PROVE  published'[i] + Period <= published'[j]
      OBVIOUS
    <3>1. i \in DOMAIN published
      BY <2>2 DEF GpsTyped
    <3>2. CASE j \in DOMAIN published
      BY <2>2, <3>1, <3>2 DEF LastKept
    <3>3. CASE j = Len(published) + 1
      <4>1. published'[j] = t /\ published'[i] = published[i] /\ published[i] <= lastGps
        BY <2>2, <3>1, <3>3 DEF LastKept
      <4>2. QED
        BY <1>1, <1>2, <2>1, <3>1, <4>1
    <3>4. QED
      BY <2>2, <3>2, <3>3
  <2>6. \A u \in dropped' : lastGps' # 0 /\ u < lastGps' + Period
    BY <1>1, <2>1 DEF LastKept, GpsTyped, Times
  <2>7. QED
    BY <1>1, <2>1, <2>2, <2>3, <2>4, <2>5, <2>6 DEF LastKept
<1>5. CASE node /\ ~Due(t)
  <2>1. /\ dropped' = dropped \cup {t} /\ published' = published /\ lastGps' = lastGps
        /\ ~(t >= lastGps + Period)
    BY <1>5 DEF PublishGps, Due
  <2>2. lastGps # 0 /\ t < lastGps + Period
    BY <1>1, <2>1
  <2>3. QED
    BY <2>1, <2>2 DEF GpsTyped, LastKept
<1>6. QED
  BY <1>3, <1>4, <1>5

\* The same for the whole of the collector's state.
LEMMA PublishFeed ==
  ASSUME FeedIInv, NEW t \in Times, t >= Period, PublishGps(t),
         UNCHANGED <<clock, node, lightVars>>,
         queue' \in [Sources -> Seq(Times)], location' \in 0..MaxTime, cars' \in BOOLEAN,
         Late'
  PROVE  FeedIInv'
<1>1. GpsTyped' /\ LastKept'
  BY PublishKeeps DEF FeedIInv, FeedTypeOK, GpsTyped
<1>2. FeedTypeOK'
  BY <1>1 DEF FeedIInv, FeedTypeOK, GpsTyped, lightVars
<1>3. LightKept'
  BY DEF FeedIInv, LightKept, lightVars
<1>4. QED
  BY <1>1, <1>2, <1>3 DEF FeedIInv
----------------------------------------------------------------------------
(* The actions. *)

LEMMA DrainKeeps ==
  ASSUME FeedIInv, NEW s \in Sources, DrainPosition(s)
  PROVE  FeedIInv'
<1>1. queue \in [Sources -> Seq(Times)] /\ queue[s] \in Seq(Times) /\ queue[s] # <<>>
  BY DEF FeedIInv, FeedTypeOK, DrainPosition
<1>2. Head(queue[s]) = queue[s][1] /\ 1 \in DOMAIN queue[s]
  BY <1>1
<1>3. Head(queue[s]) \in Times /\ Head(queue[s]) >= Period
  BY <1>1, <1>2 DEF FeedIInv, Late
<1>4. /\ Tail(queue[s]) \in Seq(Times)
      /\ \A i \in DOMAIN Tail(queue[s]) :
           i + 1 \in DOMAIN queue[s] /\ Tail(queue[s])[i] = queue[s][i + 1]
  BY <1>1, HeadTailProperties
<1>5. queue' = [queue EXCEPT ![s] = Tail(queue[s])]
  BY DEF DrainPosition
<1>6. queue' \in [Sources -> Seq(Times)]
  BY <1>1, <1>4, <1>5
<1>7. Late'
  BY <1>1, <1>4, <1>5 DEF FeedIInv, Late, DrainPosition
<1>8. location' \in 0..MaxTime /\ cars' \in BOOLEAN
  BY DEF FeedIInv, FeedTypeOK, DrainPosition
<1>9. QED
  BY <1>3, <1>6, <1>7, <1>8, PublishFeed DEF DrainPosition

LEMMA PollLocationKeeps ==
  ASSUME FeedIInv, PollLocation
  PROVE  FeedIInv'
<1>1. location \in Times /\ location >= Period
  BY FeedNumbers DEF FeedIInv, FeedTypeOK, Late, PollLocation, Times
<1>2. location' \in 0..MaxTime /\ location' = 0
  BY FeedNumbers DEF PollLocation
<1>3. queue' \in [Sources -> Seq(Times)] /\ cars' \in BOOLEAN
  BY DEF FeedIInv, FeedTypeOK, PollLocation
<1>4. Late'
  BY <1>2 DEF FeedIInv, Late, PollLocation
<1>5. QED
  BY <1>1, <1>2, <1>3, <1>4, PublishFeed DEF PollLocation

LEMMA PollCarsKeeps ==
  ASSUME FeedIInv, PollCars
  PROVE  FeedIInv'
<1>1. clock \in Times /\ clock >= Period
  BY DEF FeedIInv, FeedTypeOK, Late
<1>2. cars' \in BOOLEAN
  BY DEF PollCars
<1>3. queue' \in [Sources -> Seq(Times)] /\ location' \in 0..MaxTime
  BY DEF FeedIInv, FeedTypeOK, PollCars
<1>4. Late'
  BY DEF FeedIInv, Late, PollCars
<1>5. QED
  BY <1>1, <1>2, <1>3, <1>4, PublishFeed DEF PollCars

\* What is received waits with the time of the clock.
LEMMA ReceivePositionKeeps ==
  ASSUME FeedIInv, NEW s \in Sources, ReceivePosition(s)
  PROVE  FeedIInv'
<1>1. queue \in [Sources -> Seq(Times)] /\ queue[s] \in Seq(Times) /\ clock \in Times
  BY DEF FeedIInv, FeedTypeOK
<1>2. queue' = [queue EXCEPT ![s] = Append(queue[s], clock)]
  BY DEF ReceivePosition
<1>3. /\ Append(queue[s], clock) \in Seq(Times)
      /\ \A i \in DOMAIN Append(queue[s], clock) :
           \/ Append(queue[s], clock)[i] = clock
           \/ i \in DOMAIN queue[s] /\ Append(queue[s], clock)[i] = queue[s][i]
  BY <1>1
<1>4. queue' \in [Sources -> Seq(Times)]
  BY <1>1, <1>2, <1>3
<1>5. Late'
  BY <1>1, <1>2, <1>3 DEF FeedIInv, Late, ReceivePosition
<1>6. FeedTypeOK'
  BY <1>4 DEF FeedIInv, FeedTypeOK, ReceivePosition, lightVars
<1>7. QED
  BY <1>5, <1>6 DEF FeedIInv, LastKept, LightKept, ReceivePosition, lightVars

LEMMA ReceiveSourceKeeps ==
  ASSUME FeedIInv, ReceiveFromServer \/ ReceiveFromUwb
  PROVE  FeedIInv'
BY ReceivePositionKeeps DEF ReceiveFromServer, ReceiveFromUwb, Sources

LEMMA ReceiveOtherKeeps ==
  ASSUME FeedIInv, ReceiveLocation \/ ReceiveCar
  PROVE  FeedIInv'
<1>1. CASE ReceiveLocation
  <2>1. location' = clock /\ clock \in Times /\ clock >= Period
    BY <1>1 DEF FeedIInv, FeedTypeOK, Late, ReceiveLocation
  <2>2. location' \in 0..MaxTime
    BY <2>1, FeedNumbers DEF Times
  <2>3. FeedTypeOK'
    BY <1>1, <2>2 DEF FeedIInv, FeedTypeOK, ReceiveLocation, lightVars
  <2>4. Late'
    BY <1>1, <2>1 DEF FeedIInv, Late, ReceiveLocation
  <2>5. QED
    BY <1>1, <2>3, <2>4 DEF FeedIInv, LastKept, LightKept, ReceiveLocation, lightVars
<1>2. CASE ReceiveCar
  <2>1. cars' \in BOOLEAN
    BY <1>2 DEF ReceiveCar
  <2>2. UNCHANGED <<clock, node, queue, location, lastGps, published, dropped, lightVars>>
    BY <1>2 DEF ReceiveCar
  <2>3. QED
    BY <2>1, <2>2 DEF FeedIInv, FeedTypeOK, LastKept, Late, LightKept, lightVars
<1>3. QED
  BY <1>1, <1>2

LEMMA TimeAndNodeKeep ==
  ASSUME FeedIInv, Tick \/ NodeChanges
  PROVE  FeedIInv'
<1>1. CASE Tick
  <2>1. clock' \in Times /\ clock' >= Period
    BY <1>1, FeedNumbers DEF FeedIInv, FeedTypeOK, Late, Tick, Times
  <2>2. QED
    BY <1>1, <2>1 DEF FeedIInv, FeedTypeOK, LastKept, Late, LightKept, Tick, gpsVars,
                      lightVars
<1>2. CASE NodeChanges
  <2>1. node' \in BOOLEAN
    BY <1>2 DEF FeedIInv, FeedTypeOK, NodeChanges
  <2>2. UNCHANGED <<clock, gpsVars, lightVars>>
    BY <1>2 DEF NodeChanges
  <2>3. QED
    BY <2>1, <2>2 DEF FeedIInv, FeedTypeOK, LastKept, Late, LightKept, gpsVars, lightVars
<1>3. QED
  BY <1>1, <1>2

\* The states of the lights.
LEMMA LightsKeep ==
  ASSUME FeedIInv, PollSemaphore \/ \E l \in Lights : ReceiveLight(l)
  PROVE  FeedIInv'
<1>1. /\ lightState \in [Lights -> 0..MaxLightStates]
      /\ relayed \in [Lights -> 0..MaxLightStates] /\ MaxLightStates \in Nat
  BY FeedNumbers DEF FeedIInv, FeedTypeOK
<1>2. CASE PollSemaphore
  <2>1. /\ semaphore \in [light : Lights, state : 1..MaxLightStates]
        /\ relayed[semaphore.light] < semaphore.state
        /\ semaphore.state <= lightState[semaphore.light]
    BY <1>2 DEF FeedIInv, FeedTypeOK, LightKept, PollSemaphore
  <2>2. /\ relayed' \in [Lights -> 0..MaxLightStates]
        /\ \A l \in Lights : relayed'[l] <= lightState[l]
    <3>1. CASE node
      <4>1. relayed' = [relayed EXCEPT ![semaphore.light] = semaphore.state]
        BY <1>2, <3>1 DEF PollSemaphore
      <4>2. QED
        BY <1>1, <2>1, <4>1 DEF FeedIInv, LightKept
    <3>2. CASE ~node
      BY <1>1, <1>2, <3>2 DEF PollSemaphore, FeedIInv, LightKept
    <3>3. QED
      BY <3>1, <3>2
  <2>3. semaphore' = None /\ UNCHANGED <<clock, node, gpsVars, lightState>>
    BY <1>2 DEF PollSemaphore
  <2>4. QED
    BY <2>2, <2>3 DEF FeedIInv, FeedTypeOK, LastKept, Late, LightKept, gpsVars
<1>3. ASSUME NEW l \in Lights, ReceiveLight(l)
      PROVE  FeedIInv'
  <2>1. /\ lightState[l] < MaxLightStates
        /\ lightState' = [lightState EXCEPT ![l] = lightState[l] + 1]
        /\ semaphore' = [light |-> l, state |-> lightState[l] + 1]
    BY <1>3 DEF ReceiveLight
  <2>2. lightState' \in [Lights -> 0..MaxLightStates]
    BY <1>1, <2>1
  <2>3. semaphore' \in [light : Lights, state : 1..MaxLightStates]
    BY <1>1, <2>1
  <2>4. /\ \A k \in Lights : relayed[k] <= lightState'[k]
        /\ relayed[l] < lightState[l] + 1 /\ lightState'[l] = lightState[l] + 1
    BY <1>1, <2>1 DEF FeedIInv, LightKept
  <2>5. UNCHANGED <<clock, node, gpsVars, relayed>>
    BY <1>3 DEF ReceiveLight
  <2>6. LightKept'
    BY <1>1, <2>1, <2>4, <2>5 DEF LightKept
  <2>7. QED
    BY <2>2, <2>3, <2>5, <2>6 DEF FeedIInv, FeedTypeOK, LastKept, Late, gpsVars
<1>4. QED
  BY <1>2, <1>3

\* Positions are published in the order of their reception and a period apart,
\* whichever of the four ways they came, none is dropped without cause, and no light
\* falls back behind a state that was published (FeedInv), for all periods.
THEOREM FeedSafe == FeedSpec => []FeedInv
<1>1. FeedInit => FeedIInv
  BY InitFeed
<1>2. ASSUME FeedIInv, [FeedNext]_feedVars
      PROVE  FeedIInv'
  <2>1. CASE UNCHANGED feedVars
    BY <1>2, <2>1 DEF feedVars, gpsVars, lightVars, FeedIInv, FeedTypeOK, LastKept, Late,
                      LightKept
  <2>2. QED
    BY <1>2, <2>1, DrainKeeps, PollLocationKeeps, PollCarsKeeps, ReceiveSourceKeeps,
       ReceiveOtherKeeps, TimeAndNodeKeep, LightsKeep DEF FeedNext, FeedPoll
<1>3. FeedIInv => FeedInv
  BY FeedImplied
<1>4. QED
  BY <1>1, <1>2, <1>3, PTL DEF FeedSpec
=============================================================================
