----------------------------- MODULE DropOldest -----------------------------
(***************************************************************************)
(* What the shared memory promises the sender of the traffic reports: a    *)
(* queue of Size entries that are taken all at once, each at most once,    *)
(* and that loses an entry only when it is full, and then the oldest.      *)
(***************************************************************************)
EXTENDS Naturals, FiniteSets

CONSTANT Size

VARIABLES
  count,  \* entries put in so far; they are numbered
  queued, \* the entries that wait
  taken   \* the entries taken

Init == count = 0 /\ queued = {} /\ taken = {}

Oldest == {e \in queued : \A f \in queued : e <= f}

Put ==
  /\ count' = count + 1
  /\ queued' = (IF Cardinality(queued) = Size THEN queued \ Oldest ELSE queued)
                 \cup {count + 1}
  /\ UNCHANGED taken

TakeAll ==
  /\ taken' = taken \cup queued
  /\ queued' = {}
  /\ UNCHANGED count

Next == Put \/ TakeAll

Spec == Init /\ [][Next]_<<count, queued, taken>>
=============================================================================
