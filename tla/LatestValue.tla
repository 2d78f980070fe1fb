---------------------------- MODULE LatestValue ----------------------------
(***************************************************************************)
(* What a lastOnly subscriber (utils/messages/messageHandlerSubscriber.py) *)
(* promises its reader: at most one message waits, it may be replaced or   *)
(* discarded at any time, and the reader sees messages in the order they   *)
(* were sent, none of them twice.  Messages are numbered in that order.    *)
(***************************************************************************)
EXTENDS Naturals

VARIABLES
  sent,   \* the number of the last message sent
  shown,  \* the newest message that ever waited for the reader
  slot    \* the message waiting for the reader, 0 if none

Init == sent = 0 /\ shown = 0 /\ slot = 0

Put ==
  /\ sent' = sent + 1
  /\ UNCHANGED <<shown, slot>>

\* A message the reader has not been offered yet takes the place of the older one.
Show ==
  /\ slot' \in (shown + 1) .. sent
  /\ shown' = slot'
  /\ UNCHANGED sent

\* The reader takes the message, or it is discarded.
Clear ==
  /\ slot # 0 /\ slot' = 0
  /\ UNCHANGED <<sent, shown>>

Next == Put \/ Show \/ Clear

Spec == Init /\ [][Next]_<<sent, shown, slot>>
=============================================================================
