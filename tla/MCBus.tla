------------------------------- MODULE MCBus -------------------------------
(***************************************************************************)
(* The message bus, on small instances and in one run: the gateway with    *)
(* the pipes of its subscribers, and what a lastOnly subscriber does with  *)
(* its pipe.  They share no state here: "scenario" says which of them      *)
(* moves, the other stays as it is at the start.                           *)
(***************************************************************************)
EXTENDS MCGateway, MCMailbox

VARIABLE scenario

Routing(A) == scenario = "gateway" /\ A /\ UNCHANGED <<scenario, mailVars>>
Mail(A) == scenario = "mailbox" /\ A /\ UNCHANGED <<scenario, vars>>

BusInit == scenario \in {"gateway", "mailbox"} /\ Init /\ MailInit

\* Of the mailbox nothing need happen once all messages are sent.
BusNext ==
  \/ Routing(Next) \/ Mail(MailNext)
  \/ Mail(sent = MaxSent /\ UNCHANGED mailVars)

\* The fairness of FairSpec and of FairMailSpec, each for the component that moves.
BusSpec ==
  /\ BusInit /\ [][BusNext]_<<scenario, vars, mailVars>>
  /\ WF_vars(scenario = "gateway" /\ Gateway)
  /\ \A t \in Topics, r \in Receivers : WF_vars(scenario = "gateway" /\ Receive(t, r))
  /\ WF_mailVars(scenario = "mailbox" /\ DrainRecv)
  /\ WF_mailVars(scenario = "mailbox" /\ DrainStore)
  /\ WF_mailVars(scenario = "mailbox" /\ ReceiveCached)
  /\ \A c \in Threads : SF_mailVars(scenario = "mailbox" /\ EmptyEnd(c))
=============================================================================
