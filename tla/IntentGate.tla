------------------------------- MODULE IntentGate -------------------------------
(***************************************************************************)
(* What the control plane promises, whatever stages it is built from: an   *)
(* intent that is taken up is decided once, the decision is recorded, and   *)
(* only then is it handed back.  A decision either refuses or grants one   *)
(* capability, and a grant is one that Permitted allows and carries the    *)
(* approval gate that NeedsApproval demands.                               *)
(***************************************************************************)
EXTENDS Sequences

CONSTANTS
  Workers,                  \* concurrent callers of the broker
  Tickets,                  \* names of the calls, never reused
  Requests,                 \* intents as the broker sees them
  Grantable,                \* capability descriptors
  NameOf(_),                \* the identifier of a descriptor
  Permitted(_, _),          \* request, descriptor: authority to use it
  NeedsApproval(_),         \* descriptor: a human must approve first
  None

VARIABLES
  pending,    \* worker -> the request it is working on
  record,     \* decisions in the order they were recorded
  handed      \* decisions in the order they were handed back

vars == <<pending, record, handed>>

Idle == [ticket |-> None, request |-> None, decided |-> FALSE]

Refusal(ticket) == [ticket |-> ticket, grants |-> None, approval |-> FALSE]

Verdict(p, v) ==
  \/ v = Refusal(p.ticket)
  \/ \E c \in Grantable :
       /\ Permitted(p.request, c)
       /\ \E approval \in BOOLEAN :
            /\ NeedsApproval(c) => approval
            /\ v = [ticket |-> p.ticket, grants |-> NameOf(c), approval |-> approval]

Init ==
  /\ pending = [w \in Workers |-> Idle]
  /\ record = <<>>
  /\ handed = <<>>

TakeUp(w, ticket, request) ==
  /\ pending[w] = Idle
  /\ \A u \in Workers : pending[u].ticket # ticket
  /\ \A i \in DOMAIN record : record[i].ticket # ticket
  /\ pending' = [pending EXCEPT ![w] =
                   [ticket |-> ticket, request |-> request, decided |-> FALSE]]
  /\ UNCHANGED <<record, handed>>

Decide(w, v) ==
  /\ pending[w].request # None
  /\ ~pending[w].decided
  /\ Verdict(pending[w], v)
  /\ pending' = [pending EXCEPT ![w].decided = TRUE]
  /\ record' = Append(record, v)
  /\ UNCHANGED handed

HandBack(w) ==
  /\ pending[w].decided
  /\ \E i \in DOMAIN record :
       /\ record[i].ticket = pending[w].ticket
       /\ handed' = Append(handed, record[i])
  /\ pending' = [pending EXCEPT ![w] = Idle]
  /\ UNCHANGED record

Next ==
  \E w \in Workers :
    \/ \E ticket \in Tickets, request \in Requests : TakeUp(w, ticket, request)
    \/ \E v \in [ticket : Tickets, grants : {NameOf(c) : c \in Grantable} \cup {None},
                 approval : BOOLEAN] : Decide(w, v)
    \/ HandBack(w)

Spec == Init /\ [][Next]_vars
================================================================================
