----------------------------- MODULE NodeService -----------------------------
(***************************************************************************)
(* What the install monitor promises its nodes: the connections of one     *)
(* node are answered one at a time and in the order they were accepted,    *)
(* while different nodes do not wait for one another.  How the monitor     *)
(* does it (handler processes, busy table, reaping) is InstallMonitor.     *)
(***************************************************************************)
EXTENDS Sequences

CONSTANTS Nodes,    \* the nodes of the cluster
          Conns,    \* the connections nodes open
          NodeOf,   \* the node each connection comes from
          NoConn    \* no connection

VARIABLES pending,  \* node -> its accepted connections nobody answers yet
          serving   \* node -> the connection being answered, or NoConn

vars == <<pending, serving>>

Init == /\ pending = [n \in Nodes |-> <<>>]
        /\ serving = [n \in Nodes |-> NoConn]

(* A connection is accepted: it goes behind the node's earlier ones. *)
Accept(c) ==
    /\ pending' = [pending EXCEPT ![NodeOf[c]] = Append(@, c)]
    /\ UNCHANGED serving

(* The oldest connection of a node that nobody serves is taken up. *)
Begin(n) ==
    /\ pending[n] # <<>>
    /\ serving[n] = NoConn
    /\ serving' = [serving EXCEPT ![n] = Head(pending[n])]
    /\ pending' = [pending EXCEPT ![n] = Tail(@)]

(* The answer ends, by completing or by the death of who gives it. *)
Finish(n) ==
    /\ serving[n] # NoConn
    /\ serving' = [serving EXCEPT ![n] = NoConn]
    /\ UNCHANGED pending

(* The service ends: what was not begun is closed unanswered, and at most  *)
(* one answer, the one the monitor was giving itself, ends with it.        *)
Close ==
    /\ pending' = [n \in Nodes |-> <<>>]
    /\ \/ UNCHANGED serving
       \/ \E n \in Nodes : serving' = [serving EXCEPT ![n] = NoConn]

Next == \/ \E c \in Conns : Accept(c)
        \/ \E n \in Nodes : Begin(n) \/ Finish(n)
        \/ Close

Spec == Init /\ [][Next]_vars
=============================================================================
