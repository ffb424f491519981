-------------------------------- MODULE ZvmClone --------------------------------
(* Registering a range of z/VM nodes in the web interface: the clone page         *)
(* (zvm.js, loadClonePage, with updateZCloneStatus of zvmUtils.js), which goes on *)
(* to clone them, and the "Add node" dialog (zvm.js, addNode). Both post one      *)
(* nodeadd per node in parallel; the answer whose node is the end of the range    *)
(* stands for all of them, although answers come in any order.                    *)
EXTENDS Ajax, Integers

CONSTANT MaxNode    \* bound on the numbers at the end of node names

VARIABLES
    kind,       \* "clone" or "add"
    builtin,    \* builtInXCAT: no makedns
    stage,      \* "edit", "run", or "closed" (dialog only)
    first, last,    \* the range that was accepted
    calls,      \* requests in flight: the nodes being added, and commands
    loader,     \* the loader is shown
    lost        \* a request got no answer

vars == <<kind, builtin, stage, first, last, calls, loader, lost>>

Nodes == 1..MaxNode
Commands == {"makehosts", "makedns", "mkvm"}
Add(n) == [cmd |-> "nodeadd", node |-> n]
Cmd(c) == [cmd |-> c, node |-> 0]
Calls  == {Add(n) : n \in Nodes} \cup {Cmd(c) : c \in Commands}

\* A field: one name, or two with a dash between them.
Fields == [dash : BOOLEAN, first : Nodes, last : Nodes]

Init ==
    /\ kind \in {"clone", "add"}
    /\ builtin \in BOOLEAN
    /\ stage = "edit"
    /\ first = 0 /\ last = 0
    /\ calls = {}
    /\ loader = FALSE
    /\ lost = FALSE

---------------------------------------------------------------------------------
\* A range needs both fields to be ranges, with equal ends; that they are in
\* order is not asked. Empty fields are refused too.
RangesMatch(node, userId) ==
    node.dash \/ userId.dash =>
        /\ node.dash /\ userId.dash
        /\ node.first = userId.first /\ node.last = userId.last

\* The click that is accepted: one nodeadd for each node from the first to the
\* last. One name is a range of one. The loader is shown in any case, and the
\* button disabled or replaced.
Submit(node, userId) ==
    /\ stage = "edit" /\ RangesMatch(node, userId)
    /\ stage' = "run"
    /\ first' = node.first
    /\ last' = IF node.dash THEN node.last ELSE node.first
    /\ calls' = {Add(n) : n \in first'..last'}
    /\ loader' = TRUE
    /\ UNCHANGED <<kind, builtin, lost>>

CloneClick(node, userId) == kind = "clone" /\ Submit(node, userId)

AddNodeOk(node, userId) == kind = "add" /\ Submit(node, userId)

\* The dialog can be closed while its requests are in flight.
AddNodeClose ==
    /\ kind = "add" /\ stage # "closed"
    /\ stage' = "closed" /\ loader' = FALSE
    /\ UNCHANGED <<kind, builtin, first, last, calls, lost>>

\* updateZCloneStatus, nodeadd, which is silent when it succeeds: the answer for the
\* end of the range stands for all, and posts nothing after an error.
CloneNodeadd(n, rsp) ==
    /\ kind = "clone" /\ Add(n) \in calls
    /\ calls' = (calls \ {Add(n)}) \cup
                    (IF n = last /\ ~HasText(rsp) THEN {Cmd("makehosts")} ELSE {})
    /\ loader' = (loader /\ ~HasText(rsp))
    /\ UNCHANGED <<kind, builtin, stage, first, last, lost>>

\* The dialog posts makehosts after the end of the range, error or not, and waits
\* no more; what it is answered changes nothing.
AddNodeadd(n, rsp) ==
    /\ kind = "add" /\ Add(n) \in calls
    /\ calls' = calls \ {Add(n)}
    /\ loader' = (loader /\ n # last)
    /\ UNCHANGED <<kind, builtin, stage, first, last, lost>>

\* makehosts where DNS is ours: an error ends it.
Makehosts(rsp) ==
    /\ ~builtin /\ Cmd("makehosts") \in calls
    /\ calls' = (calls \ {Cmd("makehosts")}) \cup
                    (IF HasText(rsp) THEN {} ELSE {Cmd("makedns")})
    /\ loader' = (loader /\ ~HasText(rsp))
    /\ UNCHANGED <<kind, builtin, stage, first, last, lost>>

\* The names are known: the whole range is after an error as well.
NamesKnown(rsp) ==
    LET c == Cmd(IF builtin THEN "makehosts" ELSE "makedns")
    IN /\ c \in calls
       /\ calls' = (calls \ {c}) \cup {Cmd("mkvm")}
       /\ loader' = (loader /\ ~HasText(rsp))
       /\ UNCHANGED <<kind, builtin, stage, first, last, lost>>

Mkvm ==
    /\ Cmd("mkvm") \in calls
    /\ calls' = calls \ {Cmd("mkvm")}
    /\ loader' = FALSE
    /\ UNCHANGED <<kind, builtin, stage, first, last, lost>>

\* The HTTP exchange fails; mkvm has an error handler, which leaves the loader.
Lose(c) ==
    /\ c \in calls
    /\ calls' = calls \ {c}
    /\ lost' = TRUE
    /\ UNCHANGED <<kind, builtin, stage, first, last, loader>>

Answer ==
    \/ \E rsp \in Answers :
        \/ \E n \in Nodes : CloneNodeadd(n, rsp) \/ AddNodeadd(n, rsp)
        \/ Makehosts(rsp)
        \/ NamesKnown(rsp)
    \/ Mkvm

Next ==
    \/ \E node, userId \in Fields : CloneClick(node, userId)
    \/ \E node, userId \in Fields : AddNodeOk(node, userId)
    \/ AddNodeClose
    \/ Answer
    \/ \E c \in Calls : Lose(c)

Spec == Init /\ [][Next]_vars /\ WF_vars(Answer)

---------------------------------------------------------------------------------
TypeOK ==
    /\ kind \in {"clone", "add"} /\ builtin \in BOOLEAN
    /\ stage \in {"edit", "run", "closed"}
    /\ first \in 0..MaxNode /\ last \in 0..MaxNode
    /\ calls \subseteq Calls
    /\ loader \in BOOLEAN
    /\ lost \in BOOLEAN

\* The loader is hidden in the end, if the range is not empty and every request
\* is answered.
Excused == lost \/ first > last
LoaderHidden == loader ~> ~loader \/ Excused
=================================================================================
