------------------------------- MODULE UserPolicies -------------------------------
(* The users panel of the configure page (configure/users.js): rules of the policy *)
(* table, whose key is the priority. The page gives a new rule the highest priority *)
(* it knows of plus 0.01, which it keeps in a global. Priorities are counted in     *)
(* hundredths, and are below ten to start with.                                     *)
EXTENDS Integers

CONSTANTS
    Users,      \* names
    Priorities, \* of the rules there may be to start with
    MaxActs     \* bound on what the user does

VARIABLES
    acts,       \* what the user did so far
    policy,     \* the rules on the server: sets of priority and user
    shown,      \* those in the table
    topPriority,
    dialogs,    \* the open dialogs "createUser"
    calls,      \* requests the server has not seen
    tables,     \* tables it has answered
    lowered     \* topPriority was set below its value, or below a rule it stood for

vars == <<acts, policy, shown, topPriority, dialogs, calls, tables, lowered>>

\* toPrecision(3): from 10.00 on, the digits that tell new priorities apart are cut.
Limit == 1000
Next001(p) == IF p + 1 >= Limit THEN Limit ELSE p + 1

Keys(rules) == {r.priority : r \in rules}
\* Priorities are compared as strings: "10.0" comes before "9.99", and anything after
\* the number 0 it starts with.
Above(p, q) == IF p = Limit THEN q = 0 ELSE q = Limit \/ p > q
Highest(rules) ==
    IF rules = {} THEN 0
    ELSE CHOOSE p \in Keys(rules) : \A q \in Keys(rules) : p = q \/ Above(p, q)

Rule(p, u) == [priority |-> p, user |-> u]
\* A request to write a rule, made for a new user or to edit one.
Write(p, u, new) == [cmd |-> "policy", rule |-> Rule(p, u), new |-> new]
Dialog(p, u, new) == [priority |-> p, user |-> u, new |-> new]
Tabdump == [cmd |-> "tabdump"]
Writes == {c \in calls : c.cmd = "policy"}

\* The table has been drawn; before that there are no menus.
Init ==
    /\ acts = 0
    /\ policy \in {{Rule(p, u) : p \in S} : S \in SUBSET Priorities, u \in Users}
    /\ shown = policy /\ topPriority = Highest(policy)
    /\ dialogs = {}
    /\ calls = {} /\ tables = {}
    /\ lowered = FALSE

---------------------------------------------------------------------------------
(* The panel *)

Act == acts < MaxActs /\ acts' = acts + 1

\* "Refresh"; a dialog is modal.
loadUserPage ==
    /\ Act /\ dialogs = {}
    /\ calls' = calls \cup {Tabdump}
    /\ UNCHANGED <<policy, shown, topPriority, dialogs, tables, lowered>>

\* The rows of an answer replace the table, and give the highest priority.
loadUserTable(rules) ==
    /\ rules \in tables
    /\ tables' = tables \ {rules}
    /\ shown' = rules
    /\ topPriority' = Highest(rules)
    /\ lowered' = (lowered \/ Above(topPriority, topPriority'))
    /\ UNCHANGED <<acts, policy, dialogs, calls>>

\* "Create", and "Edit" with no row checked.
OpenCreate ==
    /\ Act /\ dialogs = {}
    /\ \E u \in Users : dialogs' = {Dialog(Next001(topPriority), u, TRUE)}
    /\ UNCHANGED <<policy, shown, topPriority, calls, tables, lowered>>

\* A dialog for each row that is checked.
OpenEdit(rules) ==
    /\ Act /\ dialogs = {}
    /\ rules # {} /\ rules \subseteq shown
    /\ dialogs' = {Dialog(r.priority, r.user, FALSE) : r \in rules}
    /\ UNCHANGED <<policy, shown, topPriority, calls, tables, lowered>>

\* A fault: the highest priority is not updated.
Ok_NotRaised(d) ==
    /\ d \in dialogs
    /\ dialogs' = dialogs \ {d}
    /\ calls' = calls \cup {Write(d.priority, d.user, d.new)}
    /\ UNCHANGED <<acts, policy, shown, topPriority, tables, lowered>>

\* "Ok" writes the rule of the priority in the dialog, which is the highest from
\* now on. (The password is posted in parallel.)
Ok(d) ==
    /\ d \in dialogs
    /\ dialogs' = dialogs \ {d}
    /\ calls' = calls \cup {Write(d.priority, d.user, d.new)}
    /\ topPriority' = d.priority
    /\ lowered' = (lowered \/ Above(topPriority, topPriority'))
    /\ UNCHANGED <<acts, policy, shown, tables>>

Cancel(d) ==
    /\ d \in dialogs
    /\ dialogs' = dialogs \ {d}
    /\ UNCHANGED <<acts, policy, shown, topPriority, calls, tables, lowered>>

\* "Delete": all rules of the users whose rows are checked.
Delete(users) ==
    /\ Act /\ dialogs = {}
    /\ users # {} /\ users \subseteq {r.user : r \in shown}
    /\ calls' = calls \cup {[cmd |-> "deleteuser", users |-> users]}
    /\ UNCHANGED <<policy, shown, topPriority, dialogs, tables, lowered>>

---------------------------------------------------------------------------------
(* The server *)

\* A table read while a rule is on its way does not have it.
ReadTable ==
    /\ Tabdump \in calls
    /\ calls' = calls \ {Tabdump}
    /\ tables' = tables \cup {policy}
    /\ UNCHANGED <<acts, policy, shown, topPriority, dialogs, lowered>>

\* web_policy: chtab changes the rule with that priority, or makes it.
web_policy(c) ==
    /\ c \in Writes
    /\ policy' = {r \in policy : r.priority # c.rule.priority} \cup {c.rule}
    /\ calls' = calls \ {c}
    /\ UNCHANGED <<acts, shown, topPriority, dialogs, tables, lowered>>

web_deleteuser(c) ==
    /\ c \in calls /\ c.cmd = "deleteuser"
    /\ policy' = {r \in policy : r.user \notin c.users}
    /\ calls' = calls \ {c}
    /\ UNCHANGED <<acts, shown, topPriority, dialogs, tables, lowered>>

\* A request does not reach the server.
Lose(c) ==
    /\ c \in calls
    /\ calls' = calls \ {c}
    /\ UNCHANGED <<acts, policy, shown, topPriority, dialogs, tables, lowered>>

Next ==
    \/ loadUserPage
    \/ OpenCreate
    \/ \E rules \in SUBSET shown : OpenEdit(rules)
    \/ \E users \in SUBSET Users : Delete(users)
    \/ \E d \in dialogs : Ok(d) \/ Cancel(d)
    \/ \E rules \in tables : loadUserTable(rules)
    \/ ReadTable
    \/ \E c \in calls : web_policy(c) \/ web_deleteuser(c) \/ Lose(c)

Spec == Init /\ [][Next]_vars

---------------------------------------------------------------------------------
TypeOK ==
    /\ acts \in 0..MaxActs
    /\ policy \subseteq [priority : 0..Limit, user : Users]
    /\ shown \subseteq [priority : 0..Limit, user : Users]
    /\ topPriority \in 0..Limit
    /\ dialogs \subseteq [priority : 0..Limit, user : Users, new : BOOLEAN]
    /\ lowered \in BOOLEAN

\* A new user gets a rule of its own: no other rule has the priority that its
\* request carries, unless an edit or an old table lowered topPriority before, or
\* there were no digits left.
OwnRule ==
    \A c \in Writes : c.new /\ ~lowered /\ c.rule.priority < Limit =>
        /\ c.rule.priority \notin Keys(policy)
        /\ \A d \in Writes \ {c} : d.rule.priority # c.rule.priority

\* topPriority is the highest priority of the users in the table: "Set the highest
\* priority" (configure/users.js:111), "Update highest priority" (413).
HighestPriority == \A r \in shown : ~Above(r.priority, topPriority)
=================================================================================
