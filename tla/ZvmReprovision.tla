----------------------------- MODULE ZvmReprovision -----------------------------
(* Provisioning existing z/VM nodes in the web interface (zvmUtils.js,            *)
(* createZProvisionExisting and updateZProvisionExistingStatus; customUtils.js,   *)
(* createNodesDatatable; ui.js, getNodesChecked): the nodes of a group are listed, *)
(* a page at a time, some are checked, and three commands run on those checked on *)
(* the page that is drawn when each is posted.                                    *)
EXTENDS Ajax, Naturals, FiniteSets

CONSTANTS
    Nodes,      \* node names
    Groups,     \* group names
    Members,    \* the nodes of each group
    RowsPerPage,    \* 50 in the code
    NoGroup     \* no table yet

VARIABLES
    stage,      \* "edit", "run" (inputs disabled)
    os,         \* an image is selected
    table,      \* the group whose nodes the table lists
    drawn,      \* the nodes whose rows are drawn, the others' are detached
    enabled,    \* the nodes whose check boxes can be clicked
    checked,    \* nodes checked, on any page
    calls,      \* requests in flight, with the group for lsdef
    loader,     \* the loader is shown
    tgts,       \* per command, the rows drawn when it was posted and its nodes
    replaced,   \* a table was drawn after the click
    lost        \* a request got no answer

vars == <<stage, os, table, drawn, enabled, checked, calls, loader, tgts, replaced, lost>>

\* The rows a page may hold: any that the filter leaves, in any order.
Pages(g) == {rows \in SUBSET Members[g] : Cardinality(rows) <= RowsPerPage}
\* The first page of a table that is not filtered yet.
FirstPages(g) == {rows \in Pages(g) : rows = Members[g] \/ Cardinality(rows) = RowsPerPage}
Picks == [rows : SUBSET Nodes, of : SUBSET Nodes]

Steps == {"nodeadd", "nodeset", "rnetboot"}
Lsdef(g) == [cmd |-> "lsdef", group |-> g]
Cmd(c)   == [cmd |-> c, group |-> NoGroup]
Calls    == {Lsdef(g) : g \in Groups} \cup {Cmd(c) : c \in Steps}

Init ==
    /\ stage = "edit" /\ os = FALSE
    /\ table = NoGroup /\ drawn = {} /\ enabled = {} /\ checked = {}
    /\ calls = {}
    /\ loader = FALSE
    /\ tgts = [c \in Steps |-> [rows |-> {}, of |-> {}]]
    /\ replaced = FALSE /\ lost = FALSE

---------------------------------------------------------------------------------
\* A group is selected: its nodes are asked for, the old table stays until then.
SelectGroup(g) ==
    /\ stage = "edit"
    /\ calls' = calls \cup {Lsdef(g)}
    /\ UNCHANGED <<stage, os, table, drawn, enabled, checked, loader, tgts, replaced, lost>>

\* createNodesDatatable: the answer replaces the table, whatever was selected or
\* clicked since; the new check boxes are clear and enabled.
TableAnswered(g) ==
    /\ \E rows \in FirstPages(g) : drawn' = rows
    /\ Lsdef(g) \in calls
    /\ calls' = calls \ {Lsdef(g)}
    /\ table' = g /\ enabled' = Members[g] /\ checked' = {}
    /\ replaced' = (replaced \/ stage = "run")
    /\ UNCHANGED <<stage, os, loader, tgts, lost>>

\* Another page, order or filter. The links of the pages and the headings stay in
\* use while the commands run; the filter is an input, so that only a table longer
\* than a page turns then. A row keeps its box, checked or not, disabled or not.
TurnPage ==
    /\ table # NoGroup
    /\ stage = "run" => Cardinality(Members[table]) > RowsPerPage
    /\ \E rows \in Pages(table) : drawn' = rows
    /\ UNCHANGED <<stage, os, table, enabled, checked, calls, loader, tgts, replaced, lost>>

Check(n) ==
    /\ n \in drawn \cap enabled
    /\ checked' = IF n \in checked THEN checked \ {n} ELSE checked \cup {n}
    /\ UNCHANGED <<stage, os, table, drawn, enabled, calls, loader, tgts, replaced, lost>>

SelectOs ==
    /\ stage = "edit"
    /\ os' = ~os
    /\ UNCHANGED <<stage, table, drawn, enabled, checked, calls, loader, tgts, replaced, lost>>

\* Only the boxes of the rows that are drawn are found.
getNodesChecked == checked \cap drawn

\* A step is posted for the nodes found now.
Post(cmd) ==
    /\ calls' = (calls \ {Cmd(c) : c \in Steps}) \cup {Cmd(cmd)}
    /\ tgts' = [tgts EXCEPT ![cmd] = [rows |-> drawn, of |-> getNodesChecked]]

\* A fault: the boxes of the table are not disabled.
ClickProvision_BoxesEnabled ==
    /\ stage = "edit" /\ os /\ getNodesChecked # {}
    /\ stage' = "run"
    /\ loader' = TRUE
    /\ Post("nodeadd")
    /\ UNCHANGED <<os, table, drawn, enabled, checked, replaced, lost>>

\* The click is refused without a node or an image. The visible inputs are
\* disabled, the check boxes of the rows drawn among them, and the loader is shown.
ClickProvision ==
    /\ stage = "edit" /\ os /\ getNodesChecked # {}
    /\ stage' = "run"
    /\ enabled' = enabled \ drawn
    /\ loader' = TRUE
    /\ Post("nodeadd")
    /\ UNCHANGED <<os, table, drawn, checked, replaced, lost>>

\* updateZProvisionExistingStatus. The answer of nodeadd is not looked at.
NodeaddAnswered ==
    /\ Cmd("nodeadd") \in calls
    /\ Post("nodeset")
    /\ UNCHANGED <<stage, os, table, drawn, enabled, checked, loader, replaced, lost>>

\* A fault: the loader stays after an error.
NodesetAnswered_LoaderLeft(rsp) ==
    /\ Cmd("nodeset") \in calls
    /\ IF ContainErrors(rsp)
       THEN calls' = calls \ {Cmd("nodeset")} /\ UNCHANGED tgts
       ELSE Post("rnetboot")
    /\ UNCHANGED <<stage, os, table, drawn, enabled, checked, loader, replaced, lost>>

NodesetAnswered(rsp) ==
    /\ Cmd("nodeset") \in calls
    /\ IF ContainErrors(rsp)
       THEN calls' = calls \ {Cmd("nodeset")} /\ loader' = FALSE /\ UNCHANGED tgts
       ELSE Post("rnetboot") /\ UNCHANGED loader
    /\ UNCHANGED <<stage, os, table, drawn, enabled, checked, replaced, lost>>

RnetbootAnswered ==
    /\ Cmd("rnetboot") \in calls
    /\ calls' = calls \ {Cmd("rnetboot")}
    /\ loader' = FALSE
    /\ UNCHANGED <<stage, os, table, drawn, enabled, checked, tgts, replaced, lost>>

Lose(c) ==
    /\ c \in calls
    /\ calls' = calls \ {c}
    /\ lost' = TRUE
    /\ UNCHANGED <<stage, os, table, drawn, enabled, checked, loader, tgts, replaced>>

Answer ==
    \/ \E g \in Groups : TableAnswered(g)
    \/ NodeaddAnswered
    \/ \E rsp \in Answers : NodesetAnswered(rsp)
    \/ RnetbootAnswered

Next ==
    \/ \E g \in Groups : SelectGroup(g)
    \/ TurnPage
    \/ \E n \in Nodes : Check(n)
    \/ SelectOs
    \/ ClickProvision
    \/ Answer
    \/ \E c \in Calls : Lose(c)

Spec == Init /\ [][Next]_vars /\ WF_vars(Answer)

---------------------------------------------------------------------------------
TypeOK ==
    /\ stage \in {"edit", "run"} /\ os \in BOOLEAN
    /\ table \in Groups \cup {NoGroup} /\ drawn \subseteq Nodes
    /\ enabled \subseteq Nodes /\ checked \subseteq Nodes
    /\ calls \subseteq Calls
    /\ loader \in BOOLEAN
    /\ tgts \in [Steps -> Picks]
    /\ replaced \in BOOLEAN /\ lost \in BOOLEAN

\* However the pages are turned, the boxes checked on other pages and the commands
\* spaced, a node whose row is drawn both at the click and when a later command is
\* posted is prepared or booted exactly if it was given the image, unless a table
\* that was asked for before the click arrived after it. (Rows that are drawn only
\* once may well differ: a node can be booted that was not given the image.)
SameTargets ==
    ~replaced =>
        \A c \in {"nodeset", "rnetboot"} : Cmd(c) \in calls =>
            tgts[c].of \cap tgts["nodeadd"].rows = tgts["nodeadd"].of \cap tgts[c].rows

\* The loader is hidden in the end, if every request is answered.
LoaderHidden == loader ~> ~loader \/ lost
=================================================================================
