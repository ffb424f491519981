-------------------------------- MODULE NodesPage --------------------------------
(* The nodes page of the web interface (nodes/nodes.js): a group is selected, its  *)
(* summary and its nodes are asked for, and commands fill columns of the table.    *)
(* What is in flight when another group is selected is not stopped: its callbacks  *)
(* write into the tabs of the new group. Requests that are equal are kept as one.  *)
EXTENDS Ajax, Integers, FiniteSets

CONSTANTS
    Nodes, Groups,  \* node and group names
    Members,    \* the nodes of each group
    NoGroup,    \* nothing selected, or nothing drawn
    PageSize,   \* rows a page of the table shows, definitions asked for at first
    MaxActs     \* bound on what the user does

VARIABLES
    acts,       \* what the user did so far
    group,      \* the selected group
    summary,    \* the group whose numbers the summary shows, "empty" or "loader"
    area,       \* the Nodes tab: "empty", "loader" or "table"
    nodesList,  \* the global with the names of nodels
    table,      \* the group the table was drawn for
    rows,       \* its nodes, which are the keys of origAttrs as well
    known,      \* the nodes whose attributes are in it
    updating,   \* the modal dialog "Updating"
    loaders,    \* columns that show a loader
    calls,      \* requests in flight
    crossed,    \* a group was selected while the contents of another were awaited
    upset,      \* a callback raised an exception, or is one that keeps its loader
    lost        \* a request got no answer

vars == <<acts, group, summary, area, nodesList, table, rows, known, updating, loaders,
          calls, crossed, upset, lost>>
tabs == <<group, summary, area>>
data == <<nodesList, table, rows, known>>
ends == <<crossed, upset, lost>>

Columns == {"status", "power", "monitor"}
Contents == {"summary", "nodels", "lsdef", "defs"}
Commands == {"nodestat", "rpower-stat", "gangliastatus", "rpower", "gangliacheck",
             "gangliastart", "gangliastop"}

Request(what, g, ns) == [what |-> what, group |-> g, nodes |-> ns]

\* A page of the rows S; the first one has the definitions from the start.
Pages(S) == {T \in SUBSET S : T # {} /\ Cardinality(T) <= PageSize}
FirstPage(S) ==
    CHOOSE T \in Pages(S) : \A U \in Pages(S) : Cardinality(U) <= Cardinality(T)

Init ==
    /\ acts = 0
    /\ group = NoGroup /\ summary = "empty" /\ area = "empty"
    /\ nodesList = {} /\ table = NoGroup /\ rows = {} /\ known = {}
    /\ updating = FALSE /\ loaders = {}
    /\ calls = {}
    /\ crossed = FALSE /\ upset = FALSE /\ lost = FALSE

---------------------------------------------------------------------------------
(* The user. The dialog "Updating" lets nothing else be clicked.                  *)

Act == ~updating /\ acts < MaxActs /\ acts' = acts + 1

\* loadPieSummary, or the click on the tab Nodes: a tab with nothing in it is
\* filled with a loader, and its contents are asked for.
Fill(view, g) ==
    /\ summary' = IF view = "summary" THEN "loader" ELSE "empty"
    /\ area' = IF view = "nodes" THEN "loader" ELSE "empty"
    /\ calls' = calls \cup {Request(IF view = "summary" THEN "summary" ELSE "nodels", g, {})}

\* drawNodesArea: the tabs are new and empty, and the view of the cookie is opened.
\* Other windows write that cookie as well.
SelectGroup(g, view) ==
    /\ Act
    /\ group' = g
    /\ Fill(view, g)
    /\ loaders' = {}
    /\ crossed' = (crossed \/ \E c \in calls : c.what \in Contents)
    /\ UNCHANGED <<data, updating, upset, lost>>

SelectTab(view) ==
    /\ Act /\ group # NoGroup
    /\ IF view = "summary"
       THEN /\ summary = "empty" /\ summary' = "loader" /\ UNCHANGED area
            /\ calls' = calls \cup {Request("summary", group, {})}
       ELSE /\ area = "empty" /\ area' = "loader" /\ UNCHANGED summary
            /\ calls' = calls \cup {Request("nodels", group, {})}
    /\ UNCHANGED <<group, data, updating, loaders, ends>>

\* A filter, another page or another order shows other rows: the attributes of
\* those that are not known are asked for, and the table waits for them.
getNodeAttrs(shown) ==
    LET unknown == shown \ known
    IN /\ Act /\ area = "table" /\ shown \in Pages(rows)
       /\ unknown # {}
       /\ calls' = calls \cup {Request("defs", table, unknown)}
       /\ updating' = TRUE
       /\ UNCHANGED <<tabs, data, loaders, ends>>

\* The cross in its corner.
CloseUpdating ==
    /\ updating /\ updating' = FALSE
    /\ UNCHANGED <<acts, tabs, data, loaders, calls, ends>>

\* A command for the rows shown, or checked, whose column shows a loader.
Ask(what, column, ns) ==
    /\ Act /\ area = "table"
    /\ loaders' = loaders \cup {column}
    /\ calls' = calls \cup {Request(what, table, ns)}
    /\ UNCHANGED <<tabs, data, updating, ends>>

refreshNodeStatus(shown) == shown \in Pages(rows) /\ Ask("nodestat", "status", shown)
refreshPowerStatus(shown) == shown \in Pages(rows) /\ Ask("rpower-stat", "power", shown)
refreshGangliaStatus(shown) == shown \in Pages(rows) /\ Ask("gangliastatus", "monitor", shown)

powerNode(ns) == ns \in Pages(rows) /\ Ask("rpower", "power", ns)

\* Monitoring is started for some nodes, after a check, or for all; or stopped.
monitorNode(ns, on) ==
    /\ ns \in Pages(rows) \cup {{}}
    /\ Ask(CASE ~on -> "gangliastop" [] on /\ ns # {} -> "gangliacheck" [] OTHER -> "gangliastart",
           "monitor", ns)

---------------------------------------------------------------------------------
(* The answers *)

\* drawPieSummary is called for each part of the answer and writes into the pie of
\* that number, or raises where the tab has none. An answer without the parts, or
\* with others, leaves the loaders of pies, or raises.
SummaryAnswered(g, rsp) ==
    LET c == Request("summary", g, {})
    IN /\ c \in calls
       /\ calls' = calls \ {c}
       /\ summary' = IF summary = "empty" \/ rsp # "text" THEN summary ELSE g
       /\ upset' = (upset \/ rsp # "text")
       /\ UNCHANGED <<acts, group, area, data, updating, loaders, crossed, lost>>

\* The names are kept, and the first definitions asked for, for this group.
NodelsAnswered(g) ==
    LET c == Request("nodels", g, {})
    IN /\ c \in calls
       /\ nodesList' = Members[g]
       /\ calls' = (calls \ {c}) \cup {Request("lsdef", g, FirstPage(Members[g]))}
       /\ UNCHANGED <<acts, tabs, table, rows, known, updating, loaders, ends>>

\* A fault: the names in the global are not added.
loadNodes_DefinedOnly(c, stat) ==
    /\ c \in calls /\ c.what = "lsdef"
    /\ area' = "table" /\ table' = c.group
    /\ rows' = c.nodes
    /\ known' = c.nodes
    /\ loaders' = IF stat THEN {} ELSE {"status"}
    /\ calls' = (calls \ {c}) \cup
                    (IF stat THEN {} ELSE {Request("nodestat", c.group, FirstPage(rows'))})
    /\ UNCHANGED <<acts, group, summary, nodesList, updating, ends>>

\* loadNodes draws the table of the nodes defined in the answer and of those in
\* the global as it is now. Without a status in the answer nodestat is asked.
loadNodes(c, stat) ==
    /\ c \in calls /\ c.what = "lsdef"
    /\ area' = "table" /\ table' = c.group
    /\ rows' = c.nodes \cup nodesList
    /\ known' = c.nodes
    /\ loaders' = IF stat THEN {} ELSE {"status"}
    /\ calls' = (calls \ {c}) \cup
                    (IF stat THEN {} ELSE {Request("nodestat", c.group, FirstPage(rows'))})
    /\ UNCHANGED <<acts, group, summary, nodesList, updating, ends>>

\* A line before the first "Object name", as an error is: the tab was emptied by
\* then, its table is gone and nothing new is drawn.
LoadingRaises(c) ==
    /\ c \in calls /\ c.what = "lsdef"
    /\ calls' = calls \ {c}
    /\ area' = "empty" /\ table' = NoGroup /\ rows' = {} /\ known' = {}
    /\ upset' = TRUE
    /\ UNCHANGED <<acts, group, summary, nodesList, updating, loaders, crossed, lost>>

\* addNodes2Table raises for an error and for a node that is not in the table; else
\* it closes all dialogs. Without a status it asks that of the whole group.
addNodes2Table(c, rsp, stat) ==
    /\ c \in calls /\ c.what = "defs"
    /\ rsp = "empty" => ~stat
    /\ IF rsp = "empty" \/ (rsp = "text" /\ area = "table" /\ c.nodes \subseteq rows)
       THEN /\ known' = IF rsp = "empty" THEN known ELSE known \cup c.nodes
            /\ updating' = FALSE
            /\ loaders' = IF stat THEN loaders \ {"status"} ELSE loaders
            /\ calls' = (calls \ {c}) \cup
                    (IF stat THEN {} ELSE {Request("nodestat", c.group, Members[c.group])})
            /\ UNCHANGED upset
       ELSE /\ calls' = calls \ {c}
            /\ upset' = TRUE
            /\ UNCHANGED <<known, updating, loaders>>
    /\ UNCHANGED <<acts, tabs, nodesList, table, rows, crossed, lost>>

\* The states of nodes are written into their rows, then the loader is hidden. A
\* node without a row, or a line that is an error, raises before that.
LoadStatus(c, what, column, rsp) ==
    /\ c \in calls /\ c.what = what
    /\ calls' = calls \ {c}
    /\ IF rsp = "empty" \/ (rsp = "text" /\ area = "table" /\ c.nodes \subseteq rows)
       THEN loaders' = loaders \ {column} /\ UNCHANGED upset
       ELSE upset' = TRUE /\ UNCHANGED loaders
    /\ UNCHANGED <<acts, tabs, data, updating, crossed, lost>>

loadNodeStatus(c, rsp) == LoadStatus(c, "nodestat", "status", rsp)
loadPowerStatus(c, rsp) == LoadStatus(c, "rpower-stat", "power", rsp)
loadGangliaStatus(c, rsp) == LoadStatus(c, "gangliastatus", "monitor", rsp)

\* Here the loader is hidden first.
updatePowerStatus(c) ==
    /\ c \in calls /\ c.what = "rpower"
    /\ calls' = calls \ {c}
    /\ loaders' = loaders \ {"power"}
    /\ UNCHANGED <<acts, tabs, data, updating, ends>>

\* Packages that are not installed open a warning, and the loader stays.
GangliaChecked(c, warn) ==
    /\ c \in calls /\ c.what = "gangliacheck"
    /\ calls' = (calls \ {c}) \cup
                    (IF warn THEN {} ELSE {Request("gangliastart", c.group, c.nodes)})
    /\ upset' = (upset \/ warn)
    /\ UNCHANGED <<acts, tabs, data, updating, loaders, crossed, lost>>

\* The states of the nodes follow; started for all, the loader stays.
GangliaStarted(c) ==
    /\ c \in calls /\ c.what = "gangliastart"
    /\ calls' = (calls \ {c}) \cup
                    (IF c.nodes = {} THEN {} ELSE {Request("gangliastatus", c.group, c.nodes)})
    /\ upset' = (upset \/ c.nodes = {})
    /\ UNCHANGED <<acts, tabs, data, updating, loaders, crossed, lost>>

GangliaStopped(c) ==
    /\ c \in calls /\ c.what = "gangliastop"
    /\ calls' = calls \ {c}
    /\ loaders' = loaders \ {"monitor"}
    /\ UNCHANGED <<acts, tabs, data, updating, ends>>

\* The HTTP exchange fails.
Lose(c) ==
    /\ ~lost /\ c \in calls
    /\ calls' = calls \ {c}
    /\ lost' = TRUE
    /\ UNCHANGED <<acts, tabs, data, updating, loaders, crossed, upset>>

---------------------------------------------------------------------------------
User ==
    \/ \E g \in Groups, view \in {"summary", "nodes"} : SelectGroup(g, view)
    \/ \E view \in {"summary", "nodes"} : SelectTab(view)
    \/ CloseUpdating
    \/ \E ns \in SUBSET Nodes :
        \/ getNodeAttrs(ns)
        \/ refreshNodeStatus(ns)
        \/ refreshPowerStatus(ns)
        \/ refreshGangliaStatus(ns)
        \/ powerNode(ns)
        \/ \E on \in BOOLEAN : monitorNode(ns, on)

Answer ==
    \/ \E g \in Groups : NodelsAnswered(g) \/ \E rsp \in Answers : SummaryAnswered(g, rsp)
    \/ \E c \in calls :
        \/ \E stat \in BOOLEAN : loadNodes(c, stat)
        \/ LoadingRaises(c)
        \/ \E rsp \in Answers, stat \in BOOLEAN : addNodes2Table(c, rsp, stat)
        \/ \E rsp \in Answers :
            \/ loadNodeStatus(c, rsp)
            \/ loadPowerStatus(c, rsp)
            \/ loadGangliaStatus(c, rsp)
        \/ updatePowerStatus(c)
        \/ \E warn \in BOOLEAN : GangliaChecked(c, warn)
        \/ GangliaStarted(c)
        \/ GangliaStopped(c)

Next == User \/ Answer \/ (\E c \in calls : Lose(c))

Spec == Init /\ [][Next]_vars /\ WF_vars(Answer)

---------------------------------------------------------------------------------
TypeOK ==
    /\ acts \in 0..MaxActs
    /\ group \in Groups \cup {NoGroup} /\ table \in Groups \cup {NoGroup}
    /\ summary \in Groups \cup {"empty", "loader"}
    /\ area \in {"empty", "loader", "table"}
    /\ nodesList \subseteq Nodes /\ rows \subseteq Nodes /\ known \subseteq rows
    /\ updating \in BOOLEAN /\ loaders \subseteq Columns
    /\ calls \subseteq [what : Contents \cup Commands, group : Groups, nodes : SUBSET Nodes]
    /\ crossed \in BOOLEAN /\ upset \in BOOLEAN /\ lost \in BOOLEAN

\* The tabs show the selected group: its numbers, and a row for each of its nodes
\* and no other, through the two requests that list it and those for further
\* pages, unless another group was selected before the contents had come.
ShowsSelected ==
    ~crossed =>
        /\ summary \in Groups => summary = group
        /\ area = "table" => table = group /\ rows = Members[group]

\* No tab, column or dialog shows for ever that it is being loaded, unless a
\* request got no answer or a callback ended before it could hide that.
Waiting == summary = "loader" \/ area = "loader" \/ updating \/ loaders # {}
Excused == lost \/ upset
LoadingEnds == Waiting ~> ~Waiting \/ Excused
=================================================================================
