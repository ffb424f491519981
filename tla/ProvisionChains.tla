----------------------------- MODULE ProvisionChains ------------------------------
(* The chains of commands that provision nodes of the other hardware types in the *)
(* web interface: iDataPlex and BladeCenter nodes that exist and are checked in a  *)
(* table (custom/ipmi.js, blade.js; customUtils.js, createNodesDatatable; ui.js,   *)
(* getNodesChecked), and the virtual machines of KVM and ESX, defined by a form    *)
(* (kvm.js, esx.js). Every step reads the nodes again, from the rows that the      *)
(* table draws or from the form. No answer ends a chain, except that of a server   *)
(* whose messages come back encoded (lib/cmd.php).                                 *)
EXTENDS Integers, FiniteSets

CONSTANTS
    Nodes, Groups,  \* node and group names
    Members,    \* the nodes of each group
    RowsPerPage,    \* of a table, 50 in the code
    NoGroup,    \* no table yet
    MaxActs     \* bound on the clicks on "Provision"

VARIABLES
    kind,       \* the type of hardware
    encoded,    \* the PHP of the server is 5.4 or later
    acts,       \* clicks so far
    stage,      \* "edit", or "run": inputs and button are disabled
    table,      \* the group whose nodes the table lists
    drawn,      \* the nodes whose rows are drawn; with a form, all
    checked,    \* nodes checked on any page, or the name in the form
    enabled,    \* the nodes whose boxes can be clicked
    calls,      \* requests in flight
    loader,     \* the last status bar shows its loader
    chained,    \* per later step, what its chain began with and what it found
    replaced,   \* a table came, or the form changed, while a chain ran
    lost        \* a request got no answer

vars == <<kind, encoded, acts, stage, table, drawn, checked, enabled, calls, loader, chained,
          replaced, lost>>

Hypervisors == {"kvm", "esx"}
Tables == {"ipmi", "blade"}
Steps == {"nodeadd", "rinstall", "rbootseq", "chdef", "mkvm", "nodeset", "rpower"}

\* The rows a page may hold, and those of the first page of a new table.
Pages(g) == {rows \in SUBSET Members[g] : Cardinality(rows) <= RowsPerPage}
FirstPages(g) == {rows \in Pages(g) : rows = Members[g] \/ Cardinality(rows) = RowsPerPage}

\* What a step finds: the rows that are drawn and those checked among them.
Picks == [rows : SUBSET Nodes, of : SUBSET Nodes]
NoPick == [rows |-> {}, of |-> {}]
getNodesChecked == [rows |-> drawn, of |-> checked \cap drawn]

Lsdef(g) == [cmd |-> "lsdef", group |-> g, of |-> NoPick]
\* A step; "of" is what the first step of its chain found.
Step(cmd, of) == [cmd |-> cmd, group |-> NoGroup, of |-> of]
Running == \E c \in calls : c.cmd \in Steps

Init ==
    /\ kind \in Hypervisors \cup Tables
    /\ encoded \in BOOLEAN
    /\ acts = 0 /\ stage = "edit"
    /\ table = NoGroup
    /\ drawn = IF kind \in Hypervisors THEN Nodes ELSE {}
    /\ checked \in IF kind \in Hypervisors THEN {{n} : n \in Nodes} ELSE {{}}
    /\ enabled = {}
    /\ calls = {}
    /\ loader = FALSE
    /\ chained = {}
    /\ replaced = FALSE /\ lost = FALSE

---------------------------------------------------------------------------------
(* The inputs *)

SelectGroup(g) ==
    /\ kind \in Tables /\ stage = "edit"
    /\ calls' = calls \cup {Lsdef(g)}
    /\ UNCHANGED <<kind, encoded, acts, stage, table, drawn, checked, enabled, loader, chained,
                   replaced, lost>>

\* createNodesDatatable: a new table, whatever was clicked since.
TableAnswered(g) ==
    /\ Lsdef(g) \in calls
    /\ calls' = calls \ {Lsdef(g)}
    /\ table' = g /\ checked' = {} /\ enabled' = Members[g]
    /\ \E rows \in FirstPages(g) : drawn' = rows
    /\ replaced' = (replaced \/ Running)
    /\ UNCHANGED <<kind, encoded, acts, stage, loader, chained, lost>>

\* Another page, order or filter. The links of the pages and the headings are not
\* disabled with the inputs; the filter is, so that only a table longer than a page
\* turns while a chain runs. Rows that are not drawn keep their boxes as they are.
TurnPage ==
    /\ kind \in Tables /\ table # NoGroup
    /\ stage = "run" => Cardinality(Members[table]) > RowsPerPage
    /\ \E rows \in Pages(table) : drawn' = rows
    /\ UNCHANGED <<kind, encoded, acts, stage, table, checked, enabled, calls, loader, chained,
                   replaced, lost>>

Check(n) ==
    /\ kind \in Tables /\ n \in drawn \cap enabled
    /\ checked' = IF n \in checked THEN checked \ {n} ELSE checked \cup {n}
    /\ UNCHANGED <<kind, encoded, acts, stage, table, drawn, enabled, calls, loader, chained,
                   replaced, lost>>

\* The form of a virtual machine is never disabled.
EditForm(n) ==
    /\ kind \in Hypervisors /\ checked # {n}
    /\ checked' = {n}
    /\ replaced' = (replaced \/ Running)
    /\ UNCHANGED <<kind, encoded, acts, stage, table, drawn, enabled, calls, loader, chained,
                   lost>>

---------------------------------------------------------------------------------
(* The chains *)

\* A new status bar with a loader, and the first step. With a value missing the
\* click only warns.
Provision(cmd) ==
    /\ acts < MaxActs /\ acts' = acts + 1
    /\ loader' = TRUE
    /\ calls' = calls \cup {Step(cmd, getNodesChecked)}
    /\ UNCHANGED <<kind, encoded, table, drawn, checked, chained, replaced, lost>>

\* All inputs that the document holds are disabled, so the boxes of the rows drawn.
ProvisionExisting ==
    /\ kind \in Tables /\ stage = "edit" /\ getNodesChecked.of # {}
    /\ stage' = "run" /\ enabled' = enabled \ drawn
    /\ Provision("nodeadd")

\* The button stays enabled: a second chain may start while the first runs.
ProvisionForm ==
    /\ kind \in Hypervisors
    /\ UNCHANGED <<stage, enabled>>
    /\ Provision("chdef")

\* What a later step finds. esx.js looks for the form in a tab of KVM, by an id that
\* no tab has, and reads no name from it.
Found ==
    IF kind = "esx" THEN [rows |-> Nodes, of |-> {}] ELSE getNodesChecked

\* The answer to step "cmd" of a chain that began with "of": its message says which
\* step is next, and that is posted for the nodes that the page holds now.
Follow(of, cmd, next) ==
    /\ ~encoded /\ Step(cmd, of) \in calls
    /\ calls' = (calls \ {Step(cmd, of)}) \cup {Step(n, of) : n \in next}
    /\ chained' = IF next = {} THEN chained ELSE chained \cup {<<of, Found>>}
    /\ UNCHANGED <<kind, encoded, acts, stage, table, drawn, checked, enabled, replaced, lost>>

\* lib/cmd.php sends the message back with its ";" and "=" as entities, where PHP
\* knows those of HTML 5. These callbacks do not decode it, so that it is none of the
\* steps: nothing is written, posted or removed.
Unrecognised(of, cmd) ==
    /\ encoded /\ Step(cmd, of) \in calls
    /\ calls' = calls \ {Step(cmd, of)}
    /\ UNCHANGED <<kind, encoded, acts, stage, table, drawn, checked, enabled, loader, chained,
                   replaced, lost>>

\* The last answer removes the loader of the last status bar; that of an earlier
\* one stays.
Done(of, cmd) == Follow(of, cmd, {}) /\ loader' = FALSE

\* updateIpmiProvisionExistingStatus
Rinstall(of) ==
    \/ kind = "ipmi" /\ Follow(of, "nodeadd", {"rinstall"}) /\ UNCHANGED loader
    \/ kind = "ipmi" /\ Done(of, "rinstall")

\* updateBladeProvisionExistingStatus: the condition of (3) repeats that of (2),
\* so the boot order and the preparation are posted together, and the boot does
\* not wait for the boot order.
BladeBoot(of) ==
    \/ /\ kind = "blade" /\ UNCHANGED loader
       /\ \/ Follow(of, "nodeadd", {"rbootseq", "nodeset"})
          \/ Follow(of, "rbootseq", {})
          \/ Follow(of, "nodeset", {"rpower"})
    \/ kind = "blade" /\ Done(of, "rpower")

\* updateKVMProvisionStatus and updateESXProvisionStatus
VirtualMachine(of) ==
    \/ /\ kind \in Hypervisors /\ UNCHANGED loader
       /\ \/ Follow(of, "chdef", {"mkvm"})
          \/ Follow(of, "mkvm", {"nodeset"})
          \/ Follow(of, "nodeset", {"rpower"})
    \/ kind \in Hypervisors /\ Done(of, "rpower")

\* The HTTP exchange fails.
Lose(c) ==
    /\ ~lost /\ c \in calls
    /\ calls' = calls \ {c}
    /\ lost' = TRUE
    /\ UNCHANGED <<kind, encoded, acts, stage, table, drawn, checked, enabled, loader, chained,
                   replaced>>

---------------------------------------------------------------------------------
Answer ==
    \/ \E g \in Groups : TableAnswered(g)
    \/ \E of \in Picks : Rinstall(of) \/ BladeBoot(of) \/ VirtualMachine(of)
    \/ \E of \in Picks, cmd \in Steps : Unrecognised(of, cmd)

Next ==
    \/ \E g \in Groups : SelectGroup(g)
    \/ TurnPage
    \/ \E n \in Nodes : Check(n) \/ EditForm(n)
    \/ ProvisionExisting
    \/ ProvisionForm
    \/ Answer
    \/ \E c \in calls : Lose(c)

Spec == Init /\ [][Next]_vars /\ WF_vars(Answer)

---------------------------------------------------------------------------------
TypeOK ==
    /\ kind \in Hypervisors \cup Tables /\ encoded \in BOOLEAN
    /\ acts \in 0..MaxActs /\ stage \in {"edit", "run"}
    /\ table \in Groups \cup {NoGroup}
    /\ drawn \subseteq Nodes /\ checked \subseteq Nodes /\ enabled \subseteq Nodes
    /\ \A c \in calls : c.cmd \in Steps \cup {"lsdef"} /\ c.of \in Picks
    /\ loader \in BOOLEAN
    /\ chained \subseteq Picks \X Picks
    /\ replaced \in BOOLEAN /\ lost \in BOOLEAN

\* Each step of a chain reads its nodes from the page again. However its pages are
\* turned and boxes checked on the others while it runs, a node whose row is drawn
\* both at the click and at a later step gets that step exactly if it got the first,
\* unless a late table came or the form was changed. (Rows that are drawn only once
\* may well differ, and the later steps of ESX have no node at all.)
SameTargets ==
    ~replaced /\ kind # "esx" => \A p \in chained : p[2].of \cap p[1].rows = p[1].of \cap p[2].rows

\* The last status bar shows in the end that provisioning is over, if every request
\* is answered and the server leaves the messages as they are; where it encodes them,
\* no chain goes beyond its first step and the loader turns for ever.
Waiting == loader
Excused == lost \/ encoded
=================================================================================
