--------------------------------- MODULE MCWebUI ---------------------------------
(* The pages and forms of the web interface, checked together. They are documents  *)
(* of their own: a behaviour works on one of them, and what they share, cookies    *)
(* and the server, is written by others in the module that reads it. Variables of *)
(* the same name are one variable here; those a page does not have stay Unused.   *)
EXTENDS TLC, Integers

CONSTANTS
    MaxDisks, MaxZfcp,              \* ZvmProvision
    Users, NoUser,                  \* ZvmDirectoryEntry
    HCPs, NoHcp, MaxLookups,        \* ZvmHcpLookup
    MaxNode,                        \* ZvmClone
    n1, n2, n3, g1, g2, NoGroup,    \* ZvmReprovision, NodesPage, ProvisionChains
    MaxCalls, MaxProcs,             \* ZvmNodeActions
    Names, MaxRefresh,              \* ZvmResources (with HCPs as its systems)
    MaxOpen,                        \* ZvmDialogs
    PageSize, MaxClicks,            \* NodesPage
    Targets, NoTab, MaxTabs, MaxTabActs,    \* NodeTabs
    MaxChains,                      \* ProvisionChains
    RowsPerPage,                    \* ZvmReprovision, ProvisionChains
    MaxEdits,                       \* Catalogs
    Priorities, MaxPolicyActs,      \* UserPolicies
    Inputs, Planned, Drawers, MaxTurns, MaxWizardActs,     \* DiscoverWizard
    Unused

ASSUME BoundsOK ==
    {MaxDisks, MaxZfcp, MaxLookups, MaxNode, MaxCalls, MaxProcs, MaxRefresh, MaxOpen, PageSize,
     MaxClicks, MaxTabs, MaxTabActs, MaxChains, RowsPerPage, MaxEdits, MaxPolicyActs,
     Drawers, MaxTurns, MaxWizardActs} \subseteq Nat \ {0}
ASSUME NoValuesOK ==
    /\ NoUser \notin Users /\ NoHcp \notin HCPs /\ NoTab \notin Targets
    /\ {"empty", "loader"} \cap {g1, g2} = {}
ASSUME PlannedOK == Planned \in Inputs
ASSUME PrioritiesOK == Priorities \subseteq 0..999

Nodes   == {n1, n2}
Groups  == {g1, g2}
Members == [g \in Groups |-> IF g = g1 THEN {n1, n2} ELSE {n2}]

Overlapping == [g \in Groups |-> IF g = g1 THEN {n1, n2} ELSE {n2, n3}]

VARIABLES
    page,
    calls,                                      \* of all of them
    stage, os, builtin, loader, sent, failed, lost, shared, upset, kind, acts, table, rows,
    enabled, checked, drawn, replaced, asked, chained, dialogs, shown,     \* of several
    disks, zfcp, frozen, disks2add, zfcp2add, attached,
    user, vswitch, advanced, entry, hash, stop,
    hcpNode, hcp, cookies, lookups, loading, blank,
    first, last,
    tgts,
    encoded,
    procs, others, reopened, editing, nicFailed,
    panel, hcps, gen, twice, listed, early,
    dialog, opened, hasty,
    group, summary, area, nodesList, known, updating, loaders, crossed,
    tabs, newTabId, images, deletes, reused,
    db, files, writes, cells, asof, answers,
    policy, topPriority, tables, lowered,
    step, turns, buttons, pane, env, written, setup, lpars, intruded

P == INSTANCE ZvmProvisionProofs
E == INSTANCE ZvmDirectoryEntryProofs
L == INSTANCE ZvmHcpLookupProofs
C == INSTANCE ZvmClone
R == INSTANCE ZvmReprovision
A == INSTANCE ZvmNodeActionsProofs
S == INSTANCE ZvmResources WITH Systems <- HCPs
D == INSTANCE ZvmDialogs WITH Systems <- HCPs
N == INSTANCE NodesPage WITH Nodes <- {n1, n2, n3}, MaxActs <- MaxClicks,
                             Members <- Overlapping
T == INSTANCE NodeTabs WITH MaxActs <- MaxTabActs
V == INSTANCE ProvisionChains WITH MaxActs <- MaxChains
G == INSTANCE Catalogs WITH MaxActs <- MaxEdits
U == INSTANCE UserPolicies WITH MaxActs <- MaxPolicyActs
W == INSTANCE DiscoverWizard WITH Values <- Inputs, MaxActs <- MaxWizardActs

\* No tab is none of the tabs.
ASSUME NoTabOK == NoTab \notin [tgt : Targets, dbOnly : BOOLEAN, enabled : BOOLEAN, bar : T!Bars]

ofP == <<disks, zfcp, frozen, disks2add, zfcp2add, attached>>
ofE == <<user, vswitch, advanced, entry, hash, stop>>
ofL == <<hcpNode, hcp, cookies, lookups, loading, blank>>
ofC == <<first, last>>
ofA == <<procs, others, reopened, editing, nicFailed>>
ofS == <<panel, hcps, gen, twice, listed, early>>
ofD == <<dialog, opened>>
ofN == <<group, summary, area, nodesList, known, updating, loaders, crossed>>
ofT == <<tabs, newTabId, images, deletes, reused>>
ofG == <<db, files, writes, cells, asof, answers>>
ofU == <<policy, topPriority, tables, lowered>>
ofW == <<step, turns, buttons, pane, env, written, setup, lpars, intruded>>
several == <<stage, os, builtin, loader, sent, failed, lost, shared, upset, kind, acts, table,
             rows, enabled, checked, drawn, replaced, asked, chained, dialogs, shown, hasty>>
vars == <<page, calls, several, ofP, ofE, ofL, ofC, tgts, encoded, ofA, ofS, ofD, ofN, ofT, ofG,
          ofU, ofW>>

---------------------------------------------------------------------------------
\* The pages that have each of the variables of several.
HasStage    == page \in {"new", "entry", "range", "existing", "chains"}
HasOs       == page \in {"new", "entry", "existing"}
HasBuiltin  == page \in {"new", "range"}
HasLoader   == page \in {"new", "range", "existing", "actions", "resources", "chains"}
HasSent     == page \in {"entry", "lookup"}
HasFailed   == page \in {"new", "resources"}
HasLost     == page \notin {"entry", "dialogs", "users"}
HasShared   == page \in {"new", "actions"}
HasUpset    == page \in {"lookup", "nodes"}
HasKind     == page \in {"range", "tabs", "chains", "catalogs"}
HasActs     == page \in {"nodes", "tabs", "chains", "catalogs", "users", "wizard"}
HasTable    == page \in {"existing", "resources", "nodes", "chains"}
HasRows     == page \in {"resources", "nodes", "catalogs", "wizard"}
HasChecked  == page \in {"existing", "chains"}
HasAsked    == page \in {"new", "resources"}
HasChained  == page \in {"tabs", "chains"}
HasDialogs  == page \in {"catalogs", "users"}
HasShown    == page \in {"dialogs", "users"}
HasHasty    == page \in {"dialogs", "wizard"}

\* What the page does not have is Unused to start with ...
Idle ==
    /\ ~HasStage => stage = Unused
    /\ ~HasOs => os = Unused
    /\ ~HasBuiltin => builtin = Unused
    /\ ~HasLoader => loader = Unused
    /\ ~HasSent => sent = Unused
    /\ ~HasFailed => failed = Unused
    /\ ~HasLost => lost = Unused
    /\ ~HasShared => shared = Unused
    /\ ~HasUpset => upset = Unused
    /\ ~HasKind => kind = Unused
    /\ ~HasActs => acts = Unused
    /\ ~HasTable => table = Unused
    /\ ~HasRows => rows = Unused
    /\ ~HasChecked => /\ enabled = Unused /\ checked = Unused
                      /\ drawn = Unused /\ replaced = Unused
    /\ ~HasAsked => asked = Unused
    /\ ~HasChained => chained = Unused
    /\ ~HasDialogs => dialogs = Unused
    /\ ~HasShown => shown = Unused
    /\ ~HasHasty => hasty = Unused
    /\ page # "new" => /\ disks = Unused /\ zfcp = Unused /\ frozen = Unused
                       /\ disks2add = Unused /\ zfcp2add = Unused /\ attached = Unused
    /\ page # "entry" => /\ user = Unused /\ vswitch = Unused /\ advanced = Unused
                         /\ entry = Unused /\ hash = Unused /\ stop = Unused
    /\ page # "lookup" => /\ hcpNode = Unused /\ hcp = Unused /\ cookies = Unused
                          /\ lookups = Unused /\ loading = Unused /\ blank = Unused
    /\ page # "range" => /\ first = Unused /\ last = Unused
    /\ page # "existing" => tgts = Unused
    /\ page # "chains" => encoded = Unused
    /\ page # "actions" => /\ procs = Unused /\ others = Unused /\ reopened = Unused
                           /\ editing = Unused /\ nicFailed = Unused
    /\ page # "resources" => /\ panel = Unused /\ hcps = Unused /\ gen = Unused
                             /\ twice = Unused /\ listed = Unused /\ early = Unused
    /\ page # "dialogs" => dialog = Unused /\ opened = Unused
    /\ page # "nodes" => /\ group = Unused /\ summary = Unused /\ area = Unused
                         /\ nodesList = Unused /\ known = Unused /\ updating = Unused
                         /\ loaders = Unused /\ crossed = Unused
    /\ page # "tabs" => /\ tabs = Unused /\ newTabId = Unused /\ images = Unused
                        /\ deletes = Unused /\ reused = Unused
    /\ page # "catalogs" => /\ db = Unused /\ files = Unused /\ writes = Unused
                            /\ cells = Unused /\ asof = Unused /\ answers = Unused
    /\ page # "users" => /\ policy = Unused /\ topPriority = Unused /\ tables = Unused
                         /\ lowered = Unused
    /\ page # "wizard" => /\ step = Unused /\ turns = Unused /\ buttons = Unused
                          /\ pane = Unused /\ env = Unused /\ written = Unused
                          /\ setup = Unused /\ lpars = Unused /\ intruded = Unused

\* ... and no step changes it.
Rest ==
    /\ UNCHANGED page
    /\ ~HasStage => UNCHANGED stage
    /\ ~HasOs => UNCHANGED os
    /\ ~HasBuiltin => UNCHANGED builtin
    /\ ~HasLoader => UNCHANGED loader
    /\ ~HasSent => UNCHANGED sent
    /\ ~HasFailed => UNCHANGED failed
    /\ ~HasLost => UNCHANGED lost
    /\ ~HasShared => UNCHANGED shared
    /\ ~HasUpset => UNCHANGED upset
    /\ ~HasKind => UNCHANGED kind
    /\ ~HasActs => UNCHANGED acts
    /\ ~HasTable => UNCHANGED table
    /\ ~HasRows => UNCHANGED rows
    /\ ~HasChecked => UNCHANGED <<enabled, checked, drawn, replaced>>
    /\ ~HasAsked => UNCHANGED asked
    /\ ~HasChained => UNCHANGED chained
    /\ ~HasDialogs => UNCHANGED dialogs
    /\ ~HasShown => UNCHANGED shown
    /\ ~HasHasty => UNCHANGED hasty
    /\ page # "new" => UNCHANGED ofP
    /\ page # "entry" => UNCHANGED ofE
    /\ page # "lookup" => UNCHANGED ofL
    /\ page # "range" => UNCHANGED ofC
    /\ page # "existing" => UNCHANGED tgts
    /\ page # "chains" => UNCHANGED encoded
    /\ page # "actions" => UNCHANGED ofA
    /\ page # "resources" => UNCHANGED ofS
    /\ page # "dialogs" => UNCHANGED ofD
    /\ page # "nodes" => UNCHANGED ofN
    /\ page # "tabs" => UNCHANGED ofT
    /\ page # "catalogs" => UNCHANGED ofG
    /\ page # "users" => UNCHANGED ofU
    /\ page # "wizard" => UNCHANGED ofW

Init ==
    /\ \/ page = "new" /\ P!Init
       \/ page = "entry" /\ E!Init
       \/ page = "lookup" /\ L!Init
       \/ page = "range" /\ C!Init
       \/ page = "existing" /\ R!Init
       \/ page = "actions" /\ A!Init
       \/ page = "resources" /\ S!Init
       \/ page = "dialogs" /\ D!Init
       \/ page = "nodes" /\ N!Init
       \/ page = "tabs" /\ T!Init
       \/ page = "chains" /\ V!Init
       \/ page = "catalogs" /\ G!Init
       \/ page = "users" /\ U!Init
       \/ page = "wizard" /\ W!Init
    /\ Idle

Next ==
    \/ page = "new" /\ P!Next /\ Rest
    \/ page = "entry" /\ E!Next /\ Rest
    \/ page = "lookup" /\ L!Next /\ Rest
    \/ page = "range" /\ C!Next /\ Rest
    \/ page = "existing" /\ R!Next /\ Rest
    \/ page = "actions" /\ A!Next /\ Rest
    \/ page = "resources" /\ S!Next /\ Rest
    \/ page = "dialogs" /\ D!Next /\ Rest
    \/ page = "nodes" /\ N!Next /\ Rest
    \/ page = "tabs" /\ T!Next /\ Rest
    \/ page = "chains" /\ V!Next /\ Rest
    \/ page = "catalogs" /\ G!Next /\ Rest
    \/ page = "users" /\ U!Next /\ Rest
    \/ page = "wizard" /\ W!Next /\ Rest

\* The server answers, whichever page is in use.
Answer ==
    /\ \/ page = "new" /\ P!Answer
       \/ page = "lookup" /\ L!Answer
       \/ page = "range" /\ C!Answer
       \/ page = "existing" /\ R!Answer
       \/ page = "resources" /\ S!Answer
       \/ page = "nodes" /\ N!Answer
       \/ page = "tabs" /\ T!Answer
       \/ page = "chains" /\ V!Answer
       \/ page = "wizard" /\ W!Answer
    /\ Rest

Spec == Init /\ [][Next]_vars /\ WF_vars(Answer)

---------------------------------------------------------------------------------
\* Every page keeps to its types.
TypeOK ==
    CASE page = "new" -> P!TypeOK
      [] page = "entry" -> E!TypeOK
      [] page = "lookup" -> L!TypeOK
      [] page = "range" -> C!TypeOK
      [] page = "existing" -> R!TypeOK
      [] page = "actions" -> A!TypeOK
      [] page = "resources" -> S!TypeOK
      [] page = "dialogs" -> D!TypeOK
      [] page = "nodes" -> N!TypeOK
      [] page = "tabs" -> T!TypeOK
      [] page = "chains" -> V!TypeOK
      [] page = "catalogs" -> G!TypeOK
      [] page = "users" -> U!TypeOK
      [] page = "wizard" -> W!TypeOK

\* An advanced directory entry is sent for the user ID that was registered.
AdvancedEntryForUser == page = "entry" => E!AdvancedEntryForUser

\* The later commands of a chain go to the nodes that the first went to, on each
\* page where every step reads the nodes from the page again: where they are read
\* from a table, on the rows that the first step could read.
SameTargets ==
    /\ page = "existing" => R!SameTargets
    /\ page = "tabs" => T!SameTargets
    /\ page = "chains" => V!SameTargets

\* A new node's operating system is set once, when all its disks were added.
OsAfterDisks == [][page = "new" => P!OsStep]_vars

\* A new node is booted only if nothing before has failed.
BootOnlyIfAllSucceeded == [][page = "new" => P!BootStep]_vars

\* When its loader is hidden, the form posts no more commands.
QuietWhenHidden == [][page = "new" => P!QuietStep]_vars

\* The control point sent is the one the user reads in the field.
HcpAsEntered == [][page = "lookup" => L!RegisterStep]_vars

\* A node's loader is shown while a process of the window runs, unless a tab of the
\* node was opened over one ...
LoaderWhileBusy == page = "actions" => A!LoaderWhileBusy

\* ... and hidden when none does, unless one was not counted off.
LoaderHidden == page = "actions" => A!LoaderHidden

\* The cookie of a node counts the processes of every window, unless it was cleared
\* over them.
CookieCounts == page = "actions" => A!CookieCounts

\* The table of z/VM resources lists what the control points named, once.
TableExact == page = "resources" => S!TableExact

\* A dialog shows the answers to what was asked in it, if none was closed early.
OwnAnswers == page = "dialogs" => D!OwnAnswers

\* The tabs of the nodes page show the group that is selected.
ShowsSelected == page = "nodes" => N!ShowsSelected

\* An edit sends what was typed and leaves the other fields as the server has them.
EditKeepsRest == page = "catalogs" => G!EditKeepsRest

\* A new user's rule overwrites none.
OwnRule == page = "users" => U!OwnRule

\* The wizard updates the hardware as its pages were filled in.
UpdateAsEntered == page = "wizard" => W!UpdateAsEntered

Waiting ==
    CASE page = "new" -> P!Waiting
      [] page = "lookup" -> loading
      [] page \in {"range", "existing", "resources"} -> loader
      [] page = "nodes" -> N!Waiting
      [] page = "tabs" -> T!Waiting
      [] page = "chains" -> V!Waiting
      [] page = "wizard" -> W!Waiting
      [] OTHER -> FALSE

Excused ==
    CASE page = "new" -> P!Excused
      [] page = "lookup" -> L!Excused
      [] page = "range" -> C!Excused
      [] page = "existing" -> lost
      [] page = "resources" -> S!Excused
      [] page = "nodes" -> N!Excused
      [] page = "tabs" -> T!Excused
      [] page = "chains" -> V!Excused
      [] page = "wizard" -> W!Excused
      [] OTHER -> FALSE

\* The user does not wait for ever in front of any of the pages, except for the
\* reasons each of them gives.
WaitingEnds == Waiting ~> ~Waiting \/ Excused
=================================================================================
