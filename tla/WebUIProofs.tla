------------------------------- MODULE WebUIProofs -------------------------------
(* What MCWebUI keeps whatever the bounds and the names. A page in use takes the   *)
(* steps of its own module only (the lemmas ...Page), so that what is proved about *)
(* that module, or here with the names of the instance, holds of the web interface. *)
EXTENDS MCWebUI, FiniteSetTheorems, WellFoundedInduction, TLAPS

\* The page in use stays, and its module's variables move by its module's steps.
LEMMA NewPage ==
    ASSUME [Next]_vars, page = "new"
    PROVE  page' = "new" /\ [P!Next]_(P!vars)
  BY DEF Next, Rest, vars, several, ofP, P!vars, P!form, P!counters, P!history

LEMMA EntryPage ==
    ASSUME [Next]_vars, page = "entry"
    PROVE  page' = "entry" /\ [E!Next]_(E!vars)
  BY DEF Next, Rest, vars, several, ofE, E!vars

LEMMA LookupPage ==
    ASSUME [Next]_vars, page = "lookup"
    PROVE  page' = "lookup" /\ [L!Next]_(L!vars)
  BY DEF Next, Rest, vars, several, ofL, L!vars

LEMMA RangePage ==
    ASSUME [Next]_vars, page = "range"
    PROVE  page' = "range" /\ [C!Next]_(C!vars)
  BY DEF Next, Rest, vars, several, ofC, C!vars

LEMMA ActionsPage ==
    ASSUME [Next]_vars, page = "actions"
    PROVE  page' = "actions" /\ [A!Next]_(A!vars)
  BY DEF Next, Rest, vars, several, ofA, A!vars

LEMMA ExistingPage ==
    ASSUME [Next]_vars, page = "existing"
    PROVE  page' = "existing" /\ [R!Next]_(R!vars)
  BY DEF Next, Rest, vars, several, R!vars

LEMMA ResourcesPage ==
    ASSUME [Next]_vars, page = "resources"
    PROVE  page' = "resources" /\ [S!Next]_(S!vars)
  BY DEF Next, Rest, vars, several, ofS, S!vars

LEMMA DialogsPage ==
    ASSUME [Next]_vars, page = "dialogs"
    PROVE  page' = "dialogs" /\ [D!Next]_(D!vars)
  BY DEF Next, Rest, vars, several, ofD, D!vars

LEMMA TabsPage ==
    ASSUME [Next]_vars, page = "tabs"
    PROVE  page' = "tabs" /\ [T!Next]_(T!vars)
  BY DEF Next, Rest, vars, several, ofT, T!vars

LEMMA ChainsPage ==
    ASSUME [Next]_vars, page = "chains"
    PROVE  page' = "chains" /\ [V!Next]_(V!vars)
  BY DEF Next, Rest, vars, several, V!vars

LEMMA NodesPageOnly ==
    ASSUME [Next]_vars, page = "nodes"
    PROVE  page' = "nodes" /\ [N!Next]_(N!vars)
  BY DEF Next, Rest, vars, several, ofN, N!vars

LEMMA CatalogsPage ==
    ASSUME [Next]_vars, page = "catalogs"
    PROVE  page' = "catalogs" /\ [G!Next]_(G!vars)
  BY DEF Next, Rest, vars, several, ofG, G!vars, G!server, G!table

LEMMA UsersPage ==
    ASSUME [Next]_vars, page = "users"
    PROVE  page' = "users" /\ [U!Next]_(U!vars)
  BY DEF Next, Rest, vars, several, ofU, U!vars

LEMMA WizardPage ==
    ASSUME [Next]_vars, page = "wizard"
    PROVE  page' = "wizard" /\ [W!Next]_(W!vars)
  BY DEF Next, Rest, vars, several, ofW, W!vars, W!wizard, W!server, W!history

LEMMA SamePage == [Next]_vars => page' = page
  BY DEF Next, Rest, vars

---------------------------------------------------------------------------------
(* The new machine: ZvmProvisionProofs *)

NewIInv == page = "new" => P!IInv

LEMMA NewInv == Spec => []NewIInv
<1>1. Init => NewIInv
  BY P!InitInv DEF Init, NewIInv
<1>2. NewIInv /\ [Next]_vars => NewIInv'
  BY NewPage, SamePage, P!StepInv DEF NewIInv
<1>. QED  BY <1>1, <1>2, PTL DEF Spec

\* updateZProvisionNewStatus sets the operating system once, after all disks.
THEOREM DisksFirst == Spec => OsAfterDisks
<1>1. NewIInv /\ [Next]_vars => (page = "new" => P!OsStep)
  BY NewPage, P!OsInv DEF NewIInv
<1>. QED  BY NewInv, <1>1, PTL DEF Spec, OsAfterDisks

\* It boots the node only if every command before succeeded.
THEOREM BootLast == Spec => BootOnlyIfAllSucceeded
<1>1. NewIInv /\ [Next]_vars => (page = "new" => P!BootStep)
  BY NewPage, P!BootInv DEF NewIInv
<1>. QED  BY NewInv, <1>1, PTL DEF Spec, BootOnlyIfAllSucceeded

\* Once its loader is hidden it posts nothing more.
THEOREM QuietAfter == Spec => QuietWhenHidden
<1>1. NewIInv /\ [Next]_vars => (page = "new" => P!QuietStep)
  BY NewPage, P!QuietInv DEF NewIInv
<1>. QED  BY NewInv, <1>1, PTL DEF Spec, QuietWhenHidden

---------------------------------------------------------------------------------
(* Its directory entry: ZvmDirectoryEntryProofs *)

EntryIInv == page = "entry" => E!IInv

\* createZProvisionNew and updateZProvisionNewStatus send an entry of the advanced
\* tab for the user ID they registered, whatever is answered in between.
THEOREM EntryOfUser == Spec => []AdvancedEntryForUser
<1>1. Init => EntryIInv
  BY E!InitInv DEF Init, EntryIInv
<1>2. EntryIInv /\ [Next]_vars => EntryIInv'
  BY EntryPage, SamePage, E!StepInv DEF EntryIInv
<1>3. EntryIInv => AdvancedEntryForUser
  BY DEF EntryIInv, E!IInv, AdvancedEntryForUser
<1>. QED  BY <1>1, <1>2, <1>3, PTL DEF Spec

---------------------------------------------------------------------------------
(* Its control point: ZvmHcpLookupProofs *)

LookupIInv == page = "lookup" => L!IInv

\* createZProvisionNew registers the node with the control point the user reads in
\* the field, if no lookup failed or was overtaken.
THEOREM HcpRead == Spec => HcpAsEntered
<1>1. Init => LookupIInv
  BY L!InitInv DEF Init, LookupIInv
<1>2. LookupIInv /\ [Next]_vars => LookupIInv'
  BY LookupPage, SamePage, L!StepInv DEF LookupIInv
<1>3. LookupIInv /\ [Next]_vars => (page = "lookup" => L!RegisterStep)
  BY LookupPage, L!RegisterInv DEF LookupIInv
<1>. QED  BY <1>1, <1>2, <1>3, PTL DEF Spec, HcpAsEntered

---------------------------------------------------------------------------------
(* A machine: ZvmNodeActionsProofs *)

ActionsIInv == page = "actions" => A!IInv

LEMMA ActionsInv == Spec => []ActionsIInv
<1>1. Init => ActionsIInv
  BY A!InitInv DEF Init, ActionsIInv
<1>2. ActionsIInv /\ [Next]_vars => ActionsIInv'
  BY ActionsPage, SamePage, A!StepInv DEF ActionsIInv
<1>. QED  BY <1>1, <1>2, PTL DEF Spec

\* Until a tab of the node is opened over running processes, which clears its cookie,
\* no process of any window is missing in it.
THEOREM CookieCovers == Spec => []CookieCounts
<1>1. ActionsIInv => CookieCounts
  BY DEF ActionsIInv, A!IInv, CookieCounts
<1>. QED  BY ActionsInv, <1>1, PTL

\* Nor, until then, does updateZNodeStatus hide the loader under a process of its window.
THEOREM LoaderStays == Spec => []LoaderWhileBusy
<1>1. ActionsIInv => LoaderWhileBusy
  BY DEF ActionsIInv, A!IInv, LoaderWhileBusy
<1>. QED  BY ActionsInv, <1>1, PTL

\* It hides the loader with the last one, if none went uncounted, whether the cookie was
\* cleared or not.
THEOREM LoaderGoes == Spec => []LoaderHidden
<1>1. ActionsIInv => LoaderHidden
  BY DEF ActionsIInv, A!IInv, LoaderHidden
<1>. QED  BY ActionsInv, <1>1, PTL

---------------------------------------------------------------------------------
(* Existing nodes: until the click nothing was posted; from then on the boxes that *)
(* the click could read are disabled, on whatever page their rows are, so that     *)
(* those checked among them are what the first command was posted for.             *)

OnClick ==
    /\ enabled \cap tgts["nodeadd"].rows = {}
    /\ checked \cap tgts["nodeadd"].rows = tgts["nodeadd"].of

ExistingIInv ==
    /\ DOMAIN tgts = R!Steps /\ stage \in {"edit", "run"}
    /\ stage = "edit" => \A c \in R!Steps : R!Cmd(c) \notin calls
    /\ stage = "run" /\ ~replaced => OnClick
    /\ R!SameTargets

LEMMA ExistingInit == R!Init => ExistingIInv
  BY DEF R!Init, ExistingIInv, R!Steps, R!SameTargets, R!Cmd

\* What is posted, and that nothing else is under way then.
LEMMA Posted ==
    ASSUME ExistingIInv, NEW cmd \in R!Steps, R!Post(cmd)
    PROVE  /\ DOMAIN tgts' = R!Steps
           /\ tgts'[cmd] = [rows |-> drawn, of |-> checked \cap drawn]
           /\ \A c \in R!Steps \ {cmd} : R!Cmd(c) \notin calls' /\ tgts'[c] = tgts[c]
<1>1. tgts' = [tgts EXCEPT ![cmd] = [rows |-> drawn, of |-> checked \cap drawn]]
  BY DEF R!Post, R!getNodesChecked
<1>2. \A c \in R!Steps \ {cmd} : R!Cmd(c) \notin calls'
  BY DEF R!Post, R!Cmd
<1>. QED  BY <1>1, <1>2 DEF ExistingIInv

\* A step that is not the click keeps to what was checked then.
LEMMA PostInv ==
    ASSUME ExistingIInv, NEW cmd \in {"nodeset", "rnetboot"}, stage # "edit", R!Post(cmd),
           UNCHANGED <<stage, drawn, enabled, checked, replaced>>
    PROVE  ExistingIInv'
<1>1. cmd \in R!Steps /\ cmd # "nodeadd" /\ "nodeadd" \in R!Steps
  BY DEF R!Steps
<1>2. tgts'["nodeadd"] = tgts["nodeadd"]
  BY <1>1, Posted
<1>3. R!SameTargets'
  <2>1. ASSUME ~replaced', NEW c \in {"nodeset", "rnetboot"}, R!Cmd(c) \in calls'
        PROVE  tgts'[c].of \cap tgts'["nodeadd"].rows = tgts'["nodeadd"].of \cap tgts'[c].rows
    <3>1. c = cmd
      BY <1>1, <2>1, Posted DEF R!Steps
    <3>2. tgts'[c].rows = drawn /\ tgts'[c].of = checked \cap drawn
      BY <1>1, <3>1, Posted
    <3>3. checked \cap tgts["nodeadd"].rows = tgts["nodeadd"].of
      BY <2>1 DEF ExistingIInv, OnClick
    <3>. QED  BY <1>2, <3>2, <3>3
  <2>. QED  BY <2>1 DEF R!SameTargets
<1>4. DOMAIN tgts' = R!Steps
  BY <1>1, Posted
<1>. QED  BY <1>2, <1>3, <1>4 DEF ExistingIInv, OnClick

LEMMA ProvisionClickInv == ASSUME ExistingIInv, R!ClickProvision PROVE ExistingIInv'
<1>1. /\ stage' = "run" /\ enabled' = enabled \ drawn
      /\ R!Post("nodeadd") /\ UNCHANGED <<drawn, checked, replaced>>
  BY DEF R!ClickProvision
<1>2. "nodeadd" \in R!Steps /\ {"nodeset", "rnetboot"} \subseteq R!Steps \ {"nodeadd"}
  BY DEF R!Steps
<1>3. /\ DOMAIN tgts' = R!Steps
      /\ tgts'["nodeadd"].rows = drawn /\ tgts'["nodeadd"].of = checked \cap drawn
  BY <1>1, <1>2, Posted
<1>4. OnClick'
  BY <1>1, <1>3 DEF OnClick
<1>5. \A c \in {"nodeset", "rnetboot"} : R!Cmd(c) \notin calls'
  BY <1>1, <1>2, Posted
<1>6. R!SameTargets'
  BY <1>5 DEF R!SameTargets
<1>. QED  BY <1>1, <1>3, <1>4, <1>6 DEF ExistingIInv

\* A table that comes while the commands run is noted.
LEMMA TableInv == ASSUME ExistingIInv, NEW g, R!TableAnswered(g) PROVE ExistingIInv'
<1>1. /\ UNCHANGED <<stage, tgts>>
      /\ \A c \in R!Steps : R!Cmd(c) \in calls' => R!Cmd(c) \in calls
  BY DEF R!TableAnswered
<1>2. ~replaced' => ~replaced /\ stage # "run"
  <2>1. replaced' = (replaced \/ stage = "run")
    BY DEF R!TableAnswered
  <2>. QED  BY <2>1, Zenon
<1>3. {"nodeset", "rnetboot"} \subseteq R!Steps
  BY DEF R!Steps
<1>. QED  BY <1>1, <1>2, <1>3 DEF ExistingIInv, R!SameTargets

LEMMA ExistingStep == ExistingIInv /\ [R!Next]_(R!vars) => ExistingIInv'
<1> SUFFICES ASSUME ExistingIInv, [R!Next]_(R!vars) PROVE ExistingIInv'
  OBVIOUS
<1>1. ASSUME NEW g \in Groups, R!SelectGroup(g) \/ R!TableAnswered(g) PROVE ExistingIInv'
  <2>1. CASE R!SelectGroup(g)
    <3>1. \A c \in R!Steps : R!Cmd(c) # R!Lsdef(g)
      BY DEF R!Cmd, R!Lsdef, R!Steps
    <3>2. \A c \in R!Steps : R!Cmd(c) \in calls' => R!Cmd(c) \in calls
      BY <2>1, <3>1 DEF R!SelectGroup
    <3>3. {"nodeset", "rnetboot"} \subseteq R!Steps
      BY DEF R!Steps
    <3>. QED  BY <2>1, <3>2, <3>3 DEF R!SelectGroup, ExistingIInv, OnClick, R!SameTargets
  <2>. QED  BY <1>1, <2>1, TableInv
<1>2. CASE R!TurnPage \/ R!SelectOs
  BY <1>2 DEF R!TurnPage, R!SelectOs, ExistingIInv, OnClick, R!SameTargets
<1>3. ASSUME NEW n \in Nodes, R!Check(n) PROVE ExistingIInv'
  <2>1. OnClick => OnClick'
    BY <1>3 DEF R!Check, OnClick
  <2>. QED  BY <1>3, <2>1 DEF R!Check, ExistingIInv, R!SameTargets
<1>4. CASE R!ClickProvision
  BY <1>4, ProvisionClickInv
<1>5. CASE R!NodeaddAnswered
  BY <1>5, PostInv DEF R!NodeaddAnswered, ExistingIInv, R!Steps
<1>6. ASSUME NEW rsp \in R!Answers, R!NodesetAnswered(rsp) PROVE ExistingIInv'
  <2>1. CASE R!ContainErrors(rsp)
    BY <1>6, <2>1 DEF R!NodesetAnswered, ExistingIInv, OnClick, R!SameTargets
  <2>2. CASE ~R!ContainErrors(rsp)
    BY <1>6, <2>2, PostInv DEF R!NodesetAnswered, ExistingIInv, R!Steps
  <2>. QED  BY <2>1, <2>2
<1>7. CASE R!RnetbootAnswered \/ \E c \in R!Calls : R!Lose(c)
  BY <1>7 DEF R!RnetbootAnswered, R!Lose, ExistingIInv, OnClick, R!SameTargets
<1>8. CASE UNCHANGED R!vars
  BY <1>8 DEF R!vars, ExistingIInv, OnClick, R!SameTargets
<1>. QED  BY <1>1, <1>2, <1>3, <1>4, <1>5, <1>6, <1>7, <1>8 DEF R!Next, R!Answer

---------------------------------------------------------------------------------
(* Other hardware: among the rows that a chain that runs could read at its click,  *)
(* those checked are still those it began with, until a table or the user replaces *)
(* them.                                                                           *)

Began(of) ==
    /\ of.of = checked \cap of.rows
    /\ kind \in V!Hypervisors \/ enabled \cap of.rows = {}

ChainsIInv ==
    /\ ~replaced => \A c \in calls : c.cmd \in V!Steps => Began(c.of)
    /\ V!SameTargets

LEMMA ChainsInit == V!Init => ChainsIInv
  BY DEF V!Init, ChainsIInv, V!SameTargets

\* What changes the nodes of the page while a chain runs is noted.
LEMMA ReplaceInv ==
    ASSUME ChainsIInv, replaced' = (replaced \/ V!Running), UNCHANGED <<kind, chained>>,
           calls' \subseteq calls
    PROVE  ChainsIInv'
<1>1. ~replaced' => ~replaced /\ ~V!Running
  BY Zenon
<1>. QED  BY <1>1 DEF ChainsIInv, V!SameTargets, V!Running

\* Nothing that matters changes, and no step is new.
LEMMA StillInv ==
    ASSUME ChainsIInv, UNCHANGED <<kind, checked, enabled, chained, replaced>>,
           \A c \in calls' : c \in calls \/ c.cmd \notin V!Steps
    PROVE  ChainsIInv'
<1>1. \A of : Began(of)' <=> Began(of)
  BY DEF Began
<1>. QED  BY <1>1 DEF ChainsIInv, V!SameTargets

LEMMA FollowInv ==
    ASSUME ChainsIInv, NEW of, NEW cmd \in V!Steps, NEW next \in SUBSET V!Steps,
           V!Follow(of, cmd, next)
    PROVE  ChainsIInv'
<1>1. /\ V!Step(cmd, of) \in calls
      /\ calls' = (calls \ {V!Step(cmd, of)}) \cup {V!Step(n, of) : n \in next}
      /\ chained' \subseteq chained \cup {<<of, V!Found>>}
      /\ UNCHANGED <<kind, checked, enabled, replaced>>
  BY DEF V!Follow
<1>2. ~replaced => Began(of)
  BY <1>1 DEF ChainsIInv, V!Step
<1>3. ~replaced /\ kind # "esx" => V!Found.of \cap of.rows = of.of \cap V!Found.rows
  BY <1>2 DEF Began, V!Found, V!getNodesChecked
<1>4. V!SameTargets'
  BY <1>1, <1>3 DEF ChainsIInv, V!SameTargets
<1>5. ASSUME ~replaced', NEW c \in calls', c.cmd \in V!Steps PROVE Began(c.of)'
  <2>1. Began(c.of)
    BY <1>1, <1>2, <1>5 DEF ChainsIInv, V!Step
  <2>. QED  BY <1>1, <2>1 DEF Began
<1>. QED  BY <1>4, <1>5 DEF ChainsIInv

\* What a click begins a chain with is what it finds, and stays so.
LEMMA ProvisionInv ==
    ASSUME ChainsIInv, V!ProvisionExisting \/ V!ProvisionForm
    PROVE  ChainsIInv'
<1> DEFINE now == V!getNodesChecked
<1>1. PICK cmd : calls' = calls \cup {V!Step(cmd, now)}
  BY DEF V!ProvisionExisting, V!ProvisionForm, V!Provision
<1>2. /\ UNCHANGED <<kind, drawn, checked, chained, replaced>>
      /\ enabled' \subseteq enabled
      /\ kind \in V!Hypervisors \/ enabled' = enabled \ drawn
  BY DEF V!ProvisionExisting, V!ProvisionForm, V!Provision
<1>3. now.rows = drawn /\ now.of = checked \cap drawn
  BY DEF V!getNodesChecked
<1>4. Began(now)'
  BY <1>2, <1>3 DEF Began, V!getNodesChecked
<1>5. \A of : Began(of) => Began(of)'
  BY <1>2 DEF Began
<1>6. ASSUME ~replaced', NEW c \in calls', c.cmd \in V!Steps PROVE Began(c.of)'
  <2>1. CASE c \in calls
    BY <1>2, <1>5, <1>6, <2>1 DEF ChainsIInv
  <2>2. CASE c = V!Step(cmd, now)
    BY <1>2, <1>4, <2>2 DEF V!Step, Began, V!getNodesChecked
  <2>. QED  BY <1>1, <2>1, <2>2
<1>. QED  BY <1>2, <1>6 DEF ChainsIInv, V!SameTargets

LEMMA ChainsStep == ChainsIInv /\ [V!Next]_(V!vars) => ChainsIInv'
<1> SUFFICES ASSUME ChainsIInv, [V!Next]_(V!vars) PROVE ChainsIInv'
  OBVIOUS
<1>1. ASSUME NEW g \in Groups, V!SelectGroup(g) PROVE ChainsIInv'
  BY <1>1, StillInv DEF V!SelectGroup, V!Lsdef, V!Steps
<1>2. ASSUME NEW g \in Groups, V!TableAnswered(g) PROVE ChainsIInv'
  BY <1>2, ReplaceInv DEF V!TableAnswered
<1>3. CASE V!TurnPage
  BY <1>3, StillInv DEF V!TurnPage
<1>4. ASSUME NEW n \in Nodes, V!Check(n) PROVE ChainsIInv'
  <2>1. kind \notin V!Hypervisors /\ n \in enabled
    BY <1>4 DEF V!Check, V!Tables, V!Hypervisors
  <2>2. \A of : Began(of) => Began(of)'
    BY <1>4, <2>1 DEF V!Check, Began
  <2>. QED  BY <1>4, <2>2 DEF V!Check, ChainsIInv, V!SameTargets
<1>5. ASSUME NEW n \in Nodes, V!EditForm(n) PROVE ChainsIInv'
  BY <1>5, ReplaceInv DEF V!EditForm
<1>6. CASE V!ProvisionExisting \/ V!ProvisionForm
  BY <1>6, ProvisionInv
<1>7. ASSUME NEW of, V!Rinstall(of) \/ V!BladeBoot(of) \/ V!VirtualMachine(of) PROVE ChainsIInv'
  <2>1. \E cmd \in V!Steps, next \in SUBSET V!Steps : V!Follow(of, cmd, next)
    <3>1. V!Rinstall(of) => \/ V!Follow(of, "nodeadd", {"rinstall"})
                           \/ V!Follow(of, "rinstall", {})
      BY DEF V!Rinstall, V!Done
    <3>2. V!BladeBoot(of) => \/ V!Follow(of, "nodeadd", {"rbootseq", "nodeset"})
                            \/ V!Follow(of, "rbootseq", {})
                            \/ V!Follow(of, "nodeset", {"rpower"})
                            \/ V!Follow(of, "rpower", {})
      BY DEF V!BladeBoot, V!Done
    <3>3. V!VirtualMachine(of) => \/ V!Follow(of, "chdef", {"mkvm"})
                                 \/ V!Follow(of, "mkvm", {"nodeset"})
                                 \/ V!Follow(of, "nodeset", {"rpower"})
                                 \/ V!Follow(of, "rpower", {})
      BY DEF V!VirtualMachine, V!Done
    <3>. QED  BY <1>7, <3>1, <3>2, <3>3 DEF V!Steps
  <2>. QED  BY <2>1, FollowInv
<1>8. ASSUME NEW of, NEW cmd, V!Unrecognised(of, cmd) PROVE ChainsIInv'
  BY <1>8, StillInv DEF V!Unrecognised
<1>9. ASSUME NEW c \in calls, V!Lose(c) PROVE ChainsIInv'
  BY <1>9, StillInv DEF V!Lose
<1>10. CASE UNCHANGED V!vars
  BY <1>10, StillInv DEF V!vars
<1>. QED  BY <1>1, <1>2, <1>3, <1>4, <1>5, <1>6, <1>7, <1>8, <1>9, <1>10 DEF V!Next, V!Answer

---------------------------------------------------------------------------------
(* Tabs of the nodes page: the tab of a chain is there with its inputs disabled    *)
(* and its range, until it is closed under a request.                              *)

TabRecords == [tgt : Targets, dbOnly : BOOLEAN, enabled : BOOLEAN, bar : T!Bars]

\* The tab c was sent from cannot be changed any more.
Held(c) ==
    /\ c.inst \in T!Insts /\ tabs[c.inst] # NoTab
    /\ tabs[c.inst].tgt = c.tgt /\ ~tabs[c.inst].enabled

TabsIInv ==
    /\ tabs \in [T!Insts -> TabRecords \cup {NoTab}]
    /\ \A c \in calls : /\ c.cmd = "xdsh" => kind = "script"
                        /\ c.cmd \in {"nodeadd", "makehosts"} => kind = "nodeset"
                        /\ c.cmd \in {"nodeadd", "makehosts"} /\ ~reused => Held(c)
    /\ T!SameTargets

LEMMA TabsInit == T!Init => TabsIInv
  BY DEF T!Init, TabsIInv, T!SameTargets

\* A click on a tab whose inputs are enabled disturbs no chain; that of nodeset
\* starts one, and disables the inputs.
LEMMA ClickInv ==
    ASSUME TabsIInv, NEW k, NEW i \in T!Insts, NEW cmd, NEW again \in BOOLEAN,
           T!Click(k, i, cmd, again), cmd # "makehosts", cmd = "xdsh" => k = "script",
           cmd = "nodeadd" => k = "nodeset" /\ ~again
    PROVE  TabsIInv'
<1>1. /\ kind = k /\ tabs[i] \in TabRecords /\ tabs[i].enabled
      /\ tabs' = [tabs EXCEPT ![i].enabled = again,
                              ![i].bar = IF @ = "done" /\ k # "script" THEN @ ELSE "loading"]
      /\ calls' = calls \cup {T!Request(cmd, i, tabs[i].tgt)}
      /\ UNCHANGED <<kind, chained, reused>>
  BY DEF T!Click, TabsIInv
<1>2. tabs' \in [T!Insts -> TabRecords \cup {NoTab}]
  BY <1>1 DEF TabsIInv, TabRecords, T!Bars
<1>3. \A c : Held(c) => Held(c)'
  BY <1>1 DEF Held, TabsIInv
<1>4. ~again /\ ~reused => Held(T!Request(cmd, i, tabs[i].tgt))'
  <2>0. PICK t \in TabRecords : t = tabs[i]
    BY <1>1
  <2>1. tabs'[i] = [t EXCEPT !.enabled = again,
                             !.bar = IF @ = "done" /\ k # "script" THEN @ ELSE "loading"]
    BY <1>1, <2>0 DEF TabsIInv
  <2>2. tabs'[i].tgt = tabs[i].tgt /\ tabs'[i].enabled = again
    BY <2>0, <2>1 DEF TabRecords
  <2>3. tabs'[i] \in TabRecords
    BY <1>1 DEF TabsIInv, TabRecords, T!Bars
  <2>4. tabs'[i] # NoTab
    BY <2>3, NoTabOK DEF TabRecords
  <2>. QED  BY <1>1, <2>2, <2>4 DEF Held, T!Request
<1>. QED  BY <1>1, <1>2, <1>3, <1>4 DEF TabsIInv, T!SameTargets, T!Request

LEMMA TabsStep == TabsIInv /\ [T!Next]_(T!vars) => TabsIInv'
<1> SUFFICES ASSUME TabsIInv, [T!Next]_(T!vars) PROVE TabsIInv'
  OBVIOUS
<1>1. ASSUME NEW k \in T!Kinds, NEW i \in T!Insts, NEW tgt \in Targets, T!Open(k, i, tgt),
             \A c \in calls' : c \in calls \/ c.cmd = "tabdump"
      PROVE  TabsIInv'
  <2>1. tabs' = [tabs EXCEPT ![i] = T!Tab(tgt)] /\ tabs[i] = NoTab
    BY <1>1 DEF T!Open, T!Free
  <2>2. T!Tab(tgt) \in TabRecords
    BY DEF T!Tab, TabRecords, T!Bars
  <2>3. tabs' \in [T!Insts -> TabRecords \cup {NoTab}]
    BY <2>1, <2>2 DEF TabsIInv
  <2>4. UNCHANGED <<kind, chained, reused>>
    BY <1>1 DEF T!Open
  <2>5. \A c : Held(c) => Held(c)'
    BY <2>1 DEF Held, TabsIInv
  <2>. QED  BY <1>1, <2>3, <2>4, <2>5 DEF TabsIInv, T!SameTargets
<1>2. ASSUME NEW i \in T!Insts, NEW tgt \in Targets,
             \/ T!loadScriptPage(i, tgt) \/ T!loadUnlockPage(i, tgt)
             \/ T!loadUnlockNonNodesPage(i, tgt) \/ T!loadUpdatenodePage(i, tgt)
             \/ T!loadNetbootPage(i, tgt) \/ T!loadDeletePage(i, tgt)
             \/ T!loadNodesetPage(i, tgt)
      PROVE  TabsIInv'
  <2>1. \A c \in calls' : c \in calls \/ c.cmd = "tabdump"
    BY <1>2 DEF T!loadScriptPage, T!loadUnlockPage, T!loadUnlockNonNodesPage, T!loadUpdatenodePage,
                T!loadNetbootPage, T!loadDeletePage, T!loadNodesetPage, T!Request
  <2>2. \/ \E k \in T!Kinds : T!Open(k, i, tgt)
        \/ UNCHANGED <<kind, tabs, chained, reused>>
    BY <1>2 DEF T!loadScriptPage, T!loadUnlockPage, T!loadUnlockNonNodesPage, T!loadUpdatenodePage,
                T!loadNetbootPage, T!loadDeletePage, T!loadNodesetPage, T!Kinds
  <2>3. CASE UNCHANGED <<kind, tabs, chained, reused>>
    BY <2>1, <2>3 DEF TabsIInv, Held, T!SameTargets
  <2>. QED  BY <1>1, <2>1, <2>2, <2>3
<1>3. ASSUME NEW i \in T!Insts, T!Close(i) PROVE TabsIInv'
  <2>1. /\ tabs' = [tabs EXCEPT ![i] = NoTab]
        /\ UNCHANGED <<kind, calls, chained>>
        /\ reused' = (reused \/ \E c \in calls : c.cmd # "tabdump" /\ c.inst = i)
    BY <1>3 DEF T!Close
  <2>2. ~reused' => ~reused /\ \A c \in calls : c.cmd # "tabdump" => c.inst # i
    BY <2>1, Zenon
  <2>3. tabs' \in [T!Insts -> TabRecords \cup {NoTab}]
    BY <2>1 DEF TabsIInv
  <2>4. \A c : Held(c) /\ c.inst # i => Held(c)'
    BY <2>1 DEF Held, TabsIInv
  <2>. QED  BY <2>1, <2>2, <2>3, <2>4 DEF TabsIInv, T!SameTargets
<1>4. ASSUME NEW i \in T!Insts, NEW tgt \in Targets, T!EditTarget(i, tgt) PROVE TabsIInv'
  <2>1. /\ tabs[i] \in TabRecords /\ tabs[i].enabled
        /\ tabs' = [tabs EXCEPT ![i].tgt = tgt]
        /\ UNCHANGED <<kind, calls, chained, reused>>
    BY <1>4 DEF T!EditTarget, TabsIInv
  <2>2. tabs' \in [T!Insts -> TabRecords \cup {NoTab}]
    BY <2>1 DEF TabsIInv, TabRecords
  <2>3. \A c : Held(c) => Held(c)'
    BY <2>1 DEF Held, TabsIInv
  <2>. QED  BY <2>1, <2>2, <2>3 DEF TabsIInv, T!SameTargets
<1>5. ASSUME NEW i \in T!Insts, T!CheckDbOnly(i) PROVE TabsIInv'
  <2>1. /\ tabs[i] \in TabRecords /\ kind = "delete"
        /\ tabs' = [tabs EXCEPT ![i].dbOnly = ~@]
        /\ UNCHANGED <<kind, calls, chained, reused>>
    BY <1>5 DEF T!CheckDbOnly, TabsIInv
  <2>2. tabs' \in [T!Insts -> TabRecords \cup {NoTab}]
    BY <2>1 DEF TabsIInv, TabRecords
  <2>3. \A c \in calls : c.cmd \notin {"nodeadd", "makehosts"}
    BY <2>1 DEF TabsIInv
  <2>. QED  BY <2>1, <2>2, <2>3 DEF TabsIInv, T!SameTargets
<1>6. ASSUME NEW i \in T!Insts,
             \/ T!runScript(i) \/ T!Unlock(i) \/ T!Update(i) \/ T!Netboot(i) \/ T!Nodeset(i)
             \/ T!CreateScript(i) \/ T!GetKey(i) \/ T!Delete(i)
      PROVE  TabsIInv'
  BY <1>6, ClickInv DEF T!runScript, T!Unlock, T!Update, T!Netboot, T!Nodeset, T!CreateScript,
                        T!GetKey, T!Delete, T!Deletion
<1>7. ASSUME NEW i \in T!Insts, T!UnlockByIp(i) PROVE TabsIInv'
  <2>1. /\ tabs[i] \in TabRecords /\ kind = "unlockNonNodes"
        /\ tabs' = [tabs EXCEPT ![i].bar = "loading"]
        /\ calls' = calls \cup {T!Request("unlockbyip", i, tabs[i].tgt)}
        /\ UNCHANGED <<kind, chained, reused>>
    BY <1>7 DEF T!UnlockByIp, TabsIInv
  <2>2. tabs' \in [T!Insts -> TabRecords \cup {NoTab}]
    BY <2>1 DEF TabsIInv, TabRecords, T!Bars
  <2>3. \A c \in calls' : c.cmd \notin {"nodeadd", "makehosts", "xdsh"}
    BY <2>1 DEF TabsIInv, T!Request
  <2>. QED  BY <2>1, <2>2, <2>3 DEF TabsIInv, T!SameTargets
<1>8. ASSUME NEW c \in calls, NEW enable \in BOOLEAN, T!Write(c, enable),
             enable => kind = "script", UNCHANGED <<kind, chained, reused>>,
             calls' = calls \ {c}
      PROVE  TabsIInv'
  <2>1. CASE tabs' = tabs
    BY <1>8, <2>1 DEF TabsIInv, Held, T!SameTargets
  <2>2. CASE tabs' # tabs
    <3>1. /\ tabs[c.inst] # NoTab
          /\ tabs' = [tabs EXCEPT ![c.inst].bar = "done", ![c.inst].enabled = @ \/ enable]
      BY <1>8, <2>2 DEF T!Write
    <3>2. c.inst \in T!Insts
      BY <2>2, <3>1 DEF TabsIInv
    <3>3. tabs[c.inst] \in TabRecords
      BY <3>1, <3>2 DEF TabsIInv
    <3>4. tabs' \in [T!Insts -> TabRecords \cup {NoTab}]
      BY <3>1, <3>2, <3>3 DEF TabsIInv, TabRecords, T!Bars
    <3>5. kind # "script" => \A d : Held(d) => Held(d)'
      BY <1>8, <3>1, <3>2, <3>3, NoTabOK DEF Held, TabsIInv, TabRecords, T!Bars
    <3>. QED  BY <1>8, <3>4, <3>5 DEF TabsIInv, T!SameTargets
  <2>. QED  BY <2>1, <2>2
<1>9. ASSUME NEW c \in calls,
             \/ T!updateStatusBar(c) \/ T!ShowScriptOrKey(c) \/ T!NodesetAnswered(c)
      PROVE  TabsIInv'
  BY <1>8, <1>9 DEF T!updateStatusBar, T!ShowScriptOrKey, T!NodesetAnswered, TabsIInv
<1>10. ASSUME NEW c \in calls, NEW rsp \in T!Answers, T!NodeaddAnswered(c, rsp) PROVE TabsIInv'
  <2>1. CASE T!HasText(rsp) \/ tabs[c.inst] = NoTab
    BY <1>8, <1>10, <2>1 DEF T!NodeaddAnswered
  <2>2. CASE ~(T!HasText(rsp) \/ tabs[c.inst] = NoTab)
    BY <1>10, <2>2 DEF T!NodeaddAnswered, TabsIInv, Held, T!SameTargets, T!Request
  <2>. QED  BY <2>1, <2>2
<1>11. ASSUME NEW c \in calls, T!MakehostsAnswered(c) PROVE TabsIInv'
  BY <1>11 DEF T!MakehostsAnswered, TabsIInv, Held, T!SameTargets, T!Request
<1>12. CASE T!ImagesAnswered \/ \E c \in calls : T!Lose(c)
  BY <1>12 DEF T!ImagesAnswered, T!Lose, TabsIInv, Held, T!SameTargets
<1>13. CASE UNCHANGED T!vars
  BY <1>13 DEF T!vars, TabsIInv, Held, T!SameTargets
<1>. QED
  BY <1>2, <1>3, <1>4, <1>5, <1>6, <1>7, <1>9, <1>10, <1>11, <1>12, <1>13
     DEF T!Next, T!User, T!Answer

---------------------------------------------------------------------------------
\* updateZProvisionExistingStatus, updateNodesetStatus and the chains of the other
\* hardware send their later commands to the nodes of the first, although each reads
\* them from the page again: on the rows of the table that the first could read, for the
\* user may have turned to others since.
THEOREM TargetsKept == Spec => []SameTargets
<1> DEFINE IInv == /\ page = "existing" => ExistingIInv
                   /\ page = "tabs" => TabsIInv
                   /\ page = "chains" => ChainsIInv
<1>1. Init => IInv
  BY ExistingInit, TabsInit, ChainsInit DEF Init
<1>2. IInv /\ [Next]_vars => IInv'
  BY SamePage, ExistingPage, ExistingStep, TabsPage, TabsStep, ChainsPage, ChainsStep
<1>3. IInv => SameTargets
  BY DEF ExistingIInv, TabsIInv, ChainsIInv, SameTargets, V!SameTargets
<1>. QED  BY <1>1, <1>2, <1>3, PTL DEF Spec

---------------------------------------------------------------------------------
(* Resources: until the table is refreshed early, every request in flight is of the *)
(* last refresh, and a resource it named is in the table or asked for, never both.  *)

NotOpened ==
    ~asked => gen = 0 /\ calls = {} /\ ~table /\ rows = {} /\ listed[0] = {}
CallsOfNow ==
    \A c \in calls :
        \/ \E h \in HCPs : c = S!NamesOf(gen, h)
        \/ \E r \in listed[gen] : c = S!Details(gen, r)
NamedOnce ==
    \A h \in HCPs : S!NamesOf(gen, h) \in calls => \A r \in listed[gen] : r.hcp # h
ListedOrAsked ==
    /\ rows \subseteq listed[gen]
    /\ \A r \in rows : S!Details(gen, r) \notin calls
    /\ ~failed /\ ~lost => \A r \in listed[gen] : r \in rows \/ S!Details(gen, r) \in calls
NoneLater == \A g \in 0..MaxRefresh : g > gen => listed[g] = {}

ResourcesIInv ==
    /\ panel \in {"disk", "zfcp", "network"} /\ hcps \subseteq HCPs
    /\ gen \in 0..MaxRefresh
    /\ listed \in [0..MaxRefresh -> SUBSET S!Rows]
    /\ early \in BOOLEAN /\ failed \in BOOLEAN /\ twice \in BOOLEAN
    /\ ~early => NotOpened /\ CallsOfNow /\ NamedOnce /\ ListedOrAsked /\ NoneLater /\ ~twice

LEMMA ResourcesInit == S!Init => ResourcesIInv
<1>1. MaxRefresh \in Nat /\ 0 \in 0..MaxRefresh
  BY BoundsOK
<1>. QED
  BY <1>1 DEF S!Init, ResourcesIInv, NotOpened, CallsOfNow, NamedOnce, ListedOrAsked, NoneLater

\* A request for names is none for a row, and requests for two rows are two requests.
LEMMA RequestsDiffer ==
    ASSUME NEW g, NEW h, NEW r \in S!Rows, NEW q \in S!Rows, NEW i, NEW j
    PROVE  /\ S!NamesOf(i, h) # S!Details(j, r)
           /\ S!Details(g, r) = S!Details(g, q) => r = q
           /\ S!NamesOf(i, h).gen = i /\ S!NamesOf(i, h).hcp = h
           /\ S!Details(j, r).gen = j
  BY DEF S!NamesOf, S!Details, S!Rows, S!Stats

\* Names are asked for when nothing is in flight, of a refresh that named nothing.
LEMMA AsksNames ==
    ASSUME ResourcesIInv, NEW g \in 0..MaxRefresh, S!Query(g), calls = {}, listed[g] = {},
           gen' = g, rows' = {}, ~twice', asked', UNCHANGED <<hcps, listed>>,
           \A i \in 0..MaxRefresh : i > g => listed[i] = {}
    PROVE  NotOpened' /\ CallsOfNow' /\ NamedOnce' /\ ListedOrAsked' /\ NoneLater'
<1>1. calls' = {S!NamesOf(g, h) : h \in hcps} /\ hcps \subseteq HCPs
  BY DEF S!Query, ResourcesIInv
<1>. QED
  BY <1>1 DEF NotOpened, CallsOfNow, NamedOnce, ListedOrAsked, NoneLater

LEMMA RefreshInv == ASSUME ResourcesIInv, S!Refresh PROVE ResourcesIInv'
<1>1. MaxRefresh \in Nat /\ gen \in 0..MaxRefresh /\ gen < MaxRefresh
  BY BoundsOK DEF ResourcesIInv, S!Refresh
<1>2. gen' = gen + 1 /\ gen' \in 0..MaxRefresh
  BY <1>1 DEF S!Refresh
<1>3. early' = (early \/ calls # {})
  BY DEF S!Refresh
<1>4. early' \in BOOLEAN /\ (~early' => ~early /\ calls = {})
  BY <1>3, Zenon
<1>5. ASSUME ~early' 
      PROVE  NotOpened' /\ CallsOfNow' /\ NamedOnce' /\ ListedOrAsked' /\ NoneLater' /\ ~twice'
  <2>1. NotOpened /\ NoneLater /\ table /\ asked
    BY <1>4, <1>5 DEF ResourcesIInv, NotOpened, S!Refresh
  <2>2. listed[gen'] = {} /\ \A i \in 0..MaxRefresh : i > gen' => listed[i] = {}
    BY <1>1, <1>2, <2>1 DEF NoneLater
  <2>3. S!Query(gen') /\ rows' = {} /\ twice' = FALSE /\ UNCHANGED <<hcps, asked, listed>>
    BY DEF S!Refresh
  <2>4. ~twice' /\ asked'
    BY <2>1, <2>3
  <2>. QED  BY <1>2, <1>4, <1>5, <2>1, <2>2, <2>3, <2>4, AsksNames
<1>. QED  BY <1>2, <1>4, <1>5 DEF ResourcesIInv, S!Refresh

\* A request that gets no answer, or one with nothing to show, leaves the others.
LEMMA DropInv ==
    ASSUME ResourcesIInv, NEW c \in calls, calls' = calls \ {c}, failed' \in BOOLEAN,
           failed' \/ lost',
           UNCHANGED <<panel, hcps, asked, gen, rows, twice, listed, early>>
    PROVE  ResourcesIInv'
  BY DEF ResourcesIInv, NotOpened, CallsOfNow, NamedOnce, ListedOrAsked, NoneLater

\* A call for names, or for a row, is of this refresh.
LEMMA CallsAre ==
    ASSUME ResourcesIInv, ~early, NEW g \in 0..MaxRefresh
    PROVE  /\ \A h \in HCPs : S!NamesOf(g, h) \in calls => g = gen
           /\ \A r \in S!Rows : S!Details(g, r) \in calls => g = gen /\ r \in listed[gen]
<1>1. CallsOfNow /\ listed[gen] \subseteq S!Rows
  BY DEF ResourcesIInv
<1>2. ASSUME NEW h \in HCPs, S!NamesOf(g, h) \in calls PROVE g = gen
  <2>1. CASE \E i \in HCPs : S!NamesOf(g, h) = S!NamesOf(gen, i)
    BY <2>1 DEF S!NamesOf
  <2>2. CASE \E r \in listed[gen] : S!NamesOf(g, h) = S!Details(gen, r)
    BY <1>1, <2>2 DEF S!NamesOf, S!Details, S!Rows, S!Stats
  <2>. QED  BY <1>1, <1>2, <2>1, <2>2 DEF CallsOfNow
<1>3. ASSUME NEW r \in S!Rows, S!Details(g, r) \in calls PROVE g = gen /\ r \in listed[gen]
  <2>1. CASE \E h \in HCPs : S!Details(g, r) = S!NamesOf(gen, h)
    BY <1>1, <2>1 DEF S!NamesOf, S!Details, S!Rows, S!Stats
  <2>2. CASE \E q \in listed[gen] : S!Details(g, r) = S!Details(gen, q)
    BY <1>1, <2>2 DEF S!Details, S!Rows
  <2>. QED  BY <1>1, <1>3, <2>1, <2>2 DEF CallsOfNow
<1>. QED  BY <1>2, <1>3

LEMMA NamesInv ==
    ASSUME ResourcesIInv, NEW g \in 0..MaxRefresh, NEW h \in HCPs, NEW names \in SUBSET Names,
           NEW rsp, NEW stats \in SUBSET S!Stats, S!NamesAnswered(g, h, names, rsp, stats)
    PROVE  ResourcesIInv'
<1> DEFINE c == S!NamesOf(g, h)
           new == {S!Row(h, n, s) : n \in names, s \in stats}
<1>1. c \in calls /\ UNCHANGED <<panel, hcps, asked, gen, early, lost>>
  BY DEF S!NamesAnswered
<1>2. new \subseteq S!Rows /\ \A r \in new : r.hcp = h
  BY DEF S!Row, S!Rows
<1>3. CASE rsp = "text"
  <2>1. /\ calls' = (calls \ {c}) \cup {S!Details(g, r) : r \in new}
        /\ listed' = [listed EXCEPT ![g] = @ \cup new]
        /\ UNCHANGED <<loader, table, rows, twice, failed>>
    BY <1>3 DEF S!NamesAnswered
  <2>2. listed' \in [0..MaxRefresh -> SUBSET S!Rows]
    BY <1>2, <2>1 DEF ResourcesIInv
  <2>3. ASSUME ~early
        PROVE  NotOpened' /\ CallsOfNow' /\ NamedOnce' /\ ListedOrAsked' /\ NoneLater'
    <3>. USE DEF ResourcesIInv
    <3>1. g = gen
      BY <1>1, <2>3, CallsAre
    <3>2. /\ listed'[gen] = listed[gen] \cup new /\ listed[gen] \subseteq S!Rows
          /\ \A i \in 0..MaxRefresh : i # gen => listed'[i] = listed[i]
      BY <2>1, <3>1
    <3>3. \A r \in listed[gen] : r.hcp # h
      BY <1>1, <2>3, <3>1 DEF NamedOnce
    <3>4. NotOpened'
      BY <1>1, <2>3 DEF NotOpened
    <3>5. CallsOfNow'
      BY <1>1, <2>1, <2>3, <3>1, <3>2 DEF CallsOfNow
    <3>6. NamedOnce'
      <4>1. SUFFICES ASSUME NEW i \in HCPs, S!NamesOf(gen, i) \in calls',
                            NEW r \in listed'[gen]
            PROVE  r.hcp # i
        BY <1>1 DEF NamedOnce
      <4>2. S!NamesOf(gen, i) \in calls /\ i # h
        BY <1>2, <2>1, <3>1, <4>1, RequestsDiffer
      <4>. QED  BY <1>2, <2>3, <3>2, <4>1, <4>2 DEF NamedOnce
    <3>7. ListedOrAsked'
      <4>1. rows \subseteq listed[gen] /\ rows' = rows
        BY <2>1, <2>3 DEF ListedOrAsked
      <4>2. ASSUME NEW r \in rows PROVE S!Details(gen, r) \notin calls'
        <5>1. r \in S!Rows /\ r \notin new
          BY <1>2, <3>2, <3>3, <4>1, <4>2
        <5>2. \A q \in new : S!Details(gen, r) # S!Details(g, q)
          BY <1>2, <3>1, <5>1, RequestsDiffer
        <5>. QED  BY <2>1, <2>3, <4>2, <5>2 DEF ListedOrAsked
      <4>3. ASSUME ~failed, ~lost, NEW r \in listed'[gen]
            PROVE  r \in rows \/ S!Details(gen, r) \in calls'
        <5>1. CASE r \in new
          BY <2>1, <3>1, <5>1
        <5>2. CASE r \in listed[gen]
          <6>1. S!Details(gen, r) # c
            BY <3>2, <5>2, RequestsDiffer
          <6>. QED  BY <2>1, <2>3, <4>3, <5>2, <6>1 DEF ListedOrAsked
        <5>. QED  BY <3>2, <4>3, <5>1, <5>2
      <4>. QED  BY <1>1, <2>1, <3>2, <4>1, <4>2, <4>3 DEF ListedOrAsked
    <3>8. NoneLater'
      BY <1>1, <2>3, <3>2 DEF NoneLater
    <3>. QED  BY <3>4, <3>5, <3>6, <3>7, <3>8
  <2>. QED  BY <1>1, <2>1, <2>2, <2>3 DEF ResourcesIInv
<1>4. CASE rsp # "text"
  <2>1. calls' = calls \ {c} /\ failed' = TRUE /\ UNCHANGED listed
    BY <1>4 DEF S!NamesAnswered
  <2>2. rows' = rows /\ (twice' = twice \/ twice' = (twice \/ rows \cap {} # {}))
    BY <1>4 DEF S!NamesAnswered, S!Load
  <2>3. twice' = twice
    BY <2>2, Zenon DEF ResourcesIInv
  <2>. QED  BY <1>1, <2>1, <2>2, <2>3, DropInv
<1>. QED  BY <1>3, <1>4

LEMMA DetailsInv ==
    ASSUME ResourcesIInv, NEW g \in 0..MaxRefresh, NEW r \in S!Rows, NEW rsp,
           S!DetailsAnswered(g, r, rsp)
    PROVE  ResourcesIInv'
<1> DEFINE c == S!Details(g, r)
           new == IF rsp = "text" THEN {r} ELSE {}
<1>1. /\ c \in calls /\ calls' = calls \ {c} /\ rows' = rows \cup new
      /\ UNCHANGED <<panel, hcps, asked, gen, listed, early, lost>>
  BY DEF S!DetailsAnswered, S!Load
<1>2. twice' = (twice \/ rows \cap new # {}) /\ failed' = (failed \/ rsp # "text")
  BY DEF S!DetailsAnswered, S!Load
<1>3. twice' \in BOOLEAN /\ failed' \in BOOLEAN
  BY <1>2, Zenon
<1>4. CASE rsp # "text"
  <2>1. new = {}
    BY <1>4
  <2>2. failed' /\ twice' = twice
    BY <1>2, <1>4, <2>1, Zenon DEF ResourcesIInv
  <2>. QED  BY <1>1, <1>3, <2>1, <2>2, DropInv
<1>5. CASE rsp = "text"
  <2>1. failed' = failed
    BY <1>2, <1>5, Zenon DEF ResourcesIInv
  <2>2. ASSUME ~early
        PROVE  NotOpened' /\ CallsOfNow' /\ NamedOnce' /\ ListedOrAsked' /\ NoneLater' /\ ~twice'
    <3>1. g = gen /\ r \in listed[gen] /\ r \notin rows /\ ~twice
      BY <1>1, <2>2, CallsAre DEF ResourcesIInv, ListedOrAsked
    <3>2. rows \cap new = {}
      BY <3>1, <1>5
    <3>3. ~twice'
      BY <1>2, <3>1, <3>2, Zenon
    <3>4. \A q \in listed[gen] : q # r => S!Details(gen, q) # c
      BY <3>1, RequestsDiffer DEF ResourcesIInv
    <3>5. ListedOrAsked'
      BY <1>1, <1>5, <2>1, <2>2, <3>1, <3>4 DEF ResourcesIInv, ListedOrAsked
    <3>. QED
      BY <1>1, <2>2, <3>3, <3>5 DEF ResourcesIInv, NotOpened, CallsOfNow, NamedOnce, NoneLater
  <2>. QED  BY <1>1, <1>3, <2>2 DEF ResourcesIInv
<1>. QED  BY <1>4, <1>5

LEMMA ResourcesStep == ResourcesIInv /\ [S!Next]_(S!vars) => ResourcesIInv'
<1> SUFFICES ASSUME ResourcesIInv, [S!Next]_(S!vars) PROVE ResourcesIInv'
  OBVIOUS
<1>1. CASE S!getZResources
  BY <1>1 DEF S!getZResources, ResourcesIInv, NotOpened, CallsOfNow, NamedOnce, ListedOrAsked,
              NoneLater
<1>2. CASE S!OpenPanel
  <2>1. /\ ~asked /\ asked' = TRUE /\ S!Query(0)
        /\ UNCHANGED <<panel, hcps, gen, table, rows, twice, listed, early, failed, lost>>
    BY <1>2 DEF S!OpenPanel
  <2>2. MaxRefresh \in Nat /\ 0 \in 0..MaxRefresh
    BY BoundsOK
  <2>3. ASSUME ~early
        PROVE  NotOpened' /\ CallsOfNow' /\ NamedOnce' /\ ListedOrAsked' /\ NoneLater'
    <3>1. /\ calls = {} /\ listed[0] = {} /\ gen' = 0 /\ rows' = {} /\ ~twice'
          /\ \A i \in 0..MaxRefresh : i > 0 => listed[i] = {}
      BY <2>1, <2>3 DEF ResourcesIInv, NotOpened, NoneLater
    <3>. QED  BY <2>1, <2>2, <3>1, AsksNames
  <2>. QED  BY <2>1, <2>3 DEF ResourcesIInv
<1>3. CASE S!RefreshDisks \/ S!RefreshZfcps \/ S!RefreshNetworks
  BY <1>3, RefreshInv DEF S!RefreshDisks, S!RefreshZfcps, S!RefreshNetworks
<1>4. ASSUME NEW g \in 0..MaxRefresh, NEW rsp, NEW h \in HCPs, NEW names \in SUBSET Names,
             \/ S!getDiskPool(g, h, names, rsp) \/ S!getZfcpPool(g, h, names, rsp)
             \/ S!getNetwork(g, h, names, rsp)
      PROVE  ResourcesIInv'
  <2>1. \E stats \in SUBSET S!Stats : S!NamesAnswered(g, h, names, rsp, stats)
    BY <1>4 DEF S!getDiskPool, S!getZfcpPool, S!getNetwork, S!Stats
  <2>. QED  BY <2>1, NamesInv
<1>5. ASSUME NEW g \in 0..MaxRefresh, NEW rsp, NEW r \in S!Rows,
             \/ S!loadDiskPoolTable(g, r, rsp) \/ S!loadZfcpPoolTable(g, r, rsp)
             \/ S!loadNetworkTable(g, r, rsp)
      PROVE  ResourcesIInv'
  <2>1. S!NoDetails(g, r) \/ \E other : S!DetailsAnswered(g, r, other)
    BY <1>5 DEF S!loadDiskPoolTable, S!loadZfcpPoolTable, S!loadNetworkTable
  <2>2. CASE S!NoDetails(g, r)
    BY <2>2, DropInv DEF S!NoDetails
  <2>. QED  BY <2>1, <2>2, DetailsInv
<1>6. ASSUME NEW c \in calls, S!Lose(c) PROVE ResourcesIInv'
  <2>1. failed \in BOOLEAN
    BY DEF ResourcesIInv
  <2>. QED  BY <1>6, <2>1, DropInv DEF S!Lose
<1>7. CASE UNCHANGED S!vars
  BY <1>7 DEF S!vars, ResourcesIInv, NotOpened, CallsOfNow, NamedOnce, ListedOrAsked, NoneLater
<1>. QED  BY <1>1, <1>2, <1>3, <1>4, <1>5, <1>6, <1>7 DEF S!Next, S!Answer

\* Once every request of loadResources is answered the table lists each resource the
\* control points named once, for any number of control points, pools and refreshes:
\* unless a request got no answer or "Refresh" came before the last answer.
THEOREM ListedOnce == Spec => []TableExact
<1>1. Init => (page = "resources" => ResourcesIInv)
  BY ResourcesInit DEF Init
<1>2. (page = "resources" => ResourcesIInv) /\ [Next]_vars
          => (page = "resources" => ResourcesIInv)'
  BY SamePage, ResourcesPage, ResourcesStep
<1>3. (page = "resources" => ResourcesIInv) => TableExact
  BY DEF ResourcesIInv, ListedOrAsked, TableExact, S!TableExact
<1>. QED  BY <1>1, <1>2, <1>3, PTL DEF Spec

---------------------------------------------------------------------------------
(* Dialogs: while none was closed before its answer, what is in flight was asked   *)
(* by the dialog that is open, those that remove networks aside, and what is shown *)
(* was shown in a dialog of its id, as a closed one is removed.                    *)

DialogsIInv ==
    /\ dialog \in [kind : D!Kinds \cup {D!Confirm, "none"}, number : Nat, submit : BOOLEAN]
    /\ opened \in Nat /\ hasty \in BOOLEAN
    /\ \A c \in calls : c.kind \in D!Kinds \cup {D!Confirm}
    /\ \A c \in shown : c.kind \in D!Kinds /\ D!DialogId(c.kind) = D!DialogId(dialog.kind)
    /\ ~hasty => \A c \in calls :
            c.kind # D!Confirm => c.kind = dialog.kind /\ c.number = dialog.number
    /\ D!OwnAnswers

LEMMA DialogsInit == D!Init => DialogsIInv
<1> SUFFICES ASSUME D!Init PROVE DialogsIInv
  OBVIOUS
<1>1. hasty \in BOOLEAN
  BY Zenon DEF D!Init
<1>. QED  BY <1>1 DEF D!Init, DialogsIInv, D!NoDialog, D!OwnAnswers

\* The id of the dialogs that add and remove is not that of the dialog that removes
\* networks, or of none.
LEMMA IdsDiffer ==
    /\ \A k \in D!Kinds : D!DialogId(k) \notin {D!DialogId(D!Confirm), D!DialogId("none")}
    /\ {D!Confirm, "none"} \cap D!Kinds = {} /\ D!Confirm # "none"
  BY DEF D!DialogId, D!Kinds, D!Confirm

LEMMA SubmitDialog ==
    ASSUME DialogsIInv, NEW k \in D!Kinds, NEW system, D!Submit(k, system)
    PROVE  DialogsIInv'
<1>1. /\ dialog.kind = k /\ dialog' = [dialog EXCEPT !.submit = FALSE]
      /\ calls' = calls \cup {D!Request(k, dialog.number, system)}
      /\ UNCHANGED <<opened, shown, hasty>>
  BY DEF D!Submit
<1>2. /\ dialog' \in [kind : D!Kinds \cup {D!Confirm, "none"}, number : Nat, submit : BOOLEAN]
      /\ dialog'.kind = k /\ dialog'.number = dialog.number
  BY <1>1 DEF DialogsIInv
<1>3. \A c \in calls' : c \in calls \/ (c.kind = k /\ c.number = dialog.number)
  BY <1>1 DEF D!Request
<1>. QED  BY <1>1, <1>2, <1>3 DEF DialogsIInv, D!OwnAnswers

LEMMA DialogsStep == DialogsIInv /\ [D!Next]_(D!vars) => DialogsIInv'
<1> SUFFICES ASSUME DialogsIInv, [D!Next]_(D!vars) PROVE DialogsIInv'
  OBVIOUS
<1>1. ASSUME NEW k \in D!Kinds \cup {D!Confirm}, D!Open(k) PROVE DialogsIInv'
  <2>1. /\ dialog.kind = "none"
        /\ dialog' = [kind |-> k, number |-> opened + 1, submit |-> TRUE]
        /\ opened' = opened + 1 /\ UNCHANGED <<calls, shown, hasty>>
    BY <1>1 DEF D!Open, D!NoDialog
  <2>2. shown = {}
    BY <2>1, IdsDiffer DEF DialogsIInv
  <2>3. ~hasty => \A c \in calls : c.kind = D!Confirm
    BY <2>1, IdsDiffer DEF DialogsIInv
  <2>. QED  BY <2>1, <2>2, <2>3 DEF DialogsIInv, D!OwnAnswers
<1>2. CASE D!Close
  <2>1. /\ dialog' = D!NoDialog /\ shown' = {} /\ UNCHANGED <<opened, calls>>
        /\ hasty' = (hasty \/ \E c \in calls : c.kind # D!Confirm)
    BY <1>2 DEF D!Close
  <2>2. hasty' \in BOOLEAN /\ (~hasty' => \A c \in calls : c.kind = D!Confirm)
    BY <2>1, Zenon
  <2>. QED  BY <2>1, <2>2 DEF DialogsIInv, D!NoDialog, D!OwnAnswers
<1>3. ASSUME NEW system \in HCPs,
             \/ D!AddEckd2System(system) \/ D!AddVolume2System(system)
             \/ D!RemoveVolumeFromSystem(system) \/ D!AddPageSpool(system)
             \/ D!ShareDisk(system) \/ D!AddScsi2System(system) \/ D!RemoveScsi(system)
             \/ D!RemoveDiskFromPool(system) \/ D!AddDisk2Pool(system)
             \/ D!RemoveZfcpFromPool(system) \/ D!AddZfcp2Pool(system)
             \/ \E networkType \in {"", "vswitch", "vlan"}, ethernet \in BOOLEAN :
                    D!AddVswitchVlan(system, networkType, ethernet)
      PROVE  DialogsIInv'
  <2>1. \E k \in D!Kinds : D!Submit(k, system)
    BY <1>3 DEF D!AddEckd2System, D!AddVolume2System, D!RemoveVolumeFromSystem, D!AddPageSpool,
                D!ShareDisk, D!AddScsi2System, D!RemoveScsi, D!RemoveDiskFromPool, D!AddDisk2Pool,
                D!RemoveZfcpFromPool, D!AddZfcp2Pool, D!AddVswitchVlan, D!Kinds
  <2>. QED  BY <2>1, SubmitDialog
<1>4. ASSUME NEW systems \in SUBSET HCPs, D!RemoveVswitchVlan(systems) PROVE DialogsIInv'
  <2>1. /\ dialog.kind = D!Confirm /\ dialog' = D!NoDialog
        /\ \A c \in calls' : c \in calls \/ c.kind = D!Confirm
        /\ UNCHANGED <<opened, shown, hasty>>
    BY <1>4 DEF D!RemoveVswitchVlan, D!Request
  <2>2. shown = {}
    BY <2>1, IdsDiffer DEF DialogsIInv
  <2>3. ~hasty => \A c \in calls' : c.kind = D!Confirm
    BY <2>1 DEF DialogsIInv
  <2>. QED  BY <2>1, <2>2, <2>3 DEF DialogsIInv, D!NoDialog, D!OwnAnswers
<1>5. ASSUME NEW c \in calls, D!updateResourceDialog(c) PROVE DialogsIInv'
  <2>1. /\ c.kind \in D!Kinds /\ c.kind # D!Confirm
        /\ calls' \subseteq calls /\ UNCHANGED <<dialog, opened, hasty>>
        /\ \/ shown' = shown
           \/ shown' = shown \cup {c} /\ D!DialogId(dialog.kind) = D!DialogId(c.kind)
    BY <1>5 DEF D!updateResourceDialog, DialogsIInv
  <2>2. ~hasty => c.number = dialog.number
    BY <2>1 DEF DialogsIInv
  <2>. QED  BY <2>1, <2>2 DEF DialogsIInv, D!OwnAnswers
<1>6. CASE \E c \in calls : D!NetworkRemoved(c) \/ D!Lose(c)
  BY <1>6 DEF D!NetworkRemoved, D!Lose, DialogsIInv, D!OwnAnswers
<1>7. CASE UNCHANGED D!vars
  BY <1>7 DEF D!vars, DialogsIInv, D!OwnAnswers
<1>. QED  BY <1>1, <1>2, <1>3, <1>4, <1>5, <1>6, <1>7 DEF D!Next

\* updateResourceDialog finds the dialog by its id, which those for other resources
\* have too; for any number of dialogs it finds the one that asked, as long as none
\* was closed before its answer came: closing removes a dialog and what it showed.
THEOREM AnswersOwn == Spec => []OwnAnswers
<1>1. Init => (page = "dialogs" => DialogsIInv)
  BY DialogsInit DEF Init
<1>2. (page = "dialogs" => DialogsIInv) /\ [Next]_vars => (page = "dialogs" => DialogsIInv)'
  BY SamePage, DialogsPage, DialogsStep
<1>3. (page = "dialogs" => DialogsIInv) => OwnAnswers
  BY DEF DialogsIInv, OwnAnswers
<1>. QED  BY <1>1, <1>2, <1>3, PTL DEF Spec

---------------------------------------------------------------------------------
(* Catalogs: as long as the server did not change since the table, or the table of  *)
(* an open dialog, was asked for, every answer to come is what the server holds.   *)

Entries == [G!Fields -> G!Values]
Reads == {"lsippool", "getzdiskinfo", "getdefaultuserentry"}
FieldOf(cmd) ==
    CASE cmd = "lsippool" -> "pool" [] cmd = "getzdiskinfo" -> "disk" [] OTHER -> "entry"
ReadCalls == {G!Request(cmd, n, G!Nothing) : cmd \in Reads, n \in Names}
ChangeCalls ==
    {G!Request(cmd, n, vals) :
         cmd \in {"update", "write", "mk", "rm"}, n \in Names, vals \in Entries}
Dumps == {G!Tabdump(at) : at \in {i \in Int : i <= writes}}
Dialogs == [open : {TRUE}, vals : Entries, typed : Entries, early : BOOLEAN,
            asof : {i \in Int : i <= writes}]

IsAnswer(a) ==
    \/ \E c \in ReadCalls, v \in G!Values : a = G!Answer(c, v) /\ FieldOf(c.cmd) \in G!Fields
    \/ \E c \in Dumps, X \in SUBSET Names : \E w \in [X -> Entries] : a = G!Answer(c, w)

CatalogTypes ==
    /\ kind \in G!Kinds
    /\ db \in [Names -> Entries] /\ files \in [Names -> G!Values] /\ writes \in Nat
    /\ rows \subseteq Names /\ cells \in [Names -> Entries] /\ asof \in Int /\ asof <= writes
    /\ dialogs \in [Names -> {G!NoDialog} \cup Dialogs]
    /\ calls \subseteq ReadCalls \cup ChangeCalls \cup Dumps
    /\ \A a \in answers : IsAnswer(a)

\* The table, one to come, or the one behind an open dialog is of what the server holds.
Current ==
    \/ asof = writes
    \/ G!Tabdump(writes) \in calls
    \/ \E a \in answers : a.to = G!Tabdump(writes)
    \/ \E n \in Names : dialogs[n].open /\ dialogs[n].asof = writes

AnswersNow ==
    /\ Current => \A n \in Names, cmd \in Reads, v \in G!Values :
           G!Answer(G!Request(cmd, n, G!Nothing), v) \in answers => v = G!Held(n, FieldOf(cmd))
    /\ \A a \in answers :
           a.to = G!Tabdump(writes) => a.with = [n \in G!Listed |-> G!Columns(n)]

\* A field but the pool of an entry is what the server holds, cut at a comma, or not
\* read yet.
AsHeld(n, f, v) ==
    \/ v = G!Held(n, f)
    \/ f = "row" /\ db[n][f] = "comma" /\ v = "cut"
    \/ kind = "profiles" /\ v = "none"
CellsNow ==
    asof = writes => \A n \in rows : \A f \in G!Fields \ {"pool"} : AsHeld(n, f, cells[n][f])

DialogNow(n) ==
    LET d == dialogs[n]
    IN d.open /\ d.asof = writes =>
        /\ \A f \in G!Fields \ {"pool"} :
            \/ d.typed[f] = "none" /\ AsHeld(n, f, d.vals[f])
            \/ d.typed[f] # "none" /\ d.vals[f] = d.typed[f]
        /\ "pool" \in G!Fields /\ ~d.early =>
            \/ /\ d.typed["pool"] = "none"
               /\ d.vals["pool"] = G!Held(n, "pool") \/ G!Asked(n) \/ lost
            \/ d.typed["pool"] # "none" /\ d.vals["pool"] = d.typed["pool"] /\ ~G!Asked(n)

CatalogsIInv ==
    /\ CatalogTypes
    /\ AnswersNow
    /\ CellsNow
    /\ \A n \in Names : DialogNow(n)

\* What the parts of requests and answers are.
LEMMA Parts ==
    /\ \A cmd, n, v : LET c == G!Request(cmd, n, v) IN c.cmd = cmd /\ c.name = n /\ c.vals = v
    /\ \A at : G!Tabdump(at).cmd = "tabdump" /\ G!Tabdump(at).asof = at
    /\ \A c, v : G!Answer(c, v).to = c /\ G!Answer(c, v).with = v
  BY DEF G!Request, G!Tabdump, G!Answer

LEMMA Sorts ==
    /\ \A c \in ReadCalls : /\ c.cmd \in Reads /\ c.name \in Names
                            /\ c = G!Request(c.cmd, c.name, G!Nothing)
    /\ \A c \in ChangeCalls : /\ c.cmd \in {"update", "write", "mk", "rm"} /\ c.name \in Names
                              /\ c.vals \in Entries
    /\ \A c \in Dumps : /\ c.cmd = "tabdump" /\ c = G!Tabdump(c.asof)
                        /\ c.asof \in Int /\ c.asof <= writes
  BY Parts DEF ReadCalls, ChangeCalls, Dumps

LEMMA FieldsAre ==
    ASSUME kind \in G!Kinds
    PROVE  /\ G!Nothing \in Entries
           /\ "row" \in G!Fields <=> kind # "profiles"
           /\ "pool" \in G!Fields <=> kind = "groups"
           /\ "disk" \in G!Fields <=> kind = "profiles"
           /\ "entry" \in G!Fields <=> kind = "profiles"
           /\ G!Fields \subseteq {"row", "pool", "disk", "entry"}
           /\ \A f : G!Texts(f, "new") \subseteq G!Values \ {"none"}
           /\ \A v \in G!Texts("row", "new") :
                  [f \in G!Fields |-> IF f = "row" THEN v ELSE "new"] \in Entries
<1>1. \A f : G!Texts(f, "new") \subseteq {"new", "comma"}
  BY DEF G!Texts
<1>2. {"none", "new", "comma"} \subseteq G!Values
  BY DEF G!Values
<1>. QED  BY <1>1, <1>2 DEF G!Kinds, G!Fields, G!FieldsOf, G!Nothing, Entries

\* While the panel is the same the sorts of requests and the entries are.
LEMMA SameKind ==
    ASSUME kind' = kind
    PROVE  /\ G!Fields' = G!Fields /\ Entries' = Entries /\ G!Nothing' = G!Nothing
           /\ ReadCalls' = ReadCalls /\ ChangeCalls' = ChangeCalls
<1>1. G!Fields' = G!Fields
  BY DEF G!Fields
<1>2. Entries' = Entries /\ G!Nothing' = G!Nothing
  BY <1>1 DEF Entries, G!Nothing
<1>. QED  BY <1>1, <1>2 DEF ReadCalls, ChangeCalls

LEMMA SameWrites ==
    ASSUME kind' = kind, writes' = writes
    PROVE  Dumps' = Dumps /\ Dialogs' = Dialogs
  BY SameKind DEF Dumps, Dialogs

\* A dialog that stays, of an entry that stays on the server.
LEMMA DialogKept ==
    ASSUME NEW n \in Names, DialogNow(n), dialogs'[n] = dialogs[n],
           UNCHANGED <<kind, db, writes>>, lost => lost',
           "pool" \in G!Fields => (G!Asked(n)' => G!Asked(n)) /\ (G!Asked(n) => G!Asked(n)' \/ lost')
    PROVE  DialogNow(n)'
<1>1. G!Fields' = G!Fields /\ G!Held(n, "pool")' = G!Held(n, "pool")
  BY SameKind DEF G!Held
<1>2. PICK x : x = dialogs[n] /\ x = dialogs'[n]
  OBVIOUS
<1>3. \A f \in G!Fields : AsHeld(n, f, x.vals[f])' <=> AsHeld(n, f, x.vals[f])
  BY DEF AsHeld, G!Held
<1>4. x.open /\ x.asof = writes =>
        \A f \in G!Fields \ {"pool"} :
            \/ x.typed[f] = "none" /\ AsHeld(n, f, x.vals[f])
            \/ x.typed[f] # "none" /\ x.vals[f] = x.typed[f]
  BY <1>2 DEF DialogNow
<1>5. x.open /\ x.asof = writes /\ "pool" \in G!Fields /\ ~x.early =>
        \/ /\ x.typed["pool"] = "none"
           /\ x.vals["pool"] = G!Held(n, "pool") \/ G!Asked(n) \/ lost
        \/ x.typed["pool"] # "none" /\ x.vals["pool"] = x.typed["pool"] /\ ~G!Asked(n)
  BY <1>2 DEF DialogNow
<1>. QED  BY <1>1, <1>2, <1>3, <1>4, <1>5 DEF DialogNow

\* An open dialog has its parts.
LEMMA OpenDialog ==
    ASSUME CatalogTypes, NEW n \in Names, dialogs[n].open
    PROVE  /\ dialogs[n].vals \in Entries /\ dialogs[n].typed \in Entries
           /\ dialogs[n].early \in BOOLEAN
           /\ dialogs[n].asof \in Int /\ dialogs[n].asof <= writes
           /\ dialogs[n] \in Dialogs
<1>1. dialogs[n] \in {G!NoDialog} \cup Dialogs
  BY DEF CatalogTypes
<1>2. dialogs[n] # G!NoDialog
  BY DEF G!NoDialog
<1>. HIDE DEF CatalogTypes
<1>3. dialogs[n] \in Dialogs
  BY <1>1, <1>2, Zenon
<1>4. PICK d : d = dialogs[n]
  OBVIOUS
<1>. QED  BY <1>3, <1>4 DEF Dialogs

LEMMA SameAnswers ==
    ASSUME kind' = kind, Dumps \subseteq Dumps', NEW a
    PROVE  IsAnswer(a) => IsAnswer(a)'
<1>1. /\ ReadCalls' = ReadCalls /\ Entries' = Entries /\ G!Fields' = G!Fields
  BY SameKind
<1>. QED  BY <1>1 DEF IsAnswer

LEMMA HeldIn ==
    ASSUME CatalogTypes, NEW n \in Names, NEW f \in G!Fields
    PROVE  G!Held(n, f) \in G!Values
  BY DEF CatalogTypes, Entries, G!Held, G!Values

\* The columns of a row are those of the server, or cut.
LEMMA ColumnsIn ==
    ASSUME kind \in G!Kinds, db \in [Names -> Entries], NEW n \in Names
    PROVE  /\ G!Columns(n) \in Entries
           /\ \A f \in G!Fields \ {"pool"} : AsHeld(n, f, G!Columns(n)[f])
<1>1. CASE kind = "profiles"
  <2>1. G!Columns(n) = G!Nothing
    BY <1>1 DEF G!Columns
  <2>. QED  BY <1>1, <2>1, FieldsAre DEF AsHeld, G!Nothing
<1>2. CASE kind # "profiles"
  <2>1. /\ "row" \in G!Fields /\ G!Fields \subseteq {"row", "pool"}
        /\ G!Nothing \in Entries
    BY <1>2, FieldsAre
  <2>2. PICK v : /\ v = IF db[n]["row"] = "comma" THEN "cut" ELSE db[n]["row"]
                 /\ G!Columns(n) = [G!Nothing EXCEPT !["row"] = v]
    BY <1>2 DEF G!Columns
  <2>3. v \in G!Values
    BY <2>1, <2>2 DEF Entries, G!Values
  <2>. QED  BY <1>2, <2>1, <2>2, <2>3 DEF Entries, AsHeld, G!Held
<1>. QED  BY <1>1, <1>2

LEMMA CatalogsInit == G!Init => CatalogsIInv
<1> SUFFICES ASSUME G!Init PROVE CatalogsIInv
  OBVIOUS
<1>1. /\ kind \in G!Kinds /\ writes = 0 /\ answers = {} /\ lost = FALSE
      /\ db \in [Names -> [G!Fields -> {"none", "old", "comma"}]]
      /\ files = [n \in Names |-> "none"]
      /\ dialogs = [n \in Names |-> G!NoDialog] /\ calls = G!Details(rows)
  BY DEF G!Init
<1>2. db \in [Names -> Entries] /\ files \in [Names -> G!Values]
  BY <1>1 DEF Entries, G!Values
<1>3. /\ rows \subseteq Names /\ cells \in [Names -> Entries] /\ asof \in Int /\ asof <= writes
      /\ CellsNow
  <2>1. CASE rows = G!Listed /\ cells = [n \in Names |-> G!Columns(n)] /\ asof = 0
    <3>1. \A n \in Names : G!Columns(n) \in Entries
      BY <1>1, <1>2, ColumnsIn
    <3>2. \A n \in Names : \A f \in G!Fields \ {"pool"} : AsHeld(n, f, G!Columns(n)[f])
      BY <1>1, <1>2, ColumnsIn
    <3>. QED  BY <1>1, <2>1, <3>1, <3>2 DEF G!Listed, CellsNow
  <2>2. CASE /\ rows = Names /\ cells = [n \in Names |-> [G!Nothing EXCEPT !["row"] = "older"]]
             /\ asof = G!Stale
    <3>1. [G!Nothing EXCEPT !["row"] = "older"] \in Entries
      BY <1>1, FieldsAre DEF Entries, G!Values
    <3>. QED  BY <1>1, <2>2, <3>1 DEF G!Stale, CellsNow
  <2>. QED  BY <2>1, <2>2 DEF G!Init
<1>4. calls \subseteq ReadCalls
  BY <1>1, <1>3 DEF G!Details, ReadCalls, Reads
<1>5. CatalogTypes
  BY <1>1, <1>2, <1>3, <1>4 DEF CatalogTypes
<1>. QED  BY <1>1, <1>3, <1>5 DEF CatalogsIInv, AnswersNow, DialogNow, G!NoDialog

\* A change at the server: nothing shown or in flight is of what it holds now.
LEMMA ChangeInv ==
    ASSUME CatalogsIInv, writes' = writes + 1, db' \in [Names -> Entries],
           files' \in [Names -> G!Values], calls' \subseteq calls \cup ChangeCalls,
           UNCHANGED <<kind, rows, cells, asof, dialogs, answers>>
    PROVE  CatalogsIInv'
<1>1. CatalogTypes /\ writes \in Nat
  BY DEF CatalogsIInv, CatalogTypes
<1>. writes' \in Nat /\ writes < writes'
  BY <1>1
<1>2. /\ \A i \in Int : i <= writes => i <= writes'
      /\ {i \in Int : i <= writes} \subseteq {i \in Int : i <= writes'}
  BY <1>1
<1>3. CatalogTypes'
  <2>1. Dumps \subseteq Dumps'
    BY <1>2 DEF Dumps
  <2>2. Dialogs \subseteq Dialogs'
    BY <1>2, SameKind DEF Dialogs
  <2>. QED  BY <1>1, <1>2, <2>1, <2>2, SameKind, SameAnswers DEF CatalogTypes
<1>4. asof # writes' /\ G!Tabdump(writes') \notin calls'
  BY <1>1, Sorts, Parts DEF CatalogTypes, Reads
<1>5. \A a \in answers : a.to # G!Tabdump(writes')
  BY <1>1, Sorts, Parts DEF CatalogTypes, IsAnswer, Reads
<1>6. \A n \in Names : dialogs[n].open => dialogs[n].asof # writes'
  <2>1. \A n \in Names : dialogs[n].open => dialogs[n].asof \in Int /\ dialogs[n].asof <= writes
    BY <1>1, OpenDialog
  <2>. QED  BY <1>1, <2>1
<1>7. ~Current'
  BY <1>4, <1>5, <1>6 DEF Current
<1>. QED  BY <1>3, <1>4, <1>5, <1>6, <1>7 DEF CatalogsIInv, AnswersNow, CellsNow, DialogNow

\* Requests for changes, requests lost, and dialogs closed.
LEMMA PostsInv ==
    ASSUME CatalogsIInv, files' \in [Names -> G!Values], calls' \subseteq calls \cup ChangeCalls,
           lost => lost', ~lost' => \A c \in ReadCalls : c \in calls => c \in calls',
           dialogs' \in [Names -> {G!NoDialog} \cup Dialogs],
           \A n \in Names : dialogs'[n] \in {dialogs[n], G!NoDialog},
           UNCHANGED <<kind, db, writes, rows, cells, asof, answers>>
    PROVE  CatalogsIInv'
<1>1. CatalogTypes /\ kind \in G!Kinds
  BY DEF CatalogsIInv, CatalogTypes
<1>2. CatalogTypes'
  BY <1>1, SameKind, SameWrites, SameAnswers DEF CatalogTypes
<1>3. Current' => Current
  <2>1. G!Tabdump(writes) \in calls' => G!Tabdump(writes) \in calls
    BY Parts, Sorts
  <2>2. \A n \in Names : dialogs'[n].open => dialogs'[n] = dialogs[n]
    BY DEF G!NoDialog
  <2>. QED  BY <2>1, <2>2 DEF Current
<1>4. AnswersNow'
  BY <1>3, SameKind DEF CatalogsIInv, AnswersNow, G!Held, G!Listed, G!Columns
<1>5. CellsNow'
  BY SameKind DEF CatalogsIInv, CellsNow, AsHeld, G!Held
<1>6. ASSUME NEW n \in Names PROVE DialogNow(n)'
  <2>1. CASE dialogs'[n] = G!NoDialog
    BY <2>1 DEF DialogNow, G!NoDialog
  <2>2. CASE dialogs'[n] = dialogs[n]
    <3>1. G!Asked(n)' => G!Asked(n)
      BY Parts, Sorts, SameKind DEF G!Asked
    <3>2. ~lost' => (G!Asked(n) => G!Asked(n)')
      BY SameKind DEF G!Asked, ReadCalls, Reads
    <3>3. DialogNow(n)
      BY DEF CatalogsIInv
    <3>. QED  BY <2>2, <3>1, <3>2, <3>3, DialogKept
  <2>. QED  BY <2>1, <2>2
<1>. QED  BY <1>2, <1>4, <1>5, <1>6 DEF CatalogsIInv

LEMMA QueryInv == ASSUME CatalogsIInv, NEW k, G!Query(k) PROVE CatalogsIInv'
<1>1. /\ calls' = calls \cup {G!Tabdump(IF calls = {} /\ answers = {} THEN writes ELSE G!Stale)}
      /\ \A n \in Names : ~dialogs[n].open
      /\ UNCHANGED <<kind, db, files, writes, rows, cells, asof, dialogs, answers, lost>>
  BY DEF G!Query, G!Closed, G!server, G!table
<1>2. CatalogTypes /\ kind \in G!Kinds /\ writes \in Nat
  BY DEF CatalogsIInv, CatalogTypes
<1>3. CatalogTypes'
  <2>1. calls' \subseteq calls \cup Dumps
    BY <1>1, <1>2 DEF Dumps, G!Stale
  <2>. QED  BY <1>1, <1>2, <2>1, SameKind, SameWrites, SameAnswers DEF CatalogTypes
<1>4. Current' => Current \/ answers' = {}
  BY <1>1, <1>2, Parts DEF Current, G!Stale
<1>5. AnswersNow'
  BY <1>1, <1>4, SameKind DEF CatalogsIInv, AnswersNow, G!Held, G!Listed, G!Columns
<1>6. CellsNow'
  BY <1>1, SameKind DEF CatalogsIInv, CellsNow, AsHeld, G!Held
<1>7. \A n \in Names : DialogNow(n)'
  BY <1>1 DEF DialogNow
<1>. QED  BY <1>3, <1>5, <1>6, <1>7 DEF CatalogsIInv

\* A request that is answered, with v.
LEMMA ServedInv ==
    ASSUME CatalogsIInv, NEW c \in calls, NEW v, G!Answered(c, v), UNCHANGED G!server,
           \/ /\ c \in ReadCalls /\ FieldOf(c.cmd) \in G!Fields
              /\ v = G!Held(c.name, FieldOf(c.cmd))
           \/ c \in Dumps /\ v = [n \in G!Listed |-> G!Columns(n)]
    PROVE  CatalogsIInv'
<1>1. /\ calls' = calls \ {c} /\ answers' = answers \cup {G!Answer(c, v)}
      /\ UNCHANGED <<kind, db, files, writes, rows, cells, asof, dialogs, lost>>
  BY DEF G!Answered, G!server, G!table
<1>2. CatalogTypes /\ kind \in G!Kinds /\ db \in [Names -> Entries]
  BY DEF CatalogsIInv, CatalogTypes
<1>3. \/ c \in ReadCalls /\ v \in G!Values /\ FieldOf(c.cmd) \in G!Fields
      \/ c \in Dumps /\ v = [n \in G!Listed |-> G!Columns(n)]
  BY <1>2, HeldIn, Sorts
<1>4. G!Listed \in SUBSET Names /\ [n \in G!Listed |-> G!Columns(n)] \in [G!Listed -> Entries]
  BY <1>2, ColumnsIn DEF G!Listed
<1>5. CatalogTypes'
  <2>1. IsAnswer(G!Answer(c, v))
    BY <1>3, <1>4 DEF IsAnswer
  <2>2. \A a \in answers' : IsAnswer(a)'
    BY <1>1, <1>2, <2>1, SameWrites, SameAnswers DEF CatalogTypes
  <2>. QED  BY <1>1, <1>2, <2>2, SameKind, SameWrites DEF CatalogTypes
<1>6. Current' => Current
  BY <1>1, Parts DEF Current
<1>7. /\ \A n \in Names, f \in G!Fields : G!Held(n, f)' = G!Held(n, f)
      /\ [n \in G!Listed |-> G!Columns(n)]' = [n \in G!Listed |-> G!Columns(n)]
  BY <1>1, SameKind DEF G!Held, G!Listed, G!Columns
<1>8. AnswersNow'
  <2>1. AnswersNow /\ G!Nothing' = G!Nothing
    BY <1>1, SameKind DEF CatalogsIInv
  <2>2. ASSUME Current', NEW n \in Names, NEW cmd \in Reads, NEW w \in G!Values,
               G!Answer(G!Request(cmd, n, G!Nothing), w) \in answers'
        PROVE  w = G!Held(n, FieldOf(cmd))
    <3>1. CASE G!Answer(G!Request(cmd, n, G!Nothing), w) \in answers
      BY <1>6, <2>1, <2>2, <3>1 DEF AnswersNow
    <3>2. CASE G!Answer(G!Request(cmd, n, G!Nothing), w) = G!Answer(c, v)
      <4>1. c = G!Request(cmd, n, G!Nothing) /\ v = w /\ c.cmd = cmd /\ c.name = n
        BY <3>2, Parts
      <4>2. c \notin Dumps
        BY <4>1, Sorts DEF Reads
      <4>. QED  BY <4>1, <4>2
    <3>. QED  BY <1>1, <2>2, <3>1, <3>2
  <2>3. \A n \in Names, cmd \in Reads : G!Held(n, FieldOf(cmd))' = G!Held(n, FieldOf(cmd))
    BY <1>1 DEF G!Held
  <2>4. ASSUME NEW a \in answers', a.to = G!Tabdump(writes)
        PROVE  a.with = [n \in G!Listed |-> G!Columns(n)]
    <3>1. CASE a = G!Answer(c, v)
      BY <2>4, <3>1, Parts, Sorts DEF Reads
    <3>2. CASE a \in answers
      BY <2>1, <2>4, <3>2 DEF AnswersNow
    <3>. QED  BY <1>1, <3>1, <3>2
  <2>. QED  BY <1>1, <1>7, <2>1, <2>2, <2>3, <2>4 DEF AnswersNow
<1>9. CellsNow'
  BY <1>1, SameKind DEF CatalogsIInv, CellsNow, AsHeld, G!Held
<1>10. ASSUME NEW n \in Names PROVE DialogNow(n)'
  <2>1. DialogNow(n)
    BY DEF CatalogsIInv
  <2>2. G!Asked(n)' <=> G!Asked(n)
    <3>1. \A w \in G!Values : G!Answer(G!Request("lsippool", n, G!Nothing), w) = G!Answer(c, v) =>
              G!Request("lsippool", n, G!Nothing) \in calls
      BY Parts
    <3>2. c = G!Request("lsippool", n, G!Nothing) => v \in G!Values
      BY <1>3, Parts, Sorts
    <3>3. c = G!Request("lsippool", n, G!Nothing) =>
              \E w \in G!Values : G!Answer(G!Request("lsippool", n, G!Nothing), w) \in answers'
      BY <1>1, <3>2
    <3>. QED  BY <1>1, <3>1, <3>3, SameKind DEF G!Asked
  <2>. QED  BY <1>1, <2>1, <2>2, DialogKept
<1>. QED  BY <1>5, <1>8, <1>9, <1>10 DEF CatalogsIInv

\* The table is drawn; the columns of profiles are asked for.
LEMMA DrawInv ==
    ASSUME CatalogsIInv, NEW k, NEW a \in answers, G!Draw(k, a),
           calls' = calls \cup G!Details(rows') \/ calls' = calls
    PROVE  CatalogsIInv'
<1>1. /\ a.to.cmd = "tabdump" /\ answers' = answers \ {a}
      /\ rows' = DOMAIN a.with /\ asof' = a.to.asof
      /\ cells' = [n \in Names |-> IF n \in rows' THEN a.with[n] ELSE G!Nothing]
      /\ UNCHANGED <<kind, db, files, writes, dialogs, lost>>
  BY DEF G!Draw, G!server
<1>2. CatalogTypes /\ kind \in G!Kinds /\ db \in [Names -> Entries] /\ G!Nothing \in Entries
  BY FieldsAre DEF CatalogsIInv, CatalogTypes
<1>3. PICK c \in Dumps, X \in SUBSET Names : \E w \in [X -> Entries] : a = G!Answer(c, w)
  <2>1. \A d \in ReadCalls, v \in G!Values : a # G!Answer(d, v)
    BY <1>1, Parts, Sorts DEF Reads
  <2>. QED  BY <1>2, <2>1 DEF CatalogTypes, IsAnswer
<1>. PICK w \in [X -> Entries] : a = G!Answer(c, w)
  BY <1>3
<1>4. /\ a.to = c /\ a.with = w /\ rows' = X
      /\ asof' \in Int /\ asof' <= writes /\ c = G!Tabdump(asof')
  <2>1. a.to = c /\ a.with = w
    BY Parts
  <2>2. asof' = c.asof /\ rows' = X
    BY <1>1, <2>1
  <2>. QED  BY <2>1, <2>2, Sorts
<1>5. cells' \in [Names -> Entries] /\ \A n \in X : cells'[n] = w[n]
  BY <1>1, <1>2, <1>3, <1>4
<1>6. calls' \subseteq calls \cup ReadCalls /\ calls \subseteq calls'
  BY <1>4 DEF G!Details, ReadCalls, Reads
<1>7. CatalogTypes'
  BY <1>1, <1>2, <1>4, <1>5, <1>6, SameKind, SameWrites, SameAnswers DEF CatalogTypes
<1>8. Current' => Current
  BY <1>1, <1>4, <1>6, Parts, Sorts DEF Current, Reads
<1>9. AnswersNow'
  BY <1>1, <1>8, SameKind DEF CatalogsIInv, AnswersNow, G!Held, G!Listed, G!Columns
<1>10. CellsNow'
  <2>1. SUFFICES ASSUME asof' = writes, NEW n \in rows', NEW f \in G!Fields \ {"pool"}
                 PROVE  AsHeld(n, f, cells'[n][f])
    BY <1>1, SameKind DEF CellsNow, AsHeld, G!Held
  <2>2. w = [m \in G!Listed |-> G!Columns(m)]
    BY <1>4, <2>1 DEF CatalogsIInv, AnswersNow
  <2>3. n \in Names /\ n \in X /\ X = G!Listed /\ cells'[n] = G!Columns(n)
    BY <1>3, <1>4, <1>5, <2>1, <2>2
  <2>. QED  BY <1>2, <2>3, ColumnsIn
<1>11. ASSUME NEW n \in Names PROVE DialogNow(n)'
  <2>1. DialogNow(n)
    BY DEF CatalogsIInv
  <2>2. kind = "groups" => (G!Asked(n)' <=> G!Asked(n))
    <3>1. \A v : a # G!Answer(G!Request("lsippool", n, G!Nothing), v)
      BY <1>1, Parts
    <3>2. kind = "groups" => calls' = calls
      <4>1. kind = "groups" => G!Details(rows') = {}
        BY DEF G!Details
      <4>. QED  BY <4>1
    <3>. QED  BY <1>1, <3>1, <3>2, SameKind DEF G!Asked
  <2>3. "pool" \in G!Fields => kind = "groups"
    BY <1>2, FieldsAre
  <2>. QED  BY <1>1, <2>1, <2>2, <2>3, DialogKept
<1>. QED  BY <1>7, <1>9, <1>10, <1>11 DEF CatalogsIInv

\* The answer to a read is of a name and a field the panel has.
LEMMA AnswerIs ==
    ASSUME CatalogTypes, NEW a \in answers, a.to.cmd \in Reads
    PROVE  \E n \in Names, v \in G!Values :
               /\ a = G!Answer(G!Request(a.to.cmd, n, G!Nothing), v)
               /\ a.to.name = n /\ a.with = v /\ FieldOf(a.to.cmd) \in G!Fields
<1>1. CASE \E c \in ReadCalls, v \in G!Values : a = G!Answer(c, v) /\ FieldOf(c.cmd) \in G!Fields
  <2>1. PICK c \in ReadCalls, v \in G!Values : a = G!Answer(c, v) /\ FieldOf(c.cmd) \in G!Fields
    BY <1>1
  <2>2. a.to = c /\ a.with = v
    BY <2>1, Parts
  <2>3. c.name \in Names /\ c = G!Request(c.cmd, c.name, G!Nothing)
    BY Sorts
  <2>. QED  BY <2>1, <2>2, <2>3
<1>2. CASE \E c \in Dumps, X \in SUBSET Names : \E w \in [X -> Entries] : a = G!Answer(c, w)
  BY <1>2, Parts, Sorts DEF Reads
<1>. QED  BY <1>1, <1>2 DEF CatalogTypes, IsAnswer

\* A column of a profile is filled.
LEMMA InsertInv ==
    ASSUME CatalogsIInv, NEW a \in answers, NEW cmd \in Reads \ {"lsippool"},
           G!Insert(a, cmd, FieldOf(cmd))
    PROVE  CatalogsIInv'
<1>1. /\ a.to.cmd = cmd /\ answers' = answers \ {a} /\ kind = "profiles"
      /\ cells' = IF a.to.name \in rows THEN [cells EXCEPT ![a.to.name][FieldOf(cmd)] = a.with]
                  ELSE cells
      /\ UNCHANGED <<kind, db, files, writes, rows, asof, dialogs, calls, lost>>
  BY DEF G!Insert, G!server
<1>2. CatalogTypes /\ kind \in G!Kinds /\ cells \in [Names -> Entries] /\ rows \subseteq Names
  BY DEF CatalogsIInv, CatalogTypes
<1>3. PICK n \in Names, v \in G!Values :
          /\ a = G!Answer(G!Request(cmd, n, G!Nothing), v)
          /\ a.to.name = n /\ a.with = v /\ FieldOf(cmd) \in G!Fields
  BY <1>1, <1>2, AnswerIs
<1>4. cells' \in [Names -> Entries]
  BY <1>1, <1>2, <1>3 DEF Entries
<1>5. CatalogTypes'
  BY <1>1, <1>2, <1>4, SameKind, SameWrites, SameAnswers DEF CatalogTypes
<1>6. Current' => Current
  BY <1>1 DEF Current
<1>7. AnswersNow'
  BY <1>1, <1>6, SameKind DEF CatalogsIInv, AnswersNow, G!Held, G!Listed, G!Columns
<1>8. CellsNow'
  <2>1. SUFFICES ASSUME asof = writes, NEW m \in rows, NEW f \in G!Fields \ {"pool"}
                 PROVE  AsHeld(m, f, cells'[m][f])
    BY <1>1, SameKind DEF CellsNow, AsHeld, G!Held
  <2>2. v = G!Held(n, FieldOf(cmd))
    BY <1>3, <2>1 DEF CatalogsIInv, AnswersNow, Current
  <2>3. AsHeld(m, f, cells[m][f])
    BY <2>1 DEF CatalogsIInv, CellsNow
  <2>4. cells'[m][f] = cells[m][f] \/ (m = n /\ f = FieldOf(cmd) /\ cells'[m][f] = v)
    BY <1>1, <1>2, <1>3 DEF Entries
  <2>. QED  BY <2>2, <2>3, <2>4 DEF AsHeld
<1>9. ASSUME NEW m \in Names PROVE DialogNow(m)'
  <2>1. DialogNow(m) /\ "pool" \notin G!Fields
    BY <1>1, <1>2, FieldsAre DEF CatalogsIInv
  <2>. QED  BY <1>1, <2>1, SameKind DEF DialogNow, AsHeld, G!Held
<1>. QED  BY <1>5, <1>7, <1>8, <1>9 DEF CatalogsIInv

\* Dialogs are opened, and for those of groups the pools are asked for.
LEMMA EditInv ==
    ASSUME CatalogsIInv, NEW k, NEW chosen \in SUBSET rows, NEW after, G!Edit(k, chosen, after),
           \/ after = {} /\ k # "groups"
           \/ after = {G!Request("lsippool", n, G!Nothing) : n \in chosen}
    PROVE  CatalogsIInv'
<1>1. /\ kind = k /\ calls' = calls \cup after
      /\ dialogs' = [n \in Names |-> IF n \notin chosen THEN G!NoDialog ELSE
                         [open |-> TRUE, vals |-> cells[n], typed |-> G!Nothing,
                          early |-> FALSE, asof |-> asof]]
      /\ UNCHANGED <<kind, db, files, writes, rows, cells, asof, answers, lost>>
  BY DEF G!Edit, G!server, G!table
<1>2. /\ CatalogTypes /\ kind \in G!Kinds /\ cells \in [Names -> Entries]
      /\ rows \subseteq Names
      /\ asof \in Int /\ asof <= writes /\ G!Nothing \in Entries
  BY FieldsAre DEF CatalogsIInv, CatalogTypes
<1>3. after \subseteq ReadCalls
  BY <1>2 DEF ReadCalls, Reads
<1>4. dialogs' \in [Names -> {G!NoDialog} \cup Dialogs]
  BY <1>1, <1>2 DEF Dialogs
<1>5. CatalogTypes'
  BY <1>1, <1>2, <1>3, <1>4, SameKind, SameWrites, SameAnswers DEF CatalogTypes
<1>6. Current' => Current
  <2>1. G!Tabdump(writes) \in calls' => G!Tabdump(writes) \in calls
    BY <1>1, <1>3, Parts, Sorts DEF Reads
  <2>2. \A n \in Names : dialogs'[n].open => dialogs'[n].asof = asof
    BY <1>1 DEF G!NoDialog
  <2>. QED  BY <1>1, <2>1, <2>2 DEF Current
<1>7. AnswersNow'
  BY <1>1, <1>6, SameKind DEF CatalogsIInv, AnswersNow, G!Held, G!Listed, G!Columns
<1>8. CellsNow'
  BY <1>1, SameKind DEF CatalogsIInv, CellsNow, AsHeld, G!Held
<1>9. ASSUME NEW n \in Names PROVE DialogNow(n)'
  <2>1. CASE n \notin chosen
    BY <1>1, <2>1 DEF DialogNow, G!NoDialog
  <2>2. CASE n \in chosen
    <3>1. /\ dialogs'[n].vals = cells[n] /\ dialogs'[n].typed = G!Nothing
          /\ dialogs'[n].asof = asof
      BY <1>1, <2>2
    <3>2. "pool" \in G!Fields => G!Asked(n)'
      <4>1. "pool" \in G!Fields => G!Request("lsippool", n, G!Nothing) \in calls'
        BY <1>1, <1>2, <2>2, FieldsAre
      <4>. QED  BY <1>1, <4>1, SameKind DEF G!Asked
    <3>3. \A f \in G!Fields : G!Nothing[f] = "none"
      BY DEF G!Nothing
    <3>4. asof = writes => \A f \in G!Fields \ {"pool"} : AsHeld(n, f, cells[n][f])
      BY <2>2 DEF CatalogsIInv, CellsNow
    <3>. QED  BY <1>1, <3>1, <3>2, <3>3, <3>4, SameKind DEF DialogNow, AsHeld, G!Held
  <2>. QED  BY <2>1, <2>2
<1>. QED  BY <1>5, <1>7, <1>8, <1>9 DEF CatalogsIInv

\* A dialog that changes to x.
LEMMA DialogTo ==
    ASSUME NEW n \in Names, NEW x, dialogs'[n] = x,
           UNCHANGED <<kind, db, writes, lost>>,
           x.asof = writes => \A f \in G!Fields \ {"pool"} :
               \/ x.typed[f] = "none" /\ AsHeld(n, f, x.vals[f])
               \/ x.typed[f] # "none" /\ x.vals[f] = x.typed[f],
           x.asof = writes /\ "pool" \in G!Fields /\ ~x.early =>
               \/ /\ x.typed["pool"] = "none"
                  /\ (x.vals["pool"] = G!Held(n, "pool") \/ G!Asked(n)' \/ lost)
               \/ x.typed["pool"] # "none" /\ x.vals["pool"] = x.typed["pool"] /\ ~G!Asked(n)'
    PROVE  DialogNow(n)'
<1>1. G!Fields' = G!Fields /\ G!Held(n, "pool")' = G!Held(n, "pool")
  BY SameKind DEF G!Held
<1>2. \A f \in G!Fields :
          AsHeld(n, f, x.vals[f])' <=>
              \/ x.vals[f] = G!Held(n, f)
              \/ f = "row" /\ db[n][f] = "comma" /\ x.vals[f] = "cut"
              \/ kind = "profiles" /\ x.vals[f] = "none"
  BY DEF AsHeld, G!Held
<1>. QED  BY <1>1, <1>2 DEF DialogNow, AsHeld

\* The pool of a group fills its field.
LEMMA PoolInv ==
    ASSUME CatalogsIInv, NEW a \in answers, G!PoolAnswered(a) PROVE CatalogsIInv'
<1>1. /\ a.to.cmd = "lsippool" /\ answers' = answers \ {a}
      /\ dialogs' = IF dialogs[a.to.name].open
                    THEN [dialogs EXCEPT ![a.to.name].vals["pool"] = a.with] ELSE dialogs
      /\ UNCHANGED <<kind, db, files, writes, rows, cells, asof, calls, lost>>
  BY DEF G!PoolAnswered, G!server, G!table
<1>2. /\ CatalogTypes /\ kind \in G!Kinds
      /\ dialogs \in [Names -> {G!NoDialog} \cup Dialogs]
  BY DEF CatalogsIInv, CatalogTypes
<1>3. PICK n \in Names, v \in G!Values :
          /\ a = G!Answer(G!Request("lsippool", n, G!Nothing), v)
          /\ a.to.name = n /\ a.with = v /\ "pool" \in G!Fields
  BY <1>1, <1>2, AnswerIs DEF Reads, FieldOf
<1>4. \A m \in Names : m # n => dialogs'[m] = dialogs[m]
  BY <1>1, <1>2, <1>3
<1>5. CASE ~dialogs[n].open
  <2>1. dialogs' = dialogs
    BY <1>1, <1>3, <1>5
  <2>2. CatalogTypes'
    BY <1>1, <1>2, <2>1, SameKind, SameWrites, SameAnswers DEF CatalogTypes
  <2>3. Current' => Current
    BY <1>1, <2>1 DEF Current
  <2>4. AnswersNow'
    BY <1>1, <2>3, SameKind DEF CatalogsIInv, AnswersNow, G!Held, G!Listed, G!Columns
  <2>5. CellsNow'
    BY <1>1, SameKind DEF CatalogsIInv, CellsNow, AsHeld, G!Held
  <2>6. ASSUME NEW m \in Names PROVE DialogNow(m)'
    <3>1. DialogNow(m) /\ dialogs'[m] = dialogs[m]
      BY <2>1 DEF CatalogsIInv
    <3>2. CASE m # n
      <4>1. G!Asked(m)' <=> G!Asked(m)
        BY <1>1, <1>3, <3>2, Parts, SameKind DEF G!Asked
      <4>. QED  BY <1>1, <3>1, <4>1, DialogKept
    <3>3. CASE m = n
      BY <1>5, <3>1, <3>3 DEF DialogNow
    <3>. QED  BY <3>2, <3>3
  <2>. QED  BY <2>2, <2>4, <2>5, <2>6 DEF CatalogsIInv
<1>6. CASE dialogs[n].open
  <2>1. PICK d \in Dialogs : d = dialogs[n]
    BY <1>2, <1>6, OpenDialog
  <2>2. dialogs' = [dialogs EXCEPT ![n] = [d EXCEPT !.vals["pool"] = v]]
    BY <1>1, <1>2, <1>3, <1>6, <2>1
  <2>. DEFINE e == [d EXCEPT !.vals["pool"] = v]
  <2>3. /\ e \in Dialogs
        /\ e.typed = d.typed /\ e.early = d.early /\ e.asof = d.asof
        /\ e.vals = [d.vals EXCEPT !["pool"] = v]
    BY <1>3 DEF Dialogs, Entries
  <2>4. dialogs'[n] = e /\ dialogs' \in [Names -> {G!NoDialog} \cup Dialogs]
    BY <1>2, <2>2, <2>3
  <2>5. CatalogTypes'
    BY <1>1, <1>2, <2>4, SameKind, SameWrites, SameAnswers DEF CatalogTypes
  <2>6. Current' => Current
    <3>1. dialogs'[n].asof = dialogs[n].asof
      BY <2>1, <2>3, <2>4
    <3>2. \A m \in Names : dialogs'[m].open /\ dialogs'[m].asof = writes =>
              dialogs[m].open /\ dialogs[m].asof = writes
      BY <1>4, <1>6, <3>1, Zenon
    <3>. QED  BY <1>1, <3>2 DEF Current
  <2>7. AnswersNow'
    BY <1>1, <2>6, SameKind DEF CatalogsIInv, AnswersNow, G!Held, G!Listed, G!Columns
  <2>8. CellsNow'
    BY <1>1, SameKind DEF CatalogsIInv, CellsNow, AsHeld, G!Held
  <2>9. ASSUME NEW m \in Names PROVE DialogNow(m)'
    <3>1. DialogNow(m)
      BY DEF CatalogsIInv
    <3>2. CASE m # n
      <4>1. G!Asked(m)' <=> G!Asked(m)
        BY <1>1, <1>3, <3>2, Parts, SameKind DEF G!Asked
      <4>. QED  BY <1>1, <1>4, <3>1, <3>2, <4>1, DialogKept
    <3>3. CASE m = n
      <4>1. G!Asked(n)
        BY <1>3 DEF G!Asked
      <4>2. d.asof = writes => v = G!Held(n, "pool")
        BY <1>3, <1>6, <2>1 DEF CatalogsIInv, AnswersNow, Current, Reads, FieldOf
      <4>3. d.vals \in Entries /\ d.early \in BOOLEAN
        BY DEF Dialogs
      <4>4. /\ e.vals["pool"] = v
            /\ \A f \in G!Fields \ {"pool"} : e.vals[f] = d.vals[f]
        BY <1>3, <2>3, <4>3 DEF Entries
      <4>5. dialogs'[m] = e
        BY <2>4, <3>3
      <4>. HIDE DEF e
      <4>6. e.asof = writes => \A f \in G!Fields \ {"pool"} :
                \/ e.typed[f] = "none" /\ AsHeld(m, f, e.vals[f])
                \/ e.typed[f] # "none" /\ e.vals[f] = e.typed[f]
        BY <1>6, <2>1, <2>3, <3>1, <3>3, <4>4 DEF DialogNow
      <4>7. e.asof = writes /\ "pool" \in G!Fields /\ ~e.early =>
                e.typed["pool"] = "none" /\ e.vals["pool"] = G!Held(m, "pool")
        BY <1>3, <1>6, <2>1, <2>3, <3>1, <3>3, <4>1, <4>2, <4>4 DEF DialogNow
      <4>. QED  BY <1>1, <4>5, <4>6, <4>7, DialogTo
    <3>. QED  BY <3>2, <3>3
  <2>. QED  BY <2>5, <2>7, <2>8, <2>9 DEF CatalogsIInv
<1>. QED  BY <1>5, <1>6

\* What is typed is kept: a pool typed before the answer counts as early.
LEMMA TypedInv ==
    ASSUME CatalogsIInv, NEW n \in Names, NEW g \in G!Fields, NEW text, G!Type(n, g, text)
    PROVE  CatalogsIInv'
<1>1. /\ dialogs[n].open
      /\ text \in G!Texts(g, "new")
      /\ dialogs' = [dialogs EXCEPT ![n].vals[g] = text, ![n].typed[g] = text,
                                    ![n].early = @ \/ (g = "pool" /\ G!Asked(n))]
      /\ UNCHANGED <<kind, db, files, writes, rows, cells, asof, calls, answers, lost>>
  BY DEF G!Type, G!server, G!table
<1>2. /\ CatalogTypes /\ kind \in G!Kinds
      /\ dialogs \in [Names -> {G!NoDialog} \cup Dialogs]
  BY DEF CatalogsIInv, CatalogTypes
<1>13. text \in G!Values /\ text # "none"
  BY <1>1, <1>2, FieldsAre
<1>3. PICK d \in Dialogs : d = dialogs[n]
  BY <1>1, <1>2, OpenDialog
<1>. DEFINE early2 == d.early \/ (g = "pool" /\ G!Asked(n))
            e == [d EXCEPT !.vals[g] = text, !.typed[g] = text, !.early = early2]
<1>4. dialogs' = [dialogs EXCEPT ![n] = e]
  BY <1>1, <1>2, <1>3
<1>5. early2 \in BOOLEAN
  BY Zenon
<1>6. e \in Dialogs /\ dialogs'[n] = e /\ dialogs' \in [Names -> {G!NoDialog} \cup Dialogs]
  <2>1. e \in Dialogs
    <3>. HIDE DEF early2
    <3>. QED  BY <1>5, <1>13 DEF Dialogs, Entries
  <2>. HIDE DEF e
  <2>. QED  BY <1>2, <1>4, <2>1
<1>12. /\ e.vals = [d.vals EXCEPT ![g] = text] /\ e.typed = [d.typed EXCEPT ![g] = text]
       /\ e.early = early2 /\ e.asof = d.asof
  <2>. HIDE DEF early2
  <2>. QED  BY DEF Dialogs
<1>7. CatalogTypes'
  BY <1>1, <1>2, <1>6, SameKind, SameWrites, SameAnswers DEF CatalogTypes
<1>8. Current' => Current
  <2>1. dialogs'[n].asof = dialogs[n].asof
    BY <1>3, <1>6, <1>12
  <2>2. \A m \in Names : m # n => dialogs'[m] = dialogs[m]
    BY <1>2, <1>4
  <2>3. \A m \in Names : dialogs'[m].open /\ dialogs'[m].asof = writes =>
            dialogs[m].open /\ dialogs[m].asof = writes
    BY <1>1, <2>1, <2>2, Zenon
  <2>. QED  BY <1>1, <2>3 DEF Current
<1>9. AnswersNow'
  BY <1>1, <1>8, SameKind DEF CatalogsIInv, AnswersNow, G!Held, G!Listed, G!Columns
<1>10. CellsNow'
  BY <1>1, SameKind DEF CatalogsIInv, CellsNow, AsHeld, G!Held
<1>11. ASSUME NEW m \in Names PROVE DialogNow(m)'
  <2>1. DialogNow(m) /\ (G!Asked(m)' <=> G!Asked(m))
    BY <1>1, SameKind DEF CatalogsIInv, G!Asked
  <2>2. CASE m # n
    <3>1. dialogs'[m] = dialogs[m]
      BY <1>2, <1>4, <2>2
    <3>. QED  BY <1>1, <2>1, <2>2, <3>1, DialogKept
  <2>3. CASE m = n
    <3>1. ~early2 => ~d.early /\ (g = "pool" => ~G!Asked(n))
      BY Zenon
    <3>2. d.vals \in Entries /\ d.typed \in Entries
      BY DEF Dialogs
    <3>3. /\ e.vals[g] = text /\ e.typed[g] = text
          /\ \A f \in G!Fields : f # g => e.vals[f] = d.vals[f] /\ e.typed[f] = d.typed[f]
      <4>. HIDE DEF early2, e
      <4>. QED  BY <1>12, <3>2 DEF Entries
    <3>4. e.early = early2 /\ e.asof = d.asof
      BY <1>12
    <3>6. ~e.early => ~d.early /\ (g = "pool" => ~G!Asked(n))
      BY <3>1, <3>4, Zenon
    <3>. HIDE DEF early2, e
    <3>5. dialogs'[m] = e
      BY <1>6, <2>3
    <3>7. e.asof = writes => \A f \in G!Fields \ {"pool"} :
              \/ e.typed[f] = "none" /\ AsHeld(m, f, e.vals[f])
              \/ e.typed[f] # "none" /\ e.vals[f] = e.typed[f]
      BY <1>1, <1>3, <1>13, <2>1, <2>3, <3>3, <3>4 DEF DialogNow
    <3>8. e.asof = writes /\ "pool" \in G!Fields /\ ~e.early =>
              \/ /\ e.typed["pool"] = "none"
                 /\ (e.vals["pool"] = G!Held(m, "pool") \/ G!Asked(m) \/ lost)
              \/ e.typed["pool"] # "none" /\ e.vals["pool"] = e.typed["pool"] /\ ~G!Asked(m)
      BY <1>1, <1>3, <1>13, <2>1, <2>3, <3>3, <3>4, <3>6 DEF DialogNow
    <3>. QED  BY <1>1, <2>1, <3>5, <3>7, <3>8, DialogTo, ZenonT(30)
  <2>. QED  BY <2>2, <2>3
<1>. QED  BY <1>7, <1>9, <1>10, <1>11 DEF CatalogsIInv

\* What "Ok" and a new entry post are requests for changes.
LEMMA PostsChange ==
    ASSUME kind \in G!Kinds, NEW n \in Names, NEW vals \in Entries
    PROVE  G!Posts(n, vals) \subseteq ChangeCalls
  BY DEF G!Posts, ChangeCalls

LEMMA CatalogsUserInv ==
    ASSUME CatalogsIInv
    PROVE  /\ \A n, name \in Names : G!Ok(n, name) \/ G!Cancel(n) => CatalogsIInv'
           /\ \A k : \A n \in Names : G!Create(k, n) => CatalogsIInv'
           /\ \A k : \A chosen \in SUBSET rows : G!Delete(k, chosen) => CatalogsIInv'
<1>1. /\ CatalogTypes /\ kind \in G!Kinds /\ files \in [Names -> G!Values] /\ rows \subseteq Names
      /\ dialogs \in [Names -> {G!NoDialog} \cup Dialogs]
  BY DEF CatalogsIInv, CatalogTypes
<1>2. ASSUME NEW n \in Names, NEW name \in Names, G!Ok(n, name) \/ G!Cancel(n)
      PROVE  CatalogsIInv'
  <2>1. /\ dialogs[n].open /\ dialogs' = [dialogs EXCEPT ![n] = G!NoDialog]
        /\ calls' = calls \/ calls' = calls \cup G!Posts(name, dialogs[n].vals)
        /\ UNCHANGED <<kind, db, files, writes, rows, cells, asof, answers, lost>>
    BY <1>2 DEF G!Ok, G!Cancel, G!server, G!table
  <2>2. G!Posts(name, dialogs[n].vals) \subseteq ChangeCalls
    BY <1>1, <2>1, OpenDialog, PostsChange
  <2>3. /\ dialogs' \in [Names -> {G!NoDialog} \cup Dialogs]
        /\ \A m \in Names : dialogs'[m] \in {dialogs[m], G!NoDialog}
    BY <1>1, <2>1
  <2>4. calls' \subseteq calls \cup ChangeCalls /\ calls \subseteq calls'
    BY <2>1, <2>2
  <2>. QED  BY <1>1, <2>1, <2>3, <2>4, PostsInv
<1>3. ASSUME NEW k, NEW n \in Names, G!Create(k, n) PROVE CatalogsIInv'
  <2>1. /\ \E v \in G!Texts("row", "new") :
               calls' = calls \cup G!Posts(n, [f \in G!Fields |-> IF f = "row" THEN v ELSE "new"])
        /\ UNCHANGED <<kind, db, files, writes, rows, cells, asof, dialogs, answers, lost>>
    BY <1>3 DEF G!Create, G!server, G!table
  <2>2. calls' \subseteq calls \cup ChangeCalls /\ calls \subseteq calls'
    BY <1>1, <2>1, FieldsAre, PostsChange
  <2>. QED  BY <1>1, <2>1, <2>2, PostsInv
<1>4. ASSUME NEW k, NEW chosen \in SUBSET rows, G!Delete(k, chosen) PROVE CatalogsIInv'
  <2>1. /\ calls' = calls \cup {G!Request("rm", m, G!Nothing) : m \in chosen}
        /\ UNCHANGED <<kind, db, files, writes, rows, cells, asof, dialogs, answers, lost>>
    BY <1>4 DEF G!Delete, G!server, G!table
  <2>2. calls' \subseteq calls \cup ChangeCalls /\ calls \subseteq calls'
    BY <1>1, <2>1, FieldsAre DEF ChangeCalls
  <2>. QED  BY <1>1, <2>1, <2>2, PostsInv
<1>. QED  BY <1>2, <1>3, <1>4

\* What the server does with a request.
LEMMA ServeInv == ASSUME CatalogsIInv, G!Serve PROVE CatalogsIInv'
<1>1. /\ CatalogTypes /\ kind \in G!Kinds /\ files \in [Names -> G!Values] /\ writes \in Nat
      /\ db \in [Names -> Entries] /\ dialogs \in [Names -> {G!NoDialog} \cup Dialogs]
      /\ calls \subseteq ReadCalls \cup ChangeCalls \cup Dumps
  BY DEF CatalogsIInv, CatalogTypes
<1>2. PICK c \in calls :
          \/ G!ReadTable(c)
          \/ \E f \in G!Fields : G!ReadDetail(c, f) \/ G!WriteFile(c, f)
          \/ G!UpdateRow(c) \/ G!Make(c) \/ G!Remove(c) \/ G!Lose(c)
  BY DEF G!Serve
<1>3. CASE G!ReadTable(c)
  <2>1. c \in Dumps
    BY <1>1, <1>3, Sorts DEF G!ReadTable, Reads
  <2>. QED  BY <1>3, <2>1, ServedInv DEF G!ReadTable
<1>4. ASSUME NEW f \in G!Fields, G!ReadDetail(c, f) PROVE CatalogsIInv'
  <2>1. c.cmd = (CASE f = "pool" -> "lsippool" [] f = "disk" -> "getzdiskinfo"
                   [] f = "entry" -> "getdefaultuserentry" [] OTHER -> "none")
    BY <1>4 DEF G!ReadDetail
  <2>2. c \in ReadCalls /\ FieldOf(c.cmd) = f
    BY <1>1, <2>1, Sorts, FieldsAre DEF FieldOf, Reads
  <2>. QED  BY <1>4, <2>2, ServedInv DEF G!ReadDetail
<1>5. ASSUME NEW f \in G!Fields, G!WriteFile(c, f) PROVE CatalogsIInv'
  <2>1. /\ c.cmd = "write" /\ files' = [files EXCEPT ![c.name] = c.vals[f]]
        /\ calls' = (calls \ {c}) \cup {G!Request("mk", c.name, c.vals)}
        /\ UNCHANGED <<kind, db, writes, rows, cells, asof, dialogs, answers, lost>>
    BY <1>5 DEF G!WriteFile, G!Executed, G!table
  <2>2. c \in ChangeCalls /\ c \notin ReadCalls
    BY <1>1, <2>1, Sorts DEF Reads
  <2>3. c.name \in Names /\ c.vals \in Entries /\ c.vals[f] \in G!Values
    BY <2>2, Sorts DEF Entries
  <2>4. files' \in [Names -> G!Values] /\ calls' \subseteq calls \cup ChangeCalls
    BY <1>1, <2>1, <2>3 DEF ChangeCalls
  <2>. QED  BY <1>1, <2>1, <2>2, <2>4, PostsInv
<1>6. ASSUME \/ G!UpdateRow(c) \/ G!Make(c) \/ G!Remove(c) PROVE CatalogsIInv'
  <2>1. c.cmd \in {"update", "mk", "rm"}
    BY <1>6 DEF G!UpdateRow, G!Make, G!Remove
  <2>2. c.name \in Names /\ c.vals \in Entries
    BY <1>1, <2>1, Sorts DEF Reads
  <2>3. /\ writes' = writes + 1 /\ calls' = calls \ {c}
        /\ UNCHANGED <<kind, rows, cells, asof, dialogs, answers>>
    BY <1>6 DEF G!UpdateRow, G!Make, G!Remove, G!Change, G!Executed, G!table
  <2>4. db' \in [Names -> Entries]
    <3>1. CASE G!UpdateRow(c)
      BY <1>1, <2>2, <3>1 DEF G!UpdateRow, G!Change, Entries
    <3>2. CASE G!Make(c)
      BY <1>1, <2>2, <3>2 DEF G!Make, G!Change, Entries
    <3>3. CASE G!Remove(c)
      BY <1>1, <2>2, <3>3, FieldsAre DEF G!Remove, G!Change
    <3>. QED  BY <1>6, <3>1, <3>2, <3>3
  <2>5. files' \in [Names -> G!Values]
    BY <1>1, <1>6, <2>2 DEF G!UpdateRow, G!Make, G!Remove, G!Values
  <2>. QED  BY <2>3, <2>4, <2>5, ChangeInv
<1>7. CASE G!Lose(c)
  BY <1>1, <1>7, PostsInv DEF G!Lose, G!server, G!table
<1>. QED  BY <1>2, <1>3, <1>4, <1>5, <1>6, <1>7

LEMMA CatalogsStep == CatalogsIInv /\ [G!Next]_(G!vars) => CatalogsIInv'
<1> SUFFICES ASSUME CatalogsIInv, [G!Next]_(G!vars) PROVE CatalogsIInv'
  OBVIOUS
<1>1. CASE G!queryImages \/ G!queryGroups \/ G!queryProfiles
  BY <1>1, QueryInv DEF G!queryImages, G!queryGroups, G!queryProfiles
<1>2. ASSUME NEW n \in Names,
             \/ G!imageDialog(n) \/ G!groupDialog(n) \/ G!profileDialog(n)
             \/ (\E name \in Names : G!Ok(n, name)) \/ G!Cancel(n)
      PROVE  CatalogsIInv'
  BY <1>2, CatalogsUserInv DEF G!imageDialog, G!groupDialog, G!profileDialog
<1>3. ASSUME NEW chosen \in SUBSET rows,
             \/ G!editImageDialog(chosen) \/ G!editGroupDialog(chosen) \/ G!editProfileDialog(chosen)
      PROVE  CatalogsIInv'
  <2>1. \E k, after : /\ G!Edit(k, chosen, after)
                      /\ \/ after = {} /\ k # "groups"
                         \/ after = {G!Request("lsippool", n, G!Nothing) : n \in chosen}
    BY <1>3 DEF G!editImageDialog, G!editGroupDialog, G!editProfileDialog
  <2>. QED  BY <2>1, EditInv
<1>4. ASSUME NEW chosen \in SUBSET rows,
             G!deleteImageDialog(chosen) \/ G!deleteGroupDialog(chosen) \/ G!deleteProfileDialog(chosen)
      PROVE  CatalogsIInv'
  <2>1. \E k : G!Delete(k, chosen)
    BY <1>4 DEF G!deleteImageDialog, G!deleteGroupDialog, G!deleteProfileDialog
  <2>. QED  BY <2>1, CatalogsUserInv
<1>5. ASSUME NEW n \in Names, NEW f \in G!Fields, NEW v, G!Type(n, f, v) PROVE CatalogsIInv'
  BY <1>5, TypedInv
<1>6. CASE G!Serve
  BY <1>6, ServeInv
<1>7. ASSUME NEW a \in answers,
             \/ G!configImagePanel(a) \/ G!configGroupPanel(a) \/ G!configProfilePanel(a)
      PROVE  CatalogsIInv'
  BY <1>7, DrawInv DEF G!configImagePanel, G!configGroupPanel, G!configProfilePanel
<1>8. ASSUME NEW a \in answers, G!insertDiskInfo(a) \/ G!insertDirectoryEntry(a)
      PROVE  CatalogsIInv'
  BY <1>8, InsertInv DEF G!insertDiskInfo, G!insertDirectoryEntry, Reads, FieldOf
<1>9. ASSUME NEW a \in answers, G!PoolAnswered(a) PROVE CatalogsIInv'
  BY <1>9, PoolInv
<1>10. CASE UNCHANGED G!vars
  <2>1. UNCHANGED <<kind, db, files, writes, rows, cells, asof, dialogs, calls, answers, lost>>
    BY <1>10 DEF G!vars, G!server, G!table
  <2>2. \A n \in Names : dialogs'[n] \in {dialogs[n], G!NoDialog}
    BY <2>1
  <2>3. files \in [Names -> G!Values] /\ dialogs \in [Names -> {G!NoDialog} \cup Dialogs]
    BY DEF CatalogsIInv, CatalogTypes
  <2>4. files' \in [Names -> G!Values] /\ dialogs' \in [Names -> {G!NoDialog} \cup Dialogs]
    BY <2>1, <2>3
  <2>. QED  BY <2>1, <2>2, <2>4, PostsInv
<1>. QED
  BY <1>1, <1>2, <1>3, <1>4, <1>5, <1>6, <1>7, <1>8, <1>9, <1>10
     DEF G!Next, G!User, G!Callback

\* "Ok" sends what was typed and for the rest what the server holds, for any number of
\* images, groups, profiles and edits: if the table was renewed with nothing in flight
\* and the server did not change since, the pool was waited for and no request lost. What
\* tabdump has after a comma of a column is cut.
THEOREM EditsKeep == Spec => []EditKeepsRest
<1>1. Init => (page = "catalogs" => CatalogsIInv)
  BY CatalogsInit DEF Init
<1>2. (page = "catalogs" => CatalogsIInv) /\ [Next]_vars => (page = "catalogs" => CatalogsIInv)'
  BY SamePage, CatalogsPage, CatalogsStep
<1>3. CatalogsIInv => G!EditKeepsRest
  <2>1. SUFFICES ASSUME CatalogsIInv, NEW n \in Names, dialogs[n].open,
                        dialogs[n].asof = writes, ~dialogs[n].early, ~G!Asked(n), ~lost,
                        NEW f \in G!Fields
                 PROVE  LET d == dialogs[n]
                        IN \/ d.typed[f] # "none" /\ d.vals[f] = d.typed[f]
                           \/ d.typed[f] = "none" /\ d.vals[f] = G!Held(n, f)
                           \/ /\ d.typed[f] = "none" /\ f = "row" /\ db[n][f] = "comma"
                              /\ d.vals[f] = "cut"
                           \/ kind = "profiles" /\ d.typed[f] = "none" /\ d.vals[f] = "none"
    BY DEF G!EditKeepsRest
  <2>2. DialogNow(n)
    BY <2>1 DEF CatalogsIInv
  <2>3. CASE f = "pool"
    BY <2>1, <2>2, <2>3 DEF DialogNow
  <2>4. CASE f # "pool"
    BY <2>1, <2>2, <2>4 DEF DialogNow, AsHeld
  <2>. QED  BY <2>3, <2>4
<1>. QED  BY <1>1, <1>2, <1>3, PTL DEF Spec, EditKeepsRest

---------------------------------------------------------------------------------
(* Users: while topPriority was never lowered, it is at least every priority in use *)
(* that has its digits, so the next one is of no rule, row, dialog or request.      *)

Reached(p) == p \in 0..U!Limit /\ (p = U!Limit \/ p <= topPriority)

\* The request for a new user is the only trace of its priority.
Alone(c) ==
    /\ \A r \in policy \cup shown : r.priority # c.rule.priority
    /\ \A rules \in tables : \A r \in rules : r.priority # c.rule.priority
    /\ \A d \in dialogs : ~d.new => d.priority # c.rule.priority
    /\ \A d \in U!Writes \ {c} : d.rule.priority # c.rule.priority

InUse ==
    /\ topPriority \in 0..(U!Limit - 1)
    /\ \A r \in policy \cup shown : Reached(r.priority)
    /\ \A rules \in tables : \A r \in rules : Reached(r.priority)
    /\ \A c \in U!Writes : Reached(c.rule.priority)
Offered ==
    \A d \in dialogs :
        IF d.new THEN d.priority = U!Next001(topPriority) /\ dialogs = {d}
                 ELSE Reached(d.priority)
NewAlone == \A c \in U!Writes : c.new /\ c.rule.priority < U!Limit => Alone(c)

UsersIInv == lowered \in BOOLEAN /\ (~lowered => InUse /\ Offered /\ NewAlone)

\* A set of numbers up to n has a greatest one.
LEMMA Greatest ==
    ASSUME NEW n \in Nat, NEW X, X \subseteq 0..n, X # {}
    PROVE  \E p \in X : \A q \in X : q <= p
<1> DEFINE Over(p) == {q \in X : q > p}
           Overs == {Over(p) : p \in X}
<1>1. IsFiniteSet(0..n)
  BY FS_Interval
<1>2. IsFiniteSet(X)
  BY <1>1, FS_Subset, Zenon
<1>3. \A p \in X : Over(p) \subseteq X /\ IsFiniteSet(Over(p))
  BY <1>2, FS_Subset, Zenon
<1>4. Overs \subseteq FiniteSubsetsOf(X) /\ Overs # {}
  BY <1>3 DEF FiniteSubsetsOf
<1>5. PICK x \in Overs : \A y \in Overs : <<y, x>> \notin StrictSubsetOrdering(X)
  BY <1>4, FS_StrictSubsetOrderingWellFounded, WFMin
<1>6. PICK p \in X : x = Over(p)
  BY <1>5
<1>7. ASSUME NEW q \in X, q > p PROVE FALSE
  <2>1. q \in 0..n /\ p \in 0..n
    OBVIOUS
  <2>2. \A s \in X : s > q => s > p
    <3> TAKE s \in X
    <3>1. s \in 0..n
      OBVIOUS
    <3>. QED  BY <1>7, <2>1, <3>1
  <2>3. Over(q) \subseteq Over(p) /\ q \in Over(p)
    BY <1>7, <2>2
  <2>4. q \notin Over(q)
    BY <2>1
  <2>5. <<Over(q), x>> \in StrictSubsetOrdering(X)
    BY <1>6, <2>3, <2>4 DEF StrictSubsetOrdering
  <2>. QED  BY <1>5, <2>5
<1>. QED  BY <1>7

\* What Highest returns.
LEMMA HighestOf ==
    ASSUME NEW rules, rules # {}, \A r \in rules : r.priority \in 0..U!Limit
    PROVE  /\ U!Highest(rules) \in U!Keys(rules)
           /\ \A r \in rules : \/ U!Highest(rules) = r.priority
                               \/ U!Above(U!Highest(rules), r.priority)
<1> DEFINE K == U!Keys(rules)
           X == K \ {U!Limit}
<1>1. K # {} /\ K \subseteq 0..1000 /\ X = K \ {1000}
  BY DEF U!Keys, U!Limit
<1> HIDE DEF X
<1>2. \E p \in K : \A q \in K : p = q \/ U!Above(p, q)
  <2>1. CASE X = {}
    BY <1>1, <2>1
  <2>2. X \subseteq 0..999 /\ 999 \in Nat
    BY <1>1
  <2>3. CASE X # {}
    <3>1. PICK p \in X : \A q \in X : q <= p
      <4>1. PICK n \in Nat : X \subseteq 0..n
        BY <2>2
      <4>. QED  BY <2>3, <4>1, Greatest, Zenon
    <3>2. ASSUME NEW q \in K PROVE p = q \/ U!Above(p, q)
      <4>1. CASE q = 1000
        BY <4>1, <3>1, <2>2 DEF U!Above, U!Limit
      <4>2. CASE q \in X
        <5>1. q \in 0..999 /\ p \in 0..999 /\ q <= p
          BY <4>2, <3>1, <2>2
        <5>. QED  BY <5>1 DEF U!Above, U!Limit
      <4>. QED  BY <1>1, <4>1, <4>2
    <3>. QED  BY <1>1, <3>1, <3>2
  <2>. QED  BY <2>1, <2>3
<1>3. U!Highest(rules) \in K /\ \A q \in K : U!Highest(rules) = q \/ U!Above(U!Highest(rules), q)
  BY <1>2 DEF U!Highest
<1>. QED  BY <1>3 DEF U!Keys

LEMMA UsersInit == U!Init => UsersIInv
<1> SUFFICES ASSUME U!Init PROVE UsersIInv
  OBVIOUS
<1>1. \A r \in policy : r.priority \in 0..999
  BY PrioritiesOK DEF U!Init, U!Rule
<1>2. topPriority \in 0..999 /\ \A r \in policy : r.priority <= topPriority
  <2>1. CASE policy = {}
    BY <2>1 DEF U!Init, U!Highest
  <2>2. CASE policy # {}
    <3>1. \A r \in policy : r.priority \in 0..U!Limit
      BY <1>1 DEF U!Limit
    <3>2. /\ topPriority \in U!Keys(policy)
          /\ \A r \in policy : topPriority = r.priority \/ U!Above(topPriority, r.priority)
      BY <2>2, <3>1, HighestOf DEF U!Init
    <3>3. topPriority \in 0..999
      BY <1>1, <3>2 DEF U!Keys
    <3>4. ASSUME NEW r \in policy PROVE r.priority <= topPriority
      <4>1. PICK q \in 0..999 : q = r.priority
        BY <1>1
      <4>2. topPriority = q \/ U!Above(topPriority, q)
        BY <3>2, <4>1
      <4>. QED  BY <3>3, <4>1, <4>2 DEF U!Above, U!Limit
    <3>. QED  BY <3>3, <3>4
  <2>. QED  BY <2>1, <2>2
<1>3. \A r \in policy : Reached(r.priority)
  BY <1>1, <1>2 DEF Reached, U!Limit
<1>4. /\ policy \cup shown = policy /\ dialogs = {} /\ tables = {} /\ U!Writes = {}
      /\ lowered = FALSE
  BY DEF U!Init, U!Writes
<1>5. topPriority \in 0..(U!Limit - 1)
  BY <1>2 DEF U!Limit
<1>. QED  BY <1>3, <1>4, <1>5 DEF UsersIInv, InUse, Offered, NewAlone

LEMMA UsersStep == UsersIInv /\ [U!Next]_(U!vars) => UsersIInv'
<1> SUFFICES ASSUME UsersIInv, [U!Next]_(U!vars) PROVE UsersIInv'
  OBVIOUS
<1>1. CASE U!loadUserPage \/ (\E users \in SUBSET Users : U!Delete(users)) \/ U!ReadTable
           \/ (\E c \in calls : U!web_deleteuser(c) \/ U!Lose(c))
  BY <1>1 DEF U!loadUserPage, U!Delete, U!ReadTable, U!web_deleteuser, U!Lose, U!Act, U!Tabdump,
              UsersIInv, InUse, Offered, NewAlone, Alone, Reached,
              U!Writes
<1>2. CASE U!OpenCreate
  BY <1>2 DEF U!OpenCreate, U!Act, U!Dialog, UsersIInv, InUse, Offered, NewAlone, Alone, Reached,
              U!Writes
<1>3. CASE \E rules \in SUBSET shown : U!OpenEdit(rules)
  BY <1>3 DEF U!OpenEdit, U!Act, U!Dialog, UsersIInv, InUse, Offered, NewAlone, Alone, Reached,
              U!Writes
<1>4. ASSUME NEW d \in dialogs, U!Ok(d) PROVE UsersIInv'
  <2>0. lowered' \in BOOLEAN
    BY <1>4, Zenon DEF U!Ok
  <2>1. CASE lowered'
    BY <1>4, <2>1, Zenon DEF UsersIInv
  <2>2. CASE ~lowered'
    <3>1. ~lowered /\ ~U!Above(topPriority, d.priority)
      BY <1>4, <2>2, Zenon DEF U!Ok
    <3>2. /\ dialogs' = dialogs \ {d}
          /\ calls' = calls \cup {U!Write(d.priority, d.user, d.new)}
          /\ topPriority' = d.priority
          /\ UNCHANGED <<policy, shown, tables>>
      BY <1>4 DEF U!Ok
    <3>3. U!Writes' = U!Writes \cup {U!Write(d.priority, d.user, d.new)}
      BY <3>2 DEF U!Writes, U!Write
    <3>4. PICK q : q = d.priority
      OBVIOUS
    <3>5. topPriority \in 0..999 /\ ~U!Above(topPriority, q)
      BY <3>1, <3>4 DEF UsersIInv, InUse, U!Limit
    <3>6. CASE d.new
      <4>1. q = U!Next001(topPriority)
        BY <3>1, <3>4, <3>6 DEF UsersIInv, Offered
      <4>2. q \in 0..999 /\ topPriority < q
        BY <3>5, <4>1 DEF U!Next001, U!Above, U!Limit
      <4>3. ASSUME NEW p, Reached(p) PROVE Reached(p)'
        <5>1. p \in 0..1000 /\ (p = 1000 \/ p <= topPriority)
          BY <4>3 DEF Reached, U!Limit
        <5>2. topPriority \in 0..999 /\ topPriority' = q
          BY <3>2, <3>4, <3>5
        <5>3. p = 1000 \/ p <= q
          BY <4>2, <5>1, <5>2
        <5>. QED  BY <5>1, <5>2, <5>3 DEF Reached, U!Limit
      <4>4. \A c \in U!Writes' : c \in U!Writes \/ c = U!Write(q, d.user, d.new)
        BY <3>3, <3>4
      <4>5. \A p : Reached(p) => p # q
        BY <3>5, <4>2 DEF Reached, U!Limit
      <4>6. InUse'
        <5>1. topPriority' \in 0..(U!Limit - 1) /\ Reached(q)'
          BY <3>2, <3>4, <4>2 DEF Reached, U!Limit
        <5>2. \A c \in U!Writes' : Reached(c.rule.priority)'
          BY <3>1, <4>3, <4>4, <5>1 DEF UsersIInv, InUse, U!Write, U!Rule
        <5>. QED  BY <3>1, <3>2, <4>3, <5>1, <5>2 DEF UsersIInv, InUse
      <4>7. Offered'
        BY <3>1, <3>2, <3>6 DEF UsersIInv, Offered
      <4>8. ASSUME NEW c \in U!Writes', c.new, c.rule.priority < U!Limit PROVE Alone(c)'
        <5>1. CASE c \in U!Writes /\ c # U!Write(q, d.user, d.new)
          <6>1. Alone(c) /\ c.rule.priority # q
            BY <3>1, <4>5, <4>8, <5>1 DEF UsersIInv, InUse, NewAlone
          <6>2. \A e \in U!Writes' \ {c} : e.rule.priority # c.rule.priority
            BY <4>4, <6>1 DEF Alone, U!Write, U!Rule
          <6>. QED  BY <3>2, <6>1, <6>2 DEF Alone
        <5>2. CASE c = U!Write(q, d.user, d.new)
          <6>1. c.rule.priority = q
            BY <5>2 DEF U!Write, U!Rule
          <6>2. dialogs' = {}
            BY <3>1, <3>2, <3>6 DEF UsersIInv, Offered
          <6>3. \A e \in U!Writes' \ {c} : e.rule.priority # q
            BY <3>1, <4>4, <4>5, <5>2 DEF UsersIInv, InUse
          <6>. QED  BY <3>1, <3>2, <4>5, <6>1, <6>2, <6>3 DEF UsersIInv, InUse, Alone
        <5>. QED  BY <4>4, <5>1, <5>2
      <4>9. NewAlone'
        BY <4>8 DEF NewAlone
      <4>. QED  BY <2>0, <4>6, <4>7, <4>9 DEF UsersIInv
    <3>7. CASE ~d.new
      <4>1. Reached(q)
        BY <3>1, <3>4, <3>7 DEF UsersIInv, Offered
      <4>2. q = topPriority
        BY <3>5, <4>1 DEF Reached, U!Above, U!Limit
      <4>3. \A p : Reached(p)' <=> Reached(p)
        BY <3>2, <3>4, <4>2 DEF Reached
      <4>4. \A c \in U!Writes' : c \in U!Writes \/ (c.rule.priority = q /\ ~c.new)
        BY <3>3, <3>4, <3>7 DEF U!Write, U!Rule
      <4>5. \A c \in U!Writes : Alone(c) => Alone(c)'
        BY <3>2, <3>4, <3>7, <4>4 DEF Alone
      <4>6. \A e \in dialogs' : e \in dialogs
        BY <3>2
      <4>7. InUse'
        BY <3>1, <3>2, <3>4, <4>1, <4>2, <4>3, <4>4 DEF UsersIInv, InUse
      <4>8. Offered'
        BY <3>1, <3>2, <3>4, <4>2, <4>3, <4>6 DEF UsersIInv, Offered, U!Next001
      <4>9. NewAlone'
        BY <3>1, <4>4, <4>5 DEF UsersIInv, NewAlone
      <4>. QED  BY <2>0, <4>7, <4>8, <4>9 DEF UsersIInv
    <3>. QED  BY <3>6, <3>7
  <2>. QED  BY <2>1, <2>2
<1>5. ASSUME NEW d \in dialogs, U!Cancel(d) PROVE UsersIInv'
  BY <1>5 DEF U!Cancel, UsersIInv, InUse, Offered, NewAlone, Alone, Reached,
              U!Writes
<1>6. ASSUME NEW rules \in tables, U!loadUserTable(rules) PROVE UsersIInv'
  <2>0. lowered' \in BOOLEAN
    BY <1>6, Zenon DEF U!loadUserTable
  <2>1. CASE lowered'
    BY <1>6, <2>1, Zenon DEF UsersIInv
  <2>2. CASE ~lowered'
    <3>1. ~lowered /\ ~U!Above(topPriority, topPriority')
      BY <1>6, <2>2, Zenon DEF U!loadUserTable
    <3>2. /\ tables' = tables \ {rules} /\ shown' = rules
          /\ topPriority' = U!Highest(rules)
          /\ UNCHANGED <<policy, dialogs, calls>>
      BY <1>6 DEF U!loadUserTable
    <3>3. topPriority' = topPriority
      <4>1. CASE rules = {}
        <5>1. topPriority \in 0..999 /\ topPriority' = 0
          BY <3>1, <3>2, <4>1 DEF UsersIInv, InUse, U!Highest, U!Limit
        <5>. QED  BY <3>1, <5>1 DEF U!Above, U!Limit
      <4>2. CASE rules # {}
        <5>1. topPriority \in 0..999 /\ \A r \in rules : Reached(r.priority)
          BY <3>1, <3>2 DEF UsersIInv, InUse, U!Limit
        <5>2. U!Highest(rules) \in U!Keys(rules)
          BY <4>2, <5>1, HighestOf DEF Reached
        <5>3. PICK q : q = topPriority' /\ Reached(q)
          BY <3>2, <5>1, <5>2 DEF U!Keys
        <5>. QED  BY <3>1, <5>1, <5>3 DEF Reached, U!Above, U!Limit
      <4>. QED  BY <4>1, <4>2
    <3>. QED
      <4>1. U!Writes' = U!Writes
        BY <3>2 DEF U!Writes
      <4>2. \A p : Reached(p)' <=> Reached(p)
        BY <3>3 DEF Reached
      <4>3. \A c \in U!Writes : Alone(c) => Alone(c)'
        BY <3>2, <4>1 DEF Alone
      <4>4. InUse'
        BY <3>1, <3>2, <3>3, <4>1, <4>2 DEF UsersIInv, InUse
      <4>5. Offered'
        BY <3>1, <3>2, <3>3, <4>2 DEF UsersIInv, Offered, U!Next001
      <4>6. NewAlone'
        BY <3>1, <4>1, <4>3 DEF UsersIInv, NewAlone
      <4>. QED  BY <2>0, <4>4, <4>5, <4>6 DEF UsersIInv
  <2>. QED  BY <2>1, <2>2
<1>7. ASSUME NEW c \in calls, U!web_policy(c) PROVE UsersIInv'
  BY <1>7 DEF U!web_policy, UsersIInv, InUse, Offered, NewAlone, Alone, Reached,
              U!Writes
<1>8. CASE UNCHANGED U!vars
  BY <1>8 DEF U!vars, UsersIInv, InUse, Offered, NewAlone, Alone, Reached,
              U!Writes
<1>. QED  BY <1>1, <1>2, <1>3, <1>4, <1>5, <1>6, <1>7, <1>8 DEF U!Next

\* A rule that createUser writes for a new user is of a priority that no rule and no
\* other request has, for any priorities below 10.00 and any number of acts.
THEOREM RuleOfItsOwn == Spec => []OwnRule
<1>1. Init => (page = "users" => UsersIInv)
  BY UsersInit DEF Init
<1>2. (page = "users" => UsersIInv) /\ [Next]_vars => (page = "users" => UsersIInv)'
  BY SamePage, UsersPage, UsersStep
<1>3. (page = "users" => UsersIInv) => OwnRule
  BY DEF UsersIInv, NewAlone, Alone, OwnRule, U!OwnRule, U!Writes, U!Keys
<1>. QED  BY <1>1, <1>2, <1>3, PTL DEF Spec

---------------------------------------------------------------------------------
(* Groups of nodes: as long as no group was left with its contents awaited, what   *)
(* is in flight for a tab is for the group selected.                               *)

SelectedIInv ==
    /\ crossed \in BOOLEAN
    /\ \A c \in calls : c.what \in N!Contents \cup N!Commands
    /\ ~crossed =>
        /\ \A c \in calls : c.what \in N!Contents => c.group = group
        /\ \A c \in calls : c.what = "lsdef" =>
            nodesList = Overlapping[group] /\ c.nodes \subseteq Overlapping[group]
        /\ summary \in {"empty", "loader", group}
        /\ area \in {"empty", "loader", "table"}
        /\ area = "table" => table = group /\ rows = Overlapping[group]

\* The names of FiniteSets that the instance brings mean the same.
LEMMA SameCardinality == \A X : N!Cardinality(X) = Cardinality(X)
  BY Zenon DEF N!Cardinality, Cardinality

\* The first page is one of the pages, for there is one that no other exceeds.
LEMMA FirstPageIs ==
    ASSUME NEW X, IsFiniteSet(X), X # {}
    PROVE  N!FirstPage(X) \in N!Pages(X)
<1> DEFINE sizes == {Cardinality(Y) : Y \in N!Pages(X)}
           Full(Z) == \A Y \in N!Pages(X) : Cardinality(Y) <= Cardinality(Z)
<1>1. PageSize \in Nat /\ PageSize >= 1
  BY BoundsOK
<1>2. \A Y \in N!Pages(X) : Y \subseteq X /\ Y # {} /\ Cardinality(Y) <= PageSize
  BY SameCardinality, Zenon DEF N!Pages
<1>3. \A Y \in N!Pages(X) : Cardinality(Y) \in Nat
  BY <1>2, FS_Subset, FS_CardinalityType
<1>4. N!Pages(X) # {}
  <2>1. PICK x \in X : TRUE
    OBVIOUS
  <2>2. {x} \subseteq X /\ {x} # {} /\ Cardinality({x}) <= PageSize
    BY <1>1, FS_Singleton
  <2>3. {x} \in N!Pages(X)
    BY <2>2, SameCardinality, Zenon DEF N!Pages
  <2>. QED  BY <2>3
<1>5. sizes \subseteq 0..PageSize /\ sizes # {}
  BY <1>1, <1>2, <1>3, <1>4
<1>6. PICK k \in sizes : \A q \in sizes : q <= k
  <2>. HIDE DEF sizes
  <2>. QED  BY <1>1, <1>5, Greatest
<1>7. \E Z \in N!Pages(X) : Full(Z)
  BY <1>6
<1>8. N!FirstPage(X) = CHOOSE Z \in N!Pages(X) : Full(Z)
  BY SameCardinality, Zenon DEF N!FirstPage
<1>. HIDE DEF Full
<1>. QED  BY <1>7, <1>8

\* The first page of a group, whose definitions are asked for, is of its nodes.
LEMMA FirstOfGroup ==
    ASSUME NEW g \in Groups
    PROVE  /\ N!FirstPage(Overlapping[g]) \subseteq Overlapping[g]
           /\ N!FirstPage(Overlapping[g]) # {}
<1>1. PICK a, b : Overlapping[g] = {a, b}
  BY DEF Overlapping
<1>2. IsFiniteSet({a, b})
  <2>1. IsFiniteSet({a}) /\ {a, b} = {a} \cup {b}
    BY FS_Singleton
  <2>. QED  BY <2>1, FS_AddElement
<1>. QED  BY <1>1, <1>2, FirstPageIs DEF N!Pages

LEMMA SelectedInit == N!Init => SelectedIInv
  BY DEF N!Init, SelectedIInv

LEMMA SelectedStep == SelectedIInv /\ [N!Next]_(N!vars) => SelectedIInv'
<1> SUFFICES ASSUME SelectedIInv, [N!Next]_(N!vars) PROVE SelectedIInv'
  OBVIOUS
<1>. USE DEF SelectedIInv, N!Contents, N!Commands, N!Request
<1>1. ASSUME NEW g \in Groups, NEW view \in {"summary", "nodes"}, N!SelectGroup(g, view)
      PROVE  SelectedIInv'
  <2>1. crossed' = (crossed \/ \E c \in calls : c.what \in N!Contents)
    BY <1>1 DEF N!SelectGroup
  <2>2. crossed' \in BOOLEAN /\ (~crossed' => \A c \in calls : c.what \notin N!Contents)
    BY <2>1, Zenon
  <2>3. /\ group' = g /\ summary' \in {"empty", "loader"} /\ area' \in {"empty", "loader"}
        /\ \E what \in {"summary", "nodels"} : calls' = calls \cup {N!Request(what, g, {})}
    BY <1>1 DEF N!SelectGroup, N!Fill
  <2>. QED  BY <2>2, <2>3
<1>2. ASSUME NEW view \in {"summary", "nodes"}, N!SelectTab(view) PROVE SelectedIInv'
  BY <1>2 DEF N!SelectTab, N!data, N!ends
<1>3. ASSUME NEW ns, N!getNodeAttrs(ns) PROVE SelectedIInv'
  BY <1>3 DEF N!getNodeAttrs, N!tabs, N!data, N!ends
<1>4. ASSUME NEW ns, NEW on \in BOOLEAN,
             \/ N!refreshNodeStatus(ns) \/ N!refreshPowerStatus(ns) \/ N!refreshGangliaStatus(ns)
             \/ N!powerNode(ns) \/ N!monitorNode(ns, on)
      PROVE  SelectedIInv'
  <2>1. PICK what \in N!Commands, column \in N!Columns : N!Ask(what, column, ns)
    BY <1>4 DEF N!refreshNodeStatus, N!refreshPowerStatus, N!refreshGangliaStatus, N!powerNode,
                N!monitorNode, N!Columns
  <2>. QED  BY <2>1 DEF N!Ask, N!tabs, N!data, N!ends
<1>5. ASSUME NEW g \in Groups, NEW rsp \in N!Answers, N!SummaryAnswered(g, rsp)
      PROVE  SelectedIInv'
  BY <1>5 DEF N!SummaryAnswered, N!data
<1>6. ASSUME NEW g \in Groups, N!NodelsAnswered(g) PROVE SelectedIInv'
  BY <1>6, FirstOfGroup DEF N!NodelsAnswered, N!tabs, N!ends
<1>7. ASSUME NEW c \in calls, NEW stat \in BOOLEAN, N!loadNodes(c, stat) PROVE SelectedIInv'
  BY <1>7 DEF N!loadNodes, N!ends
<1>8. ASSUME NEW c \in calls, NEW rsp \in N!Answers, NEW stat \in BOOLEAN,
             N!addNodes2Table(c, rsp, stat)
      PROVE  SelectedIInv'
  BY <1>8 DEF N!addNodes2Table, N!tabs
<1>12. ASSUME NEW c \in calls, N!LoadingRaises(c) PROVE SelectedIInv'
  BY <1>12 DEF N!LoadingRaises
<1>9. ASSUME NEW c \in calls, NEW rsp \in N!Answers,
             N!loadNodeStatus(c, rsp) \/ N!loadPowerStatus(c, rsp) \/ N!loadGangliaStatus(c, rsp)
      PROVE  SelectedIInv'
  BY <1>9 DEF N!loadNodeStatus, N!loadPowerStatus, N!loadGangliaStatus, N!LoadStatus, N!tabs,
              N!data
<1>10. ASSUME NEW c \in calls, NEW warn \in BOOLEAN,
              \/ N!updatePowerStatus(c) \/ N!GangliaChecked(c, warn) \/ N!GangliaStarted(c)
              \/ N!GangliaStopped(c) \/ N!Lose(c)
       PROVE  SelectedIInv'
  BY <1>10 DEF N!updatePowerStatus, N!GangliaChecked, N!GangliaStarted, N!GangliaStopped, N!Lose,
               N!tabs, N!data, N!ends
<1>11. CASE N!CloseUpdating \/ UNCHANGED N!vars
  BY <1>11 DEF N!CloseUpdating, N!vars, N!tabs, N!data, N!ends
<1>. QED
  BY <1>1, <1>2, <1>3, <1>4, <1>5, <1>6, <1>7, <1>8, <1>9, <1>10, <1>11, <1>12
     DEF N!Next, N!User, N!Answer

\* The tabs of nodes.js show the group that is selected, unless the contents of one
\* before were still awaited then, for any page size and any number of clicks.
THEOREM GroupShown == Spec => []ShowsSelected
<1>1. Init => (page = "nodes" => SelectedIInv)
  BY SelectedInit DEF Init
<1>2. (page = "nodes" => SelectedIInv) /\ [Next]_vars => (page = "nodes" => SelectedIInv)'
  BY SamePage, NodesPageOnly, SelectedStep
<1>3. (page = "nodes" => SelectedIInv) => ShowsSelected
  BY NoValuesOK DEF SelectedIInv, ShowsSelected, N!ShowsSelected, Groups
<1>. QED  BY <1>1, <1>2, <1>3, PTL DEF Spec

---------------------------------------------------------------------------------
\* Discovery wizard: while nothing was written late, lost or put under another page,
\* what a page that was passed has written, or has in flight, is what was entered.
WaitedFor == W!Updates \cup {"conf", "xcatsetup"}
PageOf == [basic |-> 2, supernode |-> 3, site |-> 4, range |-> 4, frames |-> 6, hmcs |-> 7]
Early == {"supernode", "range", "frames", "hmcs"}
Source(f) == IF f = "range" THEN "site" ELSE f

Shaped(c) ==
    /\ c.files # {} => c.what \in {"write", "conf"}
    /\ c.what = "write" => \E f \in Early : c.files = {f}
    /\ c.what = "conf" => c.files = {"basic", "site"}

\* One writer of a file, and one command the page waits for, without buttons.
OneWriter == \A c, d \in calls : c.files \cap d.files # {} => c = d
OneCommand ==
    /\ \A c, d \in calls : c.what \in WaitedFor /\ d.what \in WaitedFor => c = d
    /\ \A c \in calls : c.what \in WaitedFor => ~buttons
    /\ \A c \in calls : c.what \in W!Updates => step = 9
    /\ \A c \in calls : c.what \in {"conf", "xcatsetup"} => step = 8
\* The file of a page that was passed is written, or in flight, with its entries.
EarlySaved == \A f \in Early : step > PageOf[f] =>
    /\ \A c \in calls : f \in c.files => c.of[Source(f)] = env[Source(f)]
    /\ (\A c \in calls : f \notin c.files) => written[f] = env[Source(f)]
\* What webxcat.conf takes of the pages, until xcatsetup reads it.
ConfSaved == \A c \in calls, f \in {"basic", "site"} :
    /\ c.what = "conf" => c.of[f] = env[f]
    /\ c.what = "xcatsetup" => written[f] = env[f]
\* From then on the set-up is what the pages hold.
SetUp == step >= 8 /\ (\A c \in calls : c.what \notin {"conf", "xcatsetup"}) =>
    \A f \in W!Files : setup[f] = env[Source(f)]

Kept == OneWriter /\ OneCommand /\ EarlySaved /\ ConfSaved /\ SetUp
WizardIInv ==
    /\ step \in 1..11 /\ env = [f \in W!Fields |-> env[f]]
    /\ buttons \in BOOLEAN /\ hasty \in BOOLEAN /\ intruded \in BOOLEAN /\ lost \in BOOLEAN
    /\ \A c \in calls : Shaped(c)
    /\ ~hasty /\ ~intruded /\ ~lost => Kept

\* The pages by number: the array steps of hmc.js with that of discover.js.
LEMMA StepsAre ==
    ASSUME NEW n \in 1..11
    PROVE  /\ W!Steps[n] = "config" <=> n = 8
           /\ W!Steps[n] = "update" <=> n = 9
           /\ W!Steps[n] = "lpars" <=> n = 10
           /\ W!Steps[n] = "site" <=> n = 4
           /\ W!Steps[n] = "basic" <=> n = 2
           /\ W!Steps[n] = "supernode" <=> n = 3
           /\ W!Steps[n] = "frames" <=> n = 6
           /\ W!Steps[n] = "hmcs" <=> n = 7
           /\ W!Steps[n] = "platform" <=> n = 1
           /\ W!Steps[n] = "poweron" <=> n = 5
  BY DEF W!Steps

LEMMA WizardInit == W!Init => WizardIInv
<1>1. SUFFICES ASSUME W!Init PROVE WizardIInv
  OBVIOUS
<1>2. step = 1 /\ calls = {} /\ env = [f \in W!Fields |-> {}]
      /\ buttons = TRUE /\ hasty = FALSE /\ intruded = FALSE /\ lost = FALSE
  BY <1>1 DEF W!Init, W!Nothing
<1>3. env = [f \in W!Fields |-> env[f]]
  BY <1>2
<1>4. Kept
  BY <1>2 DEF Kept, OneWriter, OneCommand, EarlySaved, ConfSaved, SetUp, PageOf, Early
<1>5. step \in 1..11 /\ \A c \in calls : Shaped(c)
  BY <1>2
<1>. QED  BY <1>2, <1>3, <1>4, <1>5, Zenon DEF WizardIInv

\* A page that comes, after what the one before it saved.
Saved(n, e, saved) ==
    \/ n = 1 /\ saved = {}
    \/ /\ \A f \in W!Fields : PageOf[f] # step => e[f] = env[f]
       /\ \/ n = step - 1 /\ saved = {}
          \/ n = step + 1 /\ saved = {W!Write(f, e) : f \in {g \in Early : PageOf[g] = step}}

LEMMA EnterInv ==
    ASSUME WizardIInv, NEW n \in 1..11, NEW way \in {"next", "back"}, NEW e, NEW saved,
           e = [f \in W!Fields |-> e[f]], Saved(n, e, saved), way = "back" => n = step - 1,
           buttons, W!Enter(n, way, e, saved)
    PROVE  WizardIInv'
<1> DEFINE s == W!Steps[n]
           posted == W!PostedBy(s, e, way)
           new == saved \cup posted
<1>1. /\ step' = n /\ env' = e /\ written' = written /\ setup' = setup
      /\ intruded' = intruded /\ lost' = lost
      /\ calls' = {c \in calls : c.what \notin W!Framed} \cup new
  BY DEF W!Enter, W!server
<1>2. buttons' = W!ButtonsOf(s, e, way) /\ hasty' = (hasty \/ W!Overlap(new))
  BY DEF W!Enter
<1>3. buttons' \in BOOLEAN
  BY <1>2, Zenon DEF W!ButtonsOf
<1>4. hasty' \in BOOLEAN /\ (~hasty' => ~hasty /\ ~W!Overlap(new))
  BY <1>2, Zenon DEF WizardIInv
<1>. HIDE DEF s
<1>5. \A c \in posted :
        \/ c.what \in {"tabdump", "lsslpWriteHMC"} /\ c.files = {}
        \/ c.what = "conf" /\ c.files = {"basic", "site"} /\ c.of = e
  BY DEF W!PostedBy, W!Ask
<1>6. \A c \in saved : c.what = "write" /\ c.of = e
                       /\ \E f \in Early : c.files = {f} /\ PageOf[f] = step /\ n = step + 1
  BY DEF Saved, W!Write
<1>7. \A c \in calls' : Shaped(c)
  BY <1>1, <1>5, <1>6 DEF WizardIInv, Shaped
<1>8. ASSUME ~hasty', ~intruded', ~lost' PROVE Kept'
  <2>1. Kept
    BY <1>1, <1>4, <1>8 DEF WizardIInv
  <2>2. \A c \in calls : c.what \notin WaitedFor
    BY <2>1 DEF Kept, OneCommand
  <2>3. calls' = calls \cup new
    BY <1>1, <2>2 DEF WaitedFor, W!Framed, W!Updates, W!FrameCommands, W!CecCommands
  <2>4. \A c \in calls, d \in new : c.files \cap d.files = {}
    BY <1>4, <1>8 DEF W!Overlap
  <2>5. \A c, d \in posted : c = d
    BY DEF W!PostedBy
  <2>6. \A c \in posted : c.what \in W!Updates => n = 9 /\ way = "next"
    BY StepsAre DEF W!PostedBy, W!Ask, W!Updates, W!FrameCommands, W!CecCommands, s
  <2>7. \A c \in posted : c.what = "conf" => n = 8 /\ way = "next"
    BY StepsAre DEF W!PostedBy, W!Ask, s
  <2>8. OneWriter'
    <3>1. \A c, d \in new : c.files \cap d.files # {} => c = d
      <4>1. \A c, d \in saved : c.files \cap d.files # {} => c = d
        BY DEF Saved, W!Write
      <4>2. \A c \in saved, d \in posted : c.files \cap d.files = {}
        BY <1>5, <1>6 DEF Early
      <4>. QED  BY <4>1, <4>2, <2>5
    <3>2. \A c, d \in calls : c.files \cap d.files # {} => c = d
      BY <2>1 DEF Kept, OneWriter
    <3>. QED  BY <2>3, <2>4, <3>1, <3>2 DEF OneWriter
  <2>9. \A c \in calls' : c.what \in WaitedFor => c \in posted
    BY <2>2, <2>3, <1>6 DEF WaitedFor, W!Updates, W!FrameCommands, W!CecCommands
  <2>10. OneCommand'
    <3>1. \A c \in posted : c.what \in WaitedFor =>
             ~buttons' /\ (c.what \in W!Updates => n = 9) /\ (c.what \in {"conf", "xcatsetup"} => n = 8)
      <4>1. \A c \in posted : c.what \in WaitedFor => c.what = "conf" \/ c.what \in W!Updates
        BY <1>5 DEF WaitedFor
      <4>2. \A c \in posted : c.what # "xcatsetup" /\ (c.what \in W!Updates => c.what # "conf")
        BY <1>5 DEF W!Updates, W!FrameCommands, W!CecCommands
      <4>3. (n = 8 \/ n = 9) /\ way = "next" => ~buttons'
        BY <1>2, StepsAre DEF W!ButtonsOf, W!Maps, s
      <4>. QED  BY <4>1, <4>2, <4>3, <2>6, <2>7
    <3>. QED  BY <1>1, <2>5, <2>9, <3>1 DEF OneCommand, WaitedFor
  <2>11. EarlySaved'
    <3>1. SUFFICES ASSUME NEW f \in Early, n > PageOf[f]
          PROVE  /\ \A c \in calls' : f \in c.files => c.of[Source(f)] = e[Source(f)]
                 /\ (\A c \in calls' : f \notin c.files) => written[f] = e[Source(f)]
      BY <1>1 DEF EarlySaved
    <3>2. \A c \in posted : f \notin c.files
      BY <1>5 DEF Early
    <3>3. CASE PageOf[f] = step
      <4>1. W!Write(f, e) \in new /\ f \in W!Write(f, e).files
        BY <3>1, <3>3 DEF Saved, W!Write, Early, PageOf
      <4>2. \A c \in calls' : f \in c.files => c \in saved
        BY <2>3, <2>4, <3>2, <4>1
      <4>. QED  BY <1>6, <2>3, <4>1, <4>2
    <3>4. CASE PageOf[f] # step
      <4>1. PageOf[f] < step /\ e[Source(f)] = env[Source(f)]
        BY <3>1, <3>4 DEF Saved, Early, PageOf, Source, W!Fields, W!Maps, WizardIInv
      <4>2. \A c \in saved : f \notin c.files
        BY <3>4, <1>6
      <4>3. /\ \A c \in calls : f \in c.files => c.of[Source(f)] = env[Source(f)]
            /\ (\A c \in calls : f \notin c.files) => written[f] = env[Source(f)]
        BY <2>1, <4>1 DEF Kept, EarlySaved
      <4>. QED  BY <2>3, <3>2, <4>1, <4>2, <4>3
    <3>. QED  BY <3>3, <3>4
  <2>12. ConfSaved'
    BY <1>1, <1>5, <2>9 DEF ConfSaved, WaitedFor
  <2>13. SetUp'
    <3>1. SUFFICES ASSUME n >= 8, \A c \in calls' : c.what \notin {"conf", "xcatsetup"},
                          NEW f \in W!Files
          PROVE  setup[f] = e[Source(f)]
      BY <1>1 DEF SetUp
    <3>2. ~(n = 8 /\ way = "next")
      <4>1. SUFFICES ASSUME n = 8, way = "next" PROVE FALSE
        OBVIOUS
      <4>2. s = "config" /\ s # "site"
        BY <4>1, StepsAre DEF s
      <4>3. posted = {[what |-> "conf", files |-> {"basic", "site"}, of |-> e]}
        BY <4>1, <4>2 DEF W!PostedBy
      <4>4. \E c \in posted : c.what = "conf"
        <5> DEFINE r == [what |-> "conf", files |-> {"basic", "site"}, of |-> e]
        <5>1. r \in posted
          BY <4>3, Zenon
        <5>2. r.what = "conf"
          OBVIOUS
        <5>. QED  BY <5>1, <5>2, Zenon
      <4>. QED  BY <2>3, <3>1, <4>4
    <3>3. step >= 8
      BY <3>1, <3>2 DEF Saved, WizardIInv
    <3>4. e[Source(f)] = env[Source(f)]
      BY <3>1, <3>3 DEF Saved, PageOf, Source, W!Files, W!Fields, W!Maps
    <3>. QED  BY <2>1, <2>2, <3>3, <3>4 DEF Kept, SetUp, WaitedFor
  <2>. QED  BY <2>8, <2>10, <2>11, <2>12, <2>13 DEF Kept
<1>. QED  BY <1>1, <1>3, <1>4, <1>7, <1>8 DEF WizardIInv

\* What leaves the page as it is, and neither writes nor starts a command it waits for.
LEMMA StayInv ==
    ASSUME WizardIInv, step' = step, written' = written, setup' = setup,
           env' = [f \in W!Fields |-> env'[f]],
           \A f \in W!Fields : PageOf[f] # step => env'[f] = env[f],
           buttons' \in BOOLEAN, hasty' \in BOOLEAN, intruded' \in BOOLEAN, lost' \in BOOLEAN,
           \A c \in calls' \ calls : c.files = {} /\ c.what \notin WaitedFor \cup {"write"},
           \A c \in calls \ calls' : c.files = {} /\ c.what \notin {"conf", "xcatsetup"},
           ~hasty' /\ ~intruded' /\ ~lost' =>
               /\ ~hasty /\ ~intruded /\ ~lost
               /\ buttons' => buttons \/ \A c \in calls' : c.what \notin WaitedFor
    PROVE  WizardIInv'
<1>1. \A c \in calls' : Shaped(c)
  BY DEF WizardIInv, Shaped, WaitedFor
<1>2. ASSUME ~hasty', ~intruded', ~lost' PROVE Kept'
  <2>1. Kept /\ (buttons' => buttons \/ \A c \in calls' : c.what \notin WaitedFor)
    BY <1>2 DEF WizardIInv
  <2>2. \A c \in calls' : c.files # {} \/ c.what \in WaitedFor => c \in calls
    OBVIOUS
  <2>3. OneWriter'
    BY <2>1, <2>2 DEF Kept, OneWriter
  <2>4. OneCommand'
    BY <2>1, <2>2 DEF Kept, OneCommand, WaitedFor
  <2>5. EarlySaved'
    <3>1. SUFFICES ASSUME NEW f \in Early, step > PageOf[f]
          PROVE  /\ \A c \in calls' : f \in c.files => c.of[Source(f)] = env'[Source(f)]
                 /\ (\A c \in calls' : f \notin c.files) => written[f] = env'[Source(f)]
      BY DEF EarlySaved
    <3>2. env'[Source(f)] = env[Source(f)]
      BY <3>1 DEF Early, PageOf, Source, W!Fields, W!Maps, WizardIInv
    <3>3. (\A c \in calls' : f \notin c.files) => \A c \in calls : f \notin c.files
      OBVIOUS
    <3>. QED  BY <2>1, <2>2, <3>1, <3>2, <3>3 DEF Kept, EarlySaved
  <2>6. \A c \in calls' : c.what \in {"conf", "xcatsetup"} => step = 8
    BY <2>1, <2>2 DEF Kept, OneCommand, WaitedFor
  <2>7. step >= 8 => \A f \in W!Files : env'[Source(f)] = env[Source(f)]
    BY DEF PageOf, Source, W!Files, W!Fields, W!Maps
  <2>8. ConfSaved'
    <3>1. \A f \in {"basic", "site"} : Source(f) = f /\ f \in W!Files
      BY DEF Source, W!Files, W!Fields
    <3>. QED  BY <2>1, <2>2, <2>6, <2>7, <3>1 DEF Kept, ConfSaved, WaitedFor
  <2>9. SetUp'
    BY <2>1, <2>7 DEF Kept, SetUp
  <2>. QED  BY <2>3, <2>4, <2>5, <2>8, <2>9 DEF Kept
<1>. QED  BY <1>1, <1>2 DEF WizardIInv

LEMMA WizardStep == WizardIInv /\ [W!Next]_(W!vars) => WizardIInv'
<1> SUFFICES ASSUME WizardIInv, [W!Next]_(W!vars) PROVE WizardIInv'
  OBVIOUS
<1>. USE DEF W!wizard, W!server, W!history
\* The pages
<1>1. ASSUME NEW n \in 1..11, NEW way \in {"next", "back"}, NEW e, NEW saved,
             way = "back" => n = step - 1, e = [f \in W!Fields |-> e[f]], Saved(n, e, saved),
             W!Click, W!Enter(n, way, e, saved)
      PROVE  WizardIInv'
  BY <1>1, EnterInv DEF W!Click
<1>2. step \in 1..11 /\ env = [f \in W!Fields |-> env[f]]
  BY DEF WizardIInv
<1>3. ASSUME NEW e, e = [f \in W!Fields |-> e[f]],
             \A f \in W!Fields : PageOf[f] # step => e[f] = env[f]
      PROVE  /\ W!BackClick(e) => WizardIInv'
             /\ \A saved : saved = {W!Write(f, e) : f \in {g \in Early : PageOf[g] = step}} =>
                  (W!NextClick(e, saved) => WizardIInv')
  <2>1. ASSUME W!BackClick(e) PROVE WizardIInv'
    <3>1. W!Click /\ step > 1 /\ step - 1 \in 1..11 /\ W!Enter(step - 1, "back", e, {})
      BY <1>2, <2>1 DEF W!BackClick
    <3>2. Saved(step - 1, e, {})
      BY <1>3 DEF Saved
    <3>. QED  BY <1>1, <1>2, <1>3, <3>1, <3>2
  <2>2. ASSUME NEW saved, saved = {W!Write(f, e) : f \in {g \in Early : PageOf[g] = step}},
               W!NextClick(e, saved)
        PROVE  WizardIInv'
    <3>1. W!Click /\ step + 1 \in 1..11 /\ W!Enter(step + 1, "next", e, saved)
      BY <1>2, <2>2 DEF W!NextClick, W!Click
    <3>2. Saved(step + 1, e, saved)
      BY <1>3, <2>2 DEF Saved
    <3>. QED  BY <1>1, <1>2, <1>3, <3>1, <3>2
  <2>. QED  BY <2>1, <2>2
<1>4. \A s \in W!Fields : W!At(s) => step = PageOf[s]
  BY <1>2, StepsAre DEF W!At, W!Fields, W!Maps, PageOf
<1>5. ASSUME NEW s \in W!Fields, NEW vs, W!At(s)
      PROVE  LET e == W!Entered(s, vs)
             IN  /\ e = [f \in W!Fields |-> e[f]]
                 /\ \A f \in W!Fields : PageOf[f] # step => e[f] = env[f]
  BY <1>2, <1>4, <1>5 DEF W!Entered
<1>6. CASE W!Cancel
  <2>1. W!Click /\ step > 1 /\ W!Enter(1, "next", W!Nothing, {})
    BY <1>6 DEF W!Cancel
  <2>. QED
    BY <1>1, <1>2, <2>1 DEF W!Nothing, Saved
<1>7. CASE W!getPlatform \/ W!PassOn
  <2>1. W!BackClick(env) \/ W!NextClick(env, {})
    BY <1>7 DEF W!getPlatform, W!PassOn
  <2>2. \A g \in Early : PageOf[g] # step
    BY <1>2, <1>7, StepsAre DEF W!getPlatform, W!PassOn, W!At, Early, PageOf
  <2>3. {} = {W!Write(f, env) : f \in {g \in Early : PageOf[g] = step}}
    BY <2>2
  <2>. QED  BY <1>2, <1>3, <2>1, <2>3
<1>8. ASSUME NEW s \in {"supernode", "frames", "hmcs"}, NEW e, W!At(s)
      PROVE  {W!Write(s, e)} = {W!Write(f, e) : f \in {g \in Early : PageOf[g] = step}}
  BY <1>2, <1>8, <1>4 DEF Early, PageOf, W!Fields, W!Maps
<1>9. ASSUME NEW vs \in W!Entries, W!checkBasicPattern(vs) PROVE WizardIInv'
  <2>1. W!At("basic") /\ step = 2
    BY <1>2, <1>9, StepsAre DEF W!checkBasicPattern, W!At
  <2>2. {} = {W!Write(f, W!Entered("basic", vs)) : f \in {g \in Early : PageOf[g] = step}}
    BY <2>1 DEF Early, PageOf
  <2>. QED  BY <1>3, <1>5, <1>9, <2>1, <2>2 DEF W!checkBasicPattern, W!Fields
<1>10. ASSUME NEW vs \in W!Entries, W!checkSupernode(vs) PROVE WizardIInv'
  <2> DEFINE e == W!Entered("supernode", vs)
  <2>1. W!At("supernode") /\ (W!BackClick(e) \/ W!NextClick(e, {W!Write("supernode", e)}))
    BY <1>10 DEF W!checkSupernode
  <2>2. /\ e = [f \in W!Fields |-> e[f]]
        /\ \A f \in W!Fields : PageOf[f] # step => e[f] = env[f]
    BY <1>5, <2>1 DEF W!Fields
  <2>. HIDE DEF e
  <2>. QED  BY <1>3, <1>8, <2>1, <2>2
<1>11. ASSUME NEW vs \in W!Entries, W!checkSiteTable(vs) PROVE WizardIInv'
  <2> DEFINE e == W!Entered("site", vs)
  <2>1. W!At("site") /\ (W!BackClick(e) \/ W!NextClick(e, {W!Write("range", e)}))
    BY <1>11 DEF W!checkSiteTable
  <2>2. /\ e = [f \in W!Fields |-> e[f]]
        /\ \A f \in W!Fields : PageOf[f] # step => e[f] = env[f]
    BY <1>5, <2>1 DEF W!Fields
  <2>3. step = 4
    BY <1>2, <2>1, StepsAre DEF W!At
  <2>. HIDE DEF e
  <2>4. {W!Write("range", e)} = {W!Write(f, e) : f \in {g \in Early : PageOf[g] = step}}
    BY <2>3 DEF Early, PageOf
  <2>. QED  BY <1>3, <2>1, <2>2, <2>4
<1>12. CASE W!checkFrameMtms \/ W!checkHmcMtms
  <2>1. PICK s \in W!Maps : W!SaveMaps(s)
    BY <1>12 DEF W!checkFrameMtms, W!checkHmcMtms, W!Maps
  <2>. QED  BY <1>3, <1>5, <1>8, <2>1 DEF W!SaveMaps, W!Fields, W!Maps
\* What stays on the page
<1>13. ASSUME NEW s \in W!Fields \ W!Maps, W!Refused(s) PROVE WizardIInv'
  BY <1>5, <1>13, StayInv DEF W!Refused, WizardIInv
<1>14. CASE \/ W!DiscoverClick \/ W!ImportClick \/ W!createMap \/ W!deleteMap
            \/ W!ihCreateLpar \/ W!CloseDialog \/ \E v \in Inputs : W!Parse(v)
  <2>1. /\ step' = step /\ env' = env /\ written' = written /\ setup' = setup
        /\ hasty' = hasty /\ intruded' = intruded /\ lost' = lost
        /\ (buttons' = FALSE \/ buttons' = buttons) /\ calls \subseteq calls'
    BY <1>14 DEF W!DiscoverClick, W!ImportClick, W!createMap, W!deleteMap, W!ihCreateLpar,
                 W!CloseDialog, W!Parse
  <2>2. \A c \in calls' \ calls :
            c.files = {} /\ c.what \in {"discover", "mkvm"} \cup {W!Steps[step]}
    BY <1>14 DEF W!DiscoverClick, W!ImportClick, W!createMap, W!deleteMap, W!ihCreateLpar,
                 W!CloseDialog, W!Parse, W!Ask, W!Mkvm, W!Upload
  <2>3. W!Steps[step] \notin WaitedFor \cup {"write"}
    BY <1>2 DEF W!Steps, WaitedFor, W!Updates, W!FrameCommands, W!CecCommands
  <2>4. {"discover", "mkvm"} \cap (WaitedFor \cup {"write"}) = {}
    BY DEF WaitedFor, W!Updates, W!FrameCommands, W!CecCommands
  <2>5. \A c \in calls' \ calls : c.files = {} /\ c.what \notin WaitedFor \cup {"write"}
    BY <2>2, <2>3, <2>4
  <2>6. hasty' \in BOOLEAN /\ intruded' \in BOOLEAN /\ lost' \in BOOLEAN
    BY <2>1, Zenon DEF WizardIInv
  <2>7. buttons' \in BOOLEAN /\ (buttons' => buttons)
    <3>1. CASE buttons' = FALSE
      BY <3>1
    <3>2. CASE buttons' = buttons
      <4>1. buttons \in BOOLEAN
        BY DEF WizardIInv
      <4>. QED  BY <3>2, <4>1, Zenon
    <3>. QED  BY <2>1, <3>1, <3>2
  <2>8. /\ env' = [f \in W!Fields |-> env'[f]] /\ \A f \in W!Fields : env'[f] = env[f]
        /\ calls \ calls' = {}
    BY <1>2, <2>1
  <2>. QED  BY <2>1, <2>5, <2>6, <2>8, <2>7, StayInv
\* Answers
<1>15. ASSUME W!TabdumpAnswered PROVE WizardIInv'
  <2>1. /\ step' = step /\ written' = written /\ setup' = setup /\ buttons' = TRUE
        /\ hasty' = hasty /\ lost' = lost /\ intruded' = (intruded \/ ~W!At("site"))
        /\ env' = W!Entered("site", {}) /\ calls' = calls \ {W!Ask("tabdump")}
    BY <1>15 DEF W!TabdumpAnswered, W!Answered
  <2>2. intruded' \in BOOLEAN /\ (~intruded' => ~intruded /\ W!At("site"))
    BY <2>1, Zenon DEF WizardIInv
  <2>3. env' = [f \in W!Fields |-> env'[f]]
    BY <1>2, <2>1 DEF W!Entered
  <2>4. W!Ask("tabdump").files = {} /\ W!Ask("tabdump").what = "tabdump"
    BY DEF W!Ask
  <2>5. \A c \in calls' : Shaped(c)
    BY <2>1 DEF WizardIInv
  <2>6. CASE ~W!At("site")
    BY <1>2, <2>1, <2>2, <2>3, <2>5, <2>6 DEF WizardIInv
  <2>7. CASE W!At("site")
    <3>1. step = 4 /\ \A f \in W!Fields : PageOf[f] # step => env'[f] = env[f]
      BY <1>4, <1>5, <2>1, <2>7 DEF W!Fields, PageOf
    <3>2. ~hasty /\ ~intruded /\ ~lost => \A c \in calls : c.what \notin WaitedFor
      BY <3>1 DEF WizardIInv, Kept, OneCommand, WaitedFor
    <3>. QED  BY <2>1, <2>2, <2>3, <2>4, <3>1, <3>2, StayInv DEF WizardIInv
  <2>. QED  BY <2>6, <2>7
<1>16. ASSUME NEW fits \in BOOLEAN, W!discoverFrame(fits) PROVE WizardIInv'
  <2>1. /\ step' = step /\ env' = env /\ written' = written /\ setup' = setup /\ buttons' = TRUE
        /\ hasty' = hasty /\ lost' = lost /\ intruded' = (intruded \/ W!Working)
        /\ calls' = calls \ {W!Ask("discover")}
    BY <1>16 DEF W!discoverFrame, W!Answered
  <2>2. intruded' \in BOOLEAN /\ (~intruded' => ~intruded /\ ~W!Working)
    BY <2>1, Zenon DEF WizardIInv
  <2>3. W!Ask("discover").files = {} /\ W!Ask("discover").what = "discover"
    BY DEF W!Ask
  <2>. QED  BY <1>2, <2>1, <2>2, <2>3, StayInv DEF WizardIInv, W!Working, WaitedFor
<1>26. CASE W!EmptyDiscovery
  <2>1. /\ step' = step /\ env' = env /\ written' = written /\ setup' = setup
        /\ UNCHANGED <<buttons, hasty, intruded, lost>>
        /\ calls' = calls \ {W!Ask("discover")}
    BY <1>26 DEF W!EmptyDiscovery, W!Answered
  <2>2. W!Ask("discover").files = {} /\ W!Ask("discover").what = "discover"
    BY DEF W!Ask
  <2>3. /\ buttons' \in BOOLEAN /\ hasty' \in BOOLEAN /\ intruded' \in BOOLEAN
        /\ lost' \in BOOLEAN
    BY <2>1 DEF WizardIInv
  <2>. QED  BY <1>2, <2>1, <2>2, <2>3, StayInv
<1>17. ASSUME NEW c \in calls, W!parseMtmsMap(c) PROVE WizardIInv'
  <2>1. PICK complete :
          /\ buttons' = (buttons \/ complete)
          /\ intruded' = (intruded \/ (complete /\ W!Working))
    BY <1>17, Zenon DEF W!parseMtmsMap
  <2>2. /\ step' = step /\ env' = env /\ written' = written /\ setup' = setup
        /\ hasty' = hasty /\ lost' = lost /\ calls' = calls \ {c} /\ c.what \in W!Maps
    BY <1>17 DEF W!parseMtmsMap, W!Answered
  <2>3. /\ buttons' \in BOOLEAN /\ intruded' \in BOOLEAN /\ (~intruded' => ~intruded)
        /\ buttons' => buttons \/ ~W!Working \/ intruded'
    BY <2>1, Zenon DEF WizardIInv
  <2>4. c.files = {}
    BY <2>2 DEF WizardIInv, Shaped, W!Maps
  <2>. QED  BY <1>2, <2>2, <2>3, <2>4, StayInv DEF WizardIInv, W!Working, WaitedFor, W!Maps
<1>18. ASSUME NEW c \in calls, W!WriteDone(c) PROVE WizardIInv'
  <2>1. /\ step' = step /\ env' = env /\ setup' = setup /\ buttons' = buttons
        /\ hasty' = hasty /\ intruded' = intruded /\ lost' = lost
        /\ calls' = calls \ {c} /\ c.what = "write"
        /\ \A f \in W!Files : written'[f] = IF f \in c.files THEN c.of[Source(f)] ELSE written[f]
    BY <1>18 DEF W!WriteDone, W!Answered, W!Written, Source
  <2>2. PICK g \in Early : c.files = {g}
    BY <2>1 DEF WizardIInv, Shaped
  <2>3. ASSUME Kept PROVE Kept'
    <3>1. OneWriter' /\ OneCommand'
      BY <2>1, <2>3 DEF Kept, OneWriter, OneCommand
    <3>2. EarlySaved'
      <4>1. SUFFICES ASSUME NEW f \in Early, step > PageOf[f]
            PROVE  /\ \A d \in calls' : f \in d.files => d.of[Source(f)] = env[Source(f)]
                   /\ (\A d \in calls' : f \notin d.files) => written'[f] = env[Source(f)]
        BY <2>1 DEF EarlySaved
      <4>2. /\ \A d \in calls : f \in d.files => d.of[Source(f)] = env[Source(f)]
            /\ (\A d \in calls : f \notin d.files) => written[f] = env[Source(f)]
        BY <2>3, <4>1 DEF Kept, EarlySaved
      <4>3. f \in W!Files
        BY DEF Early, W!Files, W!Fields, W!Maps
      <4>. QED  BY <2>1, <4>2, <4>3
    <3>3. \A f \in {"basic", "site"} : f \in W!Files /\ written'[f] = written[f]
      BY <2>1, <2>2 DEF Early, W!Files, W!Fields
    <3>4. ConfSaved'
      BY <2>1, <2>3, <3>3 DEF Kept, ConfSaved
    <3>5. SetUp'
      BY <2>1, <2>3 DEF Kept, SetUp
    <3>. QED  BY <3>1, <3>2, <3>4, <3>5 DEF Kept
  <2>. QED  BY <1>2, <2>1, <2>3, Zenon DEF WizardIInv
<1>19. ASSUME NEW c \in calls, W!createSetupFile(c) PROVE WizardIInv'
  <2> DEFINE x == W!Ask("xcatsetup")
  <2>1. /\ step' = step /\ env' = env /\ setup' = setup /\ buttons' = buttons
        /\ hasty' = hasty /\ intruded' = intruded /\ lost' = lost
        /\ calls' = (calls \ {c}) \cup {x} /\ c.what = "conf"
        /\ \A f \in W!Files : written'[f] = IF f \in c.files THEN c.of[Source(f)] ELSE written[f]
    BY <1>19 DEF W!createSetupFile, W!Written, Source
  <2>2. c.files = {"basic", "site"}
    BY <2>1 DEF WizardIInv, Shaped
  <2>3. x.what = "xcatsetup" /\ x.files = {}
    BY DEF W!Ask
  <2>. HIDE DEF x
  <2>4. ASSUME Kept PROVE Kept'
    <3>1. \A d \in calls : d.what \in WaitedFor => d = c
      BY <2>1, <2>4 DEF Kept, OneCommand, WaitedFor
    <3>2. step = 8 /\ ~buttons
      BY <2>1, <2>4 DEF Kept, OneCommand, WaitedFor
    <3>3. \A d \in calls' : d.what \in WaitedFor => d = x
      BY <2>1, <3>1
    <3>4. OneWriter'
      BY <2>1, <2>3, <2>4 DEF Kept, OneWriter
    <3>5. "xcatsetup" \notin W!Updates
      BY DEF W!Updates, W!FrameCommands, W!CecCommands
    <3>6. OneCommand'
      BY <2>1, <2>3, <3>2, <3>3, <3>5 DEF OneCommand, WaitedFor
    <3>7. EarlySaved'
      <4>1. SUFFICES ASSUME NEW f \in Early, step > PageOf[f]
            PROVE  /\ \A d \in calls' : f \in d.files => d.of[Source(f)] = env[Source(f)]
                   /\ (\A d \in calls' : f \notin d.files) => written'[f] = env[Source(f)]
        BY <2>1 DEF EarlySaved
      <4>2. /\ \A d \in calls : f \in d.files => d.of[Source(f)] = env[Source(f)]
            /\ (\A d \in calls : f \notin d.files) => written[f] = env[Source(f)]
        BY <2>4, <4>1 DEF Kept, EarlySaved
      <4>3. f \in W!Files /\ f \notin c.files
        BY <2>2 DEF Early, W!Files, W!Fields, W!Maps
      <4>. QED  BY <2>1, <2>3, <4>2, <4>3
    <3>8. \A f \in {"basic", "site"} : written'[f] = env[f]
      BY <2>1, <2>2, <2>4 DEF Kept, ConfSaved, Source, W!Files, W!Fields
    <3>9. \A d \in calls' : d.what # "conf"
      BY <2>3, <3>3 DEF WaitedFor
    <3>10. ConfSaved'
      BY <2>1, <3>8, <3>9 DEF ConfSaved
    <3>11. SetUp'
      BY <2>1, <2>3 DEF SetUp
    <3>. QED  BY <3>4, <3>6, <3>7, <3>10, <3>11 DEF Kept
  <2>5. \A d \in calls' : Shaped(d)
    BY <2>1, <2>3 DEF WizardIInv, Shaped
  <2>. QED  BY <1>2, <2>1, <2>4, <2>5, Zenon DEF WizardIInv
<1>20. CASE W!runSetup
  <2> DEFINE x == W!Ask("xcatsetup")
  <2>1. /\ step' = step /\ env' = env /\ written' = written /\ setup' = written /\ buttons' = TRUE
        /\ hasty' = (hasty \/ \E c \in calls : c.files # {})
        /\ intruded' = intruded /\ lost' = lost
        /\ x \in calls /\ calls' = calls \ {x}
    BY <1>20 DEF W!runSetup, W!Answered
  <2>2. hasty' \in BOOLEAN /\ (~hasty' => ~hasty /\ \A c \in calls : c.files = {})
    BY <2>1, Zenon DEF WizardIInv
  <2>3. x.what = "xcatsetup" /\ x.files = {}
    BY DEF W!Ask
  <2>. HIDE DEF x
  <2>4. ASSUME Kept, \A c \in calls : c.files = {} PROVE Kept'
    <3>1. \A d \in calls' : d.what \notin WaitedFor
      BY <2>1, <2>3, <2>4 DEF Kept, OneCommand, WaitedFor
    <3>2. step = 8
      BY <2>1, <2>3, <2>4 DEF Kept, OneCommand, WaitedFor
    <3>3. \A f \in Early : written[f] = env[Source(f)]
      BY <2>4, <3>2 DEF Kept, EarlySaved, Early, PageOf
    <3>4. \A f \in {"basic", "site"} : written[f] = env[Source(f)]
      BY <2>1, <2>3, <2>4 DEF Kept, ConfSaved, Source
    <3>5. SetUp'
      BY <2>1, <3>3, <3>4 DEF SetUp, Early, W!Files, W!Fields, W!Maps
    <3>6. EarlySaved'
      BY <2>1, <2>4, <3>3 DEF EarlySaved
    <3>7. OneWriter' /\ OneCommand' /\ ConfSaved'
      BY <2>1, <2>4, <3>1 DEF OneWriter, OneCommand, ConfSaved, WaitedFor
    <3>. QED  BY <3>5, <3>6, <3>7 DEF Kept
  <2>. QED  BY <1>2, <2>1, <2>2, <2>4, Zenon DEF WizardIInv
<1>21. ASSUME NEW cmd \in W!Updates, NEW next \in W!Updates, W!Follow(cmd, next)
       PROVE  WizardIInv'
  <2>1. /\ step' = step /\ env' = env /\ written' = written /\ setup' = setup /\ buttons' = buttons
        /\ hasty' = hasty /\ intruded' = intruded /\ lost' = lost
        /\ W!Ask(cmd) \in calls
        /\ \/ calls' = calls \ {W!Ask(cmd)}
           \/ calls' = (calls \ {W!Ask(cmd)}) \cup {W!Ask(next)}
    BY <1>21 DEF W!Follow
  <2>2. \A u \in {cmd, next} : W!Ask(u).what = u /\ W!Ask(u).files = {}
    BY DEF W!Ask
  <2>3. \A u \in {cmd, next} : u \notin {"conf", "xcatsetup", "write"}
    BY DEF W!Updates, W!FrameCommands, W!CecCommands
  <2>4. ASSUME Kept PROVE Kept'
    <3>1. /\ \A d \in calls : d.what \in WaitedFor => d = W!Ask(cmd)
          /\ step = 9 /\ ~buttons
      BY <2>1, <2>2, <2>4 DEF Kept, OneCommand, WaitedFor
    <3>2. \A d \in calls' : d.what \in WaitedFor => d = W!Ask(next)
      BY <2>1, <3>1
    <3>3. OneCommand'
      BY <2>1, <2>2, <2>3, <3>1, <3>2 DEF OneCommand, WaitedFor
    <3>4. OneWriter'
      BY <2>1, <2>2, <2>4 DEF Kept, OneWriter
    <3>5. EarlySaved'
      BY <2>1, <2>2, <2>4 DEF Kept, EarlySaved
    <3>6. \A d \in calls' : d.what \notin {"conf", "xcatsetup"}
      BY <2>2, <2>3, <3>2 DEF WaitedFor
    <3>7. ConfSaved'
      BY <3>6 DEF ConfSaved
    <3>8. SetUp'
      <4>1. \A d \in calls : d.what \notin {"conf", "xcatsetup"}
        BY <2>2, <2>3, <3>1 DEF WaitedFor
      <4>. QED  BY <2>1, <2>4, <3>1, <4>1 DEF Kept, SetUp
    <3>. QED  BY <3>3, <3>4, <3>5, <3>7, <3>8 DEF Kept
  <2>5. \A d \in calls' : Shaped(d)
    BY <2>1, <2>2, <2>3 DEF WizardIInv, Shaped
  <2>. QED  BY <1>2, <2>1, <2>4, <2>5, Zenon DEF WizardIInv
<1>22. CASE W!FramesUpdated \/ W!CecsUpdated
  <2>1. CASE \E cmd, next \in W!Updates : W!Follow(cmd, next)
    BY <1>21, <2>1
  <2>2. CASE \/ /\ W!Answered(W!Ask(W!CecCommands[4]))
                /\ buttons' = TRUE
                /\ UNCHANGED <<step, turns, pane, env, rows, written, setup, lpars, acts, hasty,
                               intruded, lost>>
    <3> DEFINE x == W!Ask(W!CecCommands[4])
    <3>1. x.what \in W!Updates /\ x.what \notin {"conf", "xcatsetup"} /\ x.files = {}
      BY DEF W!Ask, W!CecCommands, W!Updates
    <3>2. x \in calls /\ calls' = calls \ {x}
      BY <2>2 DEF W!Answered
    <3>. HIDE DEF x
    <3>3. ~hasty /\ ~intruded /\ ~lost => \A c \in calls' : c.what \notin WaitedFor
      BY <3>1, <3>2 DEF WizardIInv, Kept, OneCommand, WaitedFor
    <3>. QED  BY <1>2, <2>2, <3>1, <3>2, <3>3, StayInv DEF WizardIInv
  <2>3. (\E cmd, next \in W!Updates : W!Follow(cmd, next)) \/
        /\ W!Answered(W!Ask(W!CecCommands[4]))
        /\ buttons' = TRUE
        /\ UNCHANGED <<step, turns, pane, env, rows, written, setup, lpars, acts, hasty,
                       intruded, lost>>
    <3>1. /\ \A i \in 1..5 : W!FrameCommands[i] \in W!Updates
          /\ \A i \in 1..4 : W!CecCommands[i] \in W!Updates
      BY DEF W!Updates
    <3>. QED  BY <1>22, <3>1 DEF W!FramesUpdated, W!CecsUpdated
  <2>. QED  BY <2>1, <2>2, <2>3
<1>23. ASSUME NEW n \in 1..Drawers, W!updateCreateLparDia(n) PROVE WizardIInv'
  BY <1>2, <1>23, StayInv DEF W!updateCreateLparDia, W!Answered, W!Mkvm, WizardIInv
<1>24. ASSUME NEW c \in calls, W!Lose(c) PROVE WizardIInv'
  BY <1>24, Zenon DEF W!Lose, W!Answered, WizardIInv, Shaped
<1>25. CASE UNCHANGED W!vars
  BY <1>2, <1>25, StayInv DEF W!vars, WizardIInv
<1>. QED
  BY <1>6, <1>7, <1>9, <1>10, <1>11, <1>12, <1>13, <1>14, <1>15, <1>16, <1>17, <1>18, <1>19,
     <1>20, <1>22, <1>23, <1>24, <1>25, <1>26
     DEF W!Next, W!User, W!Answer

\* The update of the definitions runs on a set-up of what the pages hold, for any
\* number of values, turns and requests: if every file was written before it was used
\* or written again, no request got lost and no late answer intruded.
THEOREM SetUpAsEntered == Spec => []UpdateAsEntered
<1>1. Init => (page = "wizard" => WizardIInv)
  BY WizardInit DEF Init
<1>2. (page = "wizard" => WizardIInv) /\ [Next]_vars => (page = "wizard" => WizardIInv)'
  BY SamePage, WizardPage, WizardStep
<1>3. WizardIInv => W!UpdateAsEntered
  <2>1. SUFFICES ASSUME WizardIInv, NEW c \in calls, c.what \in W!Updates,
                        ~hasty, ~intruded, ~lost
        PROVE  \A f \in W!Files : setup[f] = env[Source(f)]
    BY DEF W!UpdateAsEntered, Source, W!Files, W!Fields, W!Maps
  <2>2. Kept
    BY <2>1 DEF WizardIInv
  <2>3. c.what \notin {"conf", "xcatsetup"}
    BY <2>1 DEF W!Updates, W!FrameCommands, W!CecCommands
  <2>4. step = 9 /\ \A d \in calls : d.what \in WaitedFor => d = c
    BY <2>1, <2>2 DEF Kept, OneCommand, WaitedFor
  <2>. QED  BY <2>2, <2>3, <2>4 DEF Kept, SetUp, WaitedFor
<1>. QED  BY <1>1, <1>2, <1>3, PTL DEF Spec, UpdateAsEntered

---------------------------------------------------------------------------------
(* Types of the pages. An answer to a request is of a type if the request was, so *)
(* each invariant says of the requests in flight what their answers need.      *)

LEMMA RangeTypesInit == C!Init => C!TypeOK
<1> SUFFICES ASSUME C!Init PROVE C!TypeOK
  OBVIOUS
<1>1. 0 \in 0..MaxNode
  BY BoundsOK
<1>2. loader \in BOOLEAN /\ lost \in BOOLEAN
  BY Zenon DEF C!Init
<1>. QED  BY <1>1, <1>2 DEF C!Init, C!TypeOK

LEMMA RangeTypes == C!TypeOK /\ [C!Next]_(C!vars) => C!TypeOK'
<1> SUFFICES ASSUME C!TypeOK, [C!Next]_(C!vars) PROVE C!TypeOK'
  OBVIOUS
<1> DEFINE Flags == loader \in BOOLEAN /\ lost \in BOOLEAN
           Ready == /\ kind \in {"clone", "add"} /\ builtin \in BOOLEAN
                    /\ stage \in {"edit", "run", "closed"}
                    /\ first \in 0..MaxNode /\ last \in 0..MaxNode
                    /\ calls \subseteq C!Calls
<1>0. (Flags' /\ Ready' => C!TypeOK') /\ Flags /\ Ready
  BY DEF C!TypeOK
<1>1. ASSUME NEW node \in C!Fields, NEW userId \in C!Fields, C!Submit(node, userId)
      PROVE  Flags' /\ Ready'
  <2>1. /\ node.first \in C!Nodes /\ node.last \in C!Nodes
        /\ MaxNode \in Nat
    BY BoundsOK DEF C!Fields
  <2>2. first' \in C!Nodes /\ last' \in C!Nodes
    BY <1>1, <2>1 DEF C!Submit
  <2>3. first'..last' \subseteq C!Nodes
    BY <2>1, <2>2 DEF C!Nodes
  <2>4. calls' \subseteq C!Calls
    BY <1>1, <2>3 DEF C!Submit, C!Calls
  <2>5. first' \in 0..MaxNode /\ last' \in 0..MaxNode
    BY <2>1, <2>2 DEF C!Nodes
  <2>6. Flags'
    BY <1>0, <1>1, Zenon DEF C!Submit
  <2>. QED  BY <1>0, <1>1, <2>4, <2>5, <2>6 DEF C!Submit
<1>2. ASSUME NEW n \in C!Nodes, NEW rsp \in C!Answers,
                C!CloneNodeadd(n, rsp) \/ C!AddNodeadd(n, rsp)
      PROVE  Flags' /\ Ready'
  <2>1. /\ calls' \subseteq calls \cup {C!Cmd("makehosts")}
        /\ UNCHANGED <<kind, builtin, stage, first, last>>
    BY <1>2 DEF C!CloneNodeadd, C!AddNodeadd
  <2>2. Flags'
    BY <1>0, <1>2, Zenon DEF C!CloneNodeadd, C!AddNodeadd
  <2>3. C!Cmd("makehosts") \in C!Calls
    BY DEF C!Calls, C!Commands
  <2>. QED  BY <1>0, <2>1, <2>2, <2>3
<1>3. CASE C!AddNodeClose \/ C!Mkvm \/ \E c \in C!Calls : C!Lose(c)
  <2>1. /\ calls' \subseteq calls /\ stage' \in {stage, "closed"}
        /\ UNCHANGED <<kind, builtin, first, last>>
    BY <1>3 DEF C!AddNodeClose, C!Mkvm, C!Lose
  <2>2. Flags'
    BY <1>0, <1>3, Zenon DEF C!AddNodeClose, C!Mkvm, C!Lose
  <2>. QED  BY <1>0, <2>1, <2>2
<1>4. ASSUME NEW rsp \in C!Answers, C!Makehosts(rsp) \/ C!NamesKnown(rsp)
      PROVE  Flags' /\ Ready'
  <2>1. /\ calls' \subseteq calls \cup {C!Cmd("makedns"), C!Cmd("mkvm")}
        /\ UNCHANGED <<kind, builtin, stage, first, last>>
    BY <1>4 DEF C!Makehosts, C!NamesKnown
  <2>2. {C!Cmd("makedns"), C!Cmd("mkvm")} \subseteq C!Calls
    BY DEF C!Calls, C!Commands
  <2>3. Flags'
    BY <1>0, <1>4, Zenon DEF C!Makehosts, C!NamesKnown
  <2>. QED  BY <1>0, <2>1, <2>2, <2>3
<1>5. CASE UNCHANGED C!vars
  BY <1>0, <1>5 DEF C!vars
<1>. HIDE DEF Flags, Ready
<1>. QED
  BY <1>0, <1>1, <1>2, <1>3, <1>4, <1>5 DEF C!Next, C!Answer, C!CloneClick, C!AddNodeOk

LEMMA ExistingTypesInit == R!Init => R!TypeOK
<1> SUFFICES ASSUME R!Init PROVE R!TypeOK
  OBVIOUS
<1>1. os \in BOOLEAN /\ loader \in BOOLEAN /\ replaced \in BOOLEAN /\ lost \in BOOLEAN
  BY Zenon DEF R!Init
<1>. QED  BY <1>1 DEF R!Init, R!TypeOK, R!Picks

LEMMA ExistingTypes == R!TypeOK /\ [R!Next]_(R!vars) => R!TypeOK'
<1> SUFFICES ASSUME R!TypeOK, [R!Next]_(R!vars) PROVE R!TypeOK'
  OBVIOUS
<1> DEFINE Flags == os \in BOOLEAN /\ loader \in BOOLEAN /\ replaced \in BOOLEAN /\ lost \in BOOLEAN
           Page == /\ stage \in {"edit", "run"} /\ table \in Groups \cup {NoGroup}
                   /\ drawn \subseteq Nodes /\ enabled \subseteq Nodes /\ checked \subseteq Nodes
           Sent == calls \subseteq R!Calls /\ tgts \in [R!Steps -> R!Picks]
<1>0. /\ Flags' /\ Page' /\ Sent' => R!TypeOK'
      /\ Flags /\ Page /\ Sent
      /\ \A g \in Groups : Members[g] \subseteq Nodes
  BY DEF R!TypeOK, Members, Nodes
<1>1. Flags'
  <2>1. CASE R!TurnPage \/ \E n \in Nodes : R!Check(n)
    BY <1>0, <2>1, Zenon DEF R!TurnPage, R!Check
  <2>2. CASE \/ \E g \in Groups : R!SelectGroup(g)
             \/ R!SelectOs \/ R!ClickProvision \/ \E c \in R!Calls : R!Lose(c)
    BY <1>0, <2>2, Zenon DEF R!SelectGroup, R!SelectOs, R!ClickProvision, R!Lose
  <2>3. CASE R!Answer
    BY <1>0, <2>3, Zenon DEF R!Answer, R!TableAnswered, R!NodeaddAnswered, R!NodesetAnswered,
                             R!RnetbootAnswered
  <2>4. CASE UNCHANGED R!vars
    BY <1>0, <2>4 DEF R!vars
  <2>. QED  BY <2>1, <2>2, <2>3, <2>4 DEF R!Next
<1>2. ASSUME NEW g \in Groups, R!SelectGroup(g) \/ R!TableAnswered(g) PROVE Page' /\ Sent'
  <2>1. /\ calls' \subseteq calls \cup {R!Lsdef(g)} /\ tgts' = tgts /\ stage' = stage
        /\ table' \in {table, g}
    BY <1>2 DEF R!SelectGroup, R!TableAnswered
  <2>2. drawn' \subseteq drawn \cup Members[g] /\ enabled' \subseteq enabled \cup Members[g]
        /\ checked' \subseteq checked
    BY <1>2 DEF R!SelectGroup, R!TableAnswered, R!FirstPages, R!Pages
  <2>. QED  BY <1>0, <2>1, <2>2 DEF R!Calls
<1>3. CASE R!TurnPage
  <2>1. table \in Groups /\ drawn' \subseteq Members[table]
    BY <1>0, <1>3 DEF R!TurnPage, R!Pages
  <2>. QED  BY <1>0, <1>3, <2>1 DEF R!TurnPage
<1>4. ASSUME NEW n \in Nodes, R!Check(n) PROVE Page' /\ Sent'
  BY <1>0, <1>4 DEF R!Check
<1>5. ASSUME NEW c \in R!Steps, R!Post(c) PROVE Sent'
  <2>1. [rows |-> drawn, of |-> checked \cap drawn] \in R!Picks
    BY <1>0 DEF R!Picks
  <2>. QED  BY <1>0, <1>5, <2>1 DEF R!Post, R!Calls, R!getNodesChecked
<1>6. CASE \/ R!SelectOs \/ R!RnetbootAnswered \/ UNCHANGED R!vars
           \/ \E c \in R!Calls : R!Lose(c)
  BY <1>0, <1>6 DEF R!SelectOs, R!RnetbootAnswered, R!Lose, R!vars
<1>7. ASSUME \/ R!ClickProvision \/ R!NodeaddAnswered
             \/ \E rsp \in R!Answers : R!NodesetAnswered(rsp)
      PROVE  Page' /\ Sent'
  <2>1. Page'
    BY <1>0, <1>7 DEF R!ClickProvision, R!NodeaddAnswered, R!NodesetAnswered
  <2>2. CASE R!Post("nodeadd") \/ R!Post("nodeset") \/ R!Post("rnetboot")
    BY <1>5, <2>1, <2>2 DEF R!Steps
  <2>3. CASE ~(R!Post("nodeadd") \/ R!Post("nodeset") \/ R!Post("rnetboot"))
    <3>1. calls' \subseteq calls /\ tgts' = tgts
      BY <1>7, <2>3 DEF R!ClickProvision, R!NodeaddAnswered, R!NodesetAnswered
    <3>. QED  BY <1>0, <2>1, <3>1
  <2>. QED  BY <2>2, <2>3
<1>. HIDE DEF Flags, Page, Sent
<1>. QED  BY <1>0, <1>1, <1>2, <1>3, <1>4, <1>6, <1>7 DEF R!Next, R!Answer

\* A dialog that is open has a number.
DialogTypes ==
    /\ D!TypeOK
    /\ dialog.kind # "none" => dialog.number # 0

LEMMA DialogTypesInit == D!Init => DialogTypes
<1>1. 0 \in 0..MaxOpen
  BY BoundsOK
<1>2. D!Init => hasty \in BOOLEAN
  BY Zenon DEF D!Init
<1>. QED  BY <1>1, <1>2 DEF D!Init, D!NoDialog, DialogTypes, D!TypeOK

LEMMA DialogTypesStep == DialogTypes /\ [D!Next]_(D!vars) => DialogTypes'
<1> SUFFICES ASSUME DialogTypes, [D!Next]_(D!vars) PROVE DialogTypes'
  OBVIOUS
<1> DEFINE Requests == [kind : D!Kinds \cup {D!Confirm}, number : 1..MaxOpen, system : HCPs]
           Shapes == [kind : D!Kinds \cup {D!Confirm, "none"}, number : 0..MaxOpen,
                      submit : BOOLEAN]
<1>0. /\ dialog \in Shapes /\ opened \in 0..MaxOpen /\ calls \cup shown \subseteq Requests
      /\ dialog.kind # "none" => dialog.number # 0
      /\ hasty \in BOOLEAN
      /\ MaxOpen \in Nat /\ D!NoDialog \in Shapes /\ "none" \notin D!Kinds \cup {D!Confirm}
  BY BoundsOK DEF DialogTypes, D!TypeOK, D!NoDialog, D!Kinds, D!Confirm
<1>8. hasty' \in BOOLEAN
  <2>1. CASE D!Close
    BY <1>0, <2>1, Zenon DEF D!Close
  <2>2. CASE hasty' = hasty
    BY <1>0, <2>2
  <2>3. D!Close \/ hasty' = hasty
    BY DEF D!Next, D!vars, D!Open, D!Submit, D!AddEckd2System, D!AddVolume2System,
           D!RemoveVolumeFromSystem, D!AddPageSpool, D!ShareDisk, D!AddScsi2System, D!RemoveScsi,
           D!RemoveDiskFromPool, D!AddDisk2Pool, D!RemoveZfcpFromPool, D!AddZfcp2Pool,
           D!AddVswitchVlan, D!RemoveVswitchVlan, D!updateResourceDialog, D!NetworkRemoved,
           D!Lose
  <2>. QED  BY <2>1, <2>2, <2>3
<1>1. ASSUME dialog' \in Shapes, opened' \in 0..MaxOpen, calls' \cup shown' \subseteq Requests,
             dialog'.kind # "none" => dialog'.number # 0
      PROVE  DialogTypes'
  BY <1>1, <1>8 DEF DialogTypes, D!TypeOK
<1>2. ASSUME NEW k \in D!Kinds \cup {D!Confirm}, D!Open(k) PROVE DialogTypes'
  <2>1. dialog' = [kind |-> k, number |-> opened + 1, submit |-> TRUE] /\ opened' = opened + 1
        /\ opened + 1 \in 1..MaxOpen
    BY <1>0, <1>2 DEF D!Open
  <2>2. calls' \cup shown' \subseteq Requests
    BY <1>0, <1>2 DEF D!Open
  <2>. QED  BY <1>0, <1>1, <2>1, <2>2
<1>3. CASE D!Close \/ UNCHANGED D!vars
  <2>1. dialog' \in {dialog, D!NoDialog} /\ opened' = opened /\ calls' = calls
        /\ shown' \subseteq shown
    BY <1>3 DEF D!Close, D!vars
  <2>. QED  BY <1>0, <1>1, <2>1 DEF D!NoDialog
<1>4. ASSUME NEW k \in D!Kinds, NEW s \in HCPs, D!Submit(k, s) PROVE DialogTypes'
  <2>1. /\ dialog.kind = k /\ dialog' = [dialog EXCEPT !.submit = FALSE]
        /\ calls' = calls \cup {D!Request(k, dialog.number, s)}
        /\ UNCHANGED <<opened, shown>>
    BY <1>4 DEF D!Submit
  <2>2. D!Request(k, dialog.number, s) \in Requests
    BY <1>0, <2>1 DEF D!Request
  <2>3. /\ dialog' \in Shapes /\ dialog'.kind = dialog.kind /\ dialog'.number = dialog.number
    BY <1>0, <2>1
  <2>. QED  BY <1>0, <1>1, <2>1, <2>2, <2>3
<1>5. ASSUME NEW systems \in SUBSET HCPs, D!RemoveVswitchVlan(systems) PROVE DialogTypes'
  <2>1. /\ dialog.kind = D!Confirm /\ dialog' = D!NoDialog
        /\ calls' = calls \cup {D!Request(D!Confirm, dialog.number, s) : s \in systems}
        /\ UNCHANGED <<opened, shown>>
    BY <1>5 DEF D!RemoveVswitchVlan
  <2>2. \A s \in systems : D!Request(D!Confirm, dialog.number, s) \in Requests
    BY <1>0, <2>1 DEF D!Request
  <2>. QED  BY <1>0, <1>1, <2>1, <2>2 DEF D!NoDialog
<1>6. ASSUME NEW c \in calls, \/ D!updateResourceDialog(c) \/ D!NetworkRemoved(c) \/ D!Lose(c)
      PROVE  DialogTypes'
  <2>1. UNCHANGED <<dialog, opened>> /\ calls' \subseteq calls /\ shown' \subseteq shown \cup {c}
    BY <1>6 DEF D!updateResourceDialog, D!NetworkRemoved, D!Lose
  <2>. QED  BY <1>0, <1>1, <2>1
<1>7. ASSUME NEW s \in HCPs,
             \/ D!AddEckd2System(s) \/ D!AddVolume2System(s) \/ D!RemoveVolumeFromSystem(s)
             \/ D!AddPageSpool(s) \/ D!ShareDisk(s) \/ D!AddScsi2System(s) \/ D!RemoveScsi(s)
             \/ D!RemoveDiskFromPool(s) \/ D!AddDisk2Pool(s) \/ D!RemoveZfcpFromPool(s)
             \/ D!AddZfcp2Pool(s) \/ \E t, e : D!AddVswitchVlan(s, t, e)
      PROVE  DialogTypes'
  <2>1. \E k \in D!Kinds : D!Submit(k, s)
    BY <1>7 DEF D!AddEckd2System, D!AddVolume2System, D!RemoveVolumeFromSystem, D!AddPageSpool,
                D!ShareDisk, D!AddScsi2System, D!RemoveScsi, D!RemoveDiskFromPool,
                D!AddDisk2Pool, D!RemoveZfcpFromPool, D!AddZfcp2Pool, D!AddVswitchVlan, D!Kinds
  <2>. QED  BY <1>4, <2>1
<1>. QED  BY <1>2, <1>3, <1>5, <1>6, <1>7 DEF D!Next

\* The parts of the type invariant of the resources: flags, and what has a value.
TableFlags ==
    /\ asked \in BOOLEAN /\ loader \in BOOLEAN /\ table \in BOOLEAN /\ twice \in BOOLEAN
    /\ early \in BOOLEAN /\ failed \in BOOLEAN /\ lost \in BOOLEAN
TableValues ==
    /\ panel \in {"disk", "zfcp", "network"} /\ hcps \subseteq HCPs /\ gen \in 0..MaxRefresh
    /\ \A c \in calls : c.gen \in 0..gen /\ c.hcp \in hcps
    /\ rows \subseteq S!Rows /\ listed \in [0..MaxRefresh -> SUBSET S!Rows]

LEMMA ResourceTypesInit == S!Init => S!TypeOK
<1> SUFFICES ASSUME S!Init PROVE S!TypeOK
  OBVIOUS
<1>1. TableFlags
  BY Zenon DEF S!Init, TableFlags
<1>2. 0 \in 0..MaxRefresh
  BY BoundsOK
<1>. QED  BY <1>1, <1>2 DEF S!Init, S!TypeOK, TableFlags

\* What an answer with names does, and one without.
NamedRows(h, names, stats) == {S!Row(h, n, s) : n \in names, s \in stats}

LEMMA NamesGot ==
    ASSUME NEW g, NEW h, NEW names, NEW stats, S!NamesAnswered(g, h, names, "text", stats)
    PROVE  /\ S!NamesOf(g, h) \in calls
           /\ UNCHANGED <<panel, hcps, asked, gen, early, lost>>
           /\ UNCHANGED <<loader, table, rows, twice, failed>>
           /\ calls' = (calls \ {S!NamesOf(g, h)}) \cup
                            {S!Details(g, r) : r \in NamedRows(h, names, stats)}
           /\ listed' = [listed EXCEPT ![g] = @ \cup NamedRows(h, names, stats)]
  BY DEF S!NamesAnswered, NamedRows

LEMMA NoNames ==
    ASSUME NEW g, NEW h, NEW names, NEW stats, NEW rsp, rsp # "text",
           S!NamesAnswered(g, h, names, rsp, stats)
    PROVE  /\ S!NamesOf(g, h) \in calls
           /\ UNCHANGED <<panel, hcps, asked, gen, early, lost, listed>>
           /\ calls' = calls \ {S!NamesOf(g, h)} /\ failed' = TRUE
           /\ rows' = rows
           /\ S!Load({}) \/ UNCHANGED <<loader, table, twice>>
<1>1. /\ S!NamesOf(g, h) \in calls
      /\ UNCHANGED <<panel, hcps, asked, gen, early, lost, listed>>
      /\ calls' = calls \ {S!NamesOf(g, h)} /\ failed' = TRUE
      /\ IF panel = "network" THEN UNCHANGED <<loader, table, rows, twice>> ELSE S!Load({})
  BY DEF S!NamesAnswered
<1>2. CASE panel = "network"
  BY <1>1, <1>2
<1>3. CASE panel # "network"
  <2>1. S!Load({})
    BY <1>1, <1>3
  <2>2. rows' = rows
    BY <2>1 DEF S!Load
  <2>. QED  BY <1>1, <2>1, <2>2
<1>. QED  BY <1>2, <1>3

LEMMA ResourceTypesStep == S!TypeOK /\ [S!Next]_(S!vars) => S!TypeOK'
<1> SUFFICES ASSUME S!TypeOK, [S!Next]_(S!vars) PROVE S!TypeOK'
  OBVIOUS
<1>0. /\ TableFlags /\ TableValues /\ MaxRefresh \in Nat
      /\ TableFlags' /\ TableValues' => S!TypeOK'
  BY BoundsOK DEF TableFlags, TableValues, S!TypeOK
<1>1. ASSUME S!Next PROVE TableFlags'
  <2>. USE <1>0 DEF TableFlags
  <2>1. CASE S!getZResources \/ \E c \in calls : S!Lose(c)
    BY <2>1, Zenon DEF S!getZResources, S!Lose
  <2>2. CASE S!OpenPanel \/ S!Refresh
    BY <2>2, Zenon DEF S!OpenPanel, S!Refresh, S!Query
  <2>3. ASSUME NEW g, NEW h, NEW names, NEW rsp, NEW stats,
               S!NamesAnswered(g, h, names, rsp, stats)
        PROVE  TableFlags'
    <3>1. CASE rsp = "text"
      <4>1. UNCHANGED <<asked, early, lost, loader, table, rows, twice, failed>>
        BY <2>3, <3>1, NamesGot
      <4>. QED  BY <4>1
    <3>2. CASE rsp # "text"
      <4>1. /\ UNCHANGED <<asked, early, lost>> /\ failed' = TRUE
            /\ S!Load({}) \/ UNCHANGED <<loader, table, twice>>
        BY <2>3, <3>2, NoNames
      <4>. QED  BY <4>1, Zenon DEF S!Load
    <3>. QED  BY <3>1, <3>2
  <2>4. ASSUME NEW g, NEW r, NEW rsp, S!DetailsAnswered(g, r, rsp) \/ S!NoDetails(g, r)
        PROVE  TableFlags'
    BY <2>4, Zenon DEF S!DetailsAnswered, S!NoDetails, S!Load
  <2>5. CASE S!Answer
    BY <2>3, <2>4, <2>5 DEF S!Answer, S!getDiskPool, S!getZfcpPool, S!getNetwork,
                            S!loadDiskPoolTable, S!loadZfcpPoolTable, S!loadNetworkTable
  <2>. QED  BY <1>1, <2>1, <2>2, <2>5 DEF S!Next, S!RefreshDisks, S!RefreshZfcps, S!RefreshNetworks
<1>2. ASSUME NEW g \in 0..MaxRefresh, S!Query(g), g \in {gen, gen + 1}, gen' = g,
             UNCHANGED <<panel, hcps, listed>>, rows' \subseteq rows
      PROVE  TableValues'
  <2>1. calls' = calls \cup {S!NamesOf(g, h) : h \in hcps}
    BY <1>2 DEF S!Query
  <2>2. \A h \in hcps : S!NamesOf(g, h).gen = g /\ S!NamesOf(g, h).hcp = h
    BY DEF S!NamesOf
  <2>3. \A c \in calls' : c.gen \in 0..gen' /\ c.hcp \in hcps'
    BY <1>0, <1>2, <2>1, <2>2 DEF TableValues
  <2>. QED  BY <1>0, <1>2, <2>3 DEF TableValues
<1>3. ASSUME calls' \subseteq calls, rows' \subseteq S!Rows, UNCHANGED <<panel, hcps, gen, listed>>
      PROVE  TableValues'
  BY <1>0, <1>3 DEF TableValues
<1>4. CASE S!getZResources
  <2>1. hcps' \in SUBSET HCPs /\ hcps = {} /\ UNCHANGED <<panel, gen, calls, rows, listed>>
    BY <1>4 DEF S!getZResources
  <2>2. calls' = {}
    BY <1>0, <2>1 DEF TableValues
  <2>. QED  BY <1>0, <1>1, <1>4, <2>1, <2>2 DEF TableValues, S!Next
<1>5. CASE S!OpenPanel
  <2>1. TableValues'
    <3>1. S!Query(0) /\ UNCHANGED <<panel, hcps, gen, rows, listed>>
      BY <1>5 DEF S!OpenPanel
    <3>2. calls' = calls \cup {S!NamesOf(0, h) : h \in hcps}
      BY <3>1 DEF S!Query
    <3>3. \A h \in hcps : S!NamesOf(0, h).gen = 0 /\ S!NamesOf(0, h).hcp = h
      BY DEF S!NamesOf
    <3>4. \A c \in calls' : c.gen \in 0..gen' /\ c.hcp \in hcps'
      BY <1>0, <3>1, <3>2, <3>3 DEF TableValues
    <3>. QED  BY <1>0, <3>1, <3>4 DEF TableValues
  <2>. QED  BY <1>0, <1>1, <1>5, <2>1 DEF S!Next
<1>6. CASE S!RefreshDisks \/ S!RefreshZfcps \/ S!RefreshNetworks
  <2>1. /\ S!Query(gen + 1) /\ gen < MaxRefresh /\ gen' = gen + 1 /\ rows' = {}
        /\ UNCHANGED <<panel, hcps, listed>>
    BY <1>6 DEF S!RefreshDisks, S!RefreshZfcps, S!RefreshNetworks, S!Refresh
  <2>2. gen + 1 \in 0..MaxRefresh
    BY <1>0, <2>1 DEF TableValues
  <2>. QED  BY <1>0, <1>1, <1>2, <1>6, <2>1, <2>2 DEF S!Next
<1>7. ASSUME NEW g \in 0..MaxRefresh, NEW h \in HCPs, NEW names \in SUBSET Names, NEW rsp,
             NEW stats \in SUBSET S!Stats, S!NamesAnswered(g, h, names, rsp, stats)
      PROVE  TableValues'
  <2>1. CASE rsp # "text"
    BY <1>0, <1>3, <1>7, <2>1, NoNames DEF TableValues
  <2>2. CASE rsp = "text"
    <3> DEFINE new == NamedRows(h, names, stats)
    <3>0. /\ S!NamesOf(g, h) \in calls /\ UNCHANGED <<panel, hcps, gen, rows>>
          /\ calls' = (calls \ {S!NamesOf(g, h)}) \cup {S!Details(g, r) : r \in new}
          /\ listed' = [listed EXCEPT ![g] = @ \cup new]
      BY <1>7, <2>2, NamesGot
    <3>1. new \subseteq S!Rows /\ \A r \in new : r.hcp = h
      BY DEF NamedRows, S!Row, S!Rows
    <3>2. g \in 0..gen /\ h \in hcps
      BY <1>0, <3>0 DEF TableValues, S!NamesOf
    <3>3. \A r \in new : S!Details(g, r).gen = g /\ S!Details(g, r).hcp = h
      BY <3>1 DEF S!Details
    <3>. HIDE DEF new
    <3>4. \A c \in calls' : c.gen \in 0..gen' /\ c.hcp \in hcps'
      BY <1>0, <3>0, <3>2, <3>3 DEF TableValues
    <3>5. listed' \in [0..MaxRefresh -> SUBSET S!Rows]
      BY <1>0, <3>0, <3>1 DEF TableValues
    <3>. QED  BY <1>0, <3>0, <3>4, <3>5 DEF TableValues
  <2>. QED  BY <2>1, <2>2
<1>8. ASSUME NEW g, NEW r \in S!Rows, NEW rsp, S!DetailsAnswered(g, r, rsp) \/ S!NoDetails(g, r)
      PROVE  TableValues'
  <2>1. /\ calls' \subseteq calls /\ rows' \subseteq rows \cup {r}
        /\ UNCHANGED <<panel, hcps, gen, listed>>
    BY <1>8 DEF S!DetailsAnswered, S!NoDetails, S!Load
  <2>. QED  BY <1>0, <1>3, <2>1 DEF TableValues
<1>9. CASE S!Answer
  <2>1. TableValues'
    <3>1. {"used", "free"} \subseteq S!Stats /\ {"all"} \subseteq S!Stats
      BY DEF S!Stats
    <3>. QED  BY <1>7, <1>8, <1>9, <3>1 DEF S!Answer, S!getDiskPool, S!getZfcpPool, S!getNetwork,
                            S!loadDiskPoolTable, S!loadZfcpPoolTable, S!loadNetworkTable
  <2>. QED  BY <1>0, <1>1, <1>9, <2>1 DEF S!Next
<1>10. ASSUME NEW c \in calls, S!Lose(c) PROVE S!TypeOK'
  <2>1. calls' \subseteq calls /\ UNCHANGED <<panel, hcps, gen, rows, listed>>
    BY <1>10 DEF S!Lose
  <2>. QED  BY <1>0, <1>1, <1>3, <1>10, <2>1 DEF TableValues, S!Next
<1>11. CASE UNCHANGED S!vars
  <2>1. TableFlags'
    BY <1>0, <1>11 DEF S!vars, TableFlags
  <2>2. TableValues'
    BY <1>0, <1>11 DEF S!vars, TableValues
  <2>. QED  BY <1>0, <2>1, <2>2
<1>. QED  BY <1>4, <1>5, <1>6, <1>9, <1>10, <1>11 DEF S!Next

\* The types; a table that is drawn is one of a group, and the definitions asked for at
\* first are those of some nodes.
NodesRequests == [what : N!Contents \cup N!Commands, group : Groups,
                  nodes : SUBSET {n1, n2, n3}]
NodesTypes ==
    /\ N!TypeOK
    /\ area = "table" => table \in Groups
    /\ \A c \in calls : c.what = "lsdef" => c.nodes # {}

LEMMA NodesTypesInit == N!Init => NodesTypes
<1> SUFFICES ASSUME N!Init PROVE NodesTypes
  OBVIOUS
<1>1. /\ updating \in BOOLEAN /\ crossed \in BOOLEAN /\ upset \in BOOLEAN /\ lost \in BOOLEAN
  BY Zenon DEF N!Init
<1>2. 0 \in 0..MaxClicks
  BY BoundsOK
<1>. QED  BY <1>1, <1>2 DEF N!Init, NodesTypes, N!TypeOK

LEMMA RequestIs ==
    ASSUME NEW what \in N!Contents \cup N!Commands, NEW g \in Groups,
           NEW ns \in SUBSET {n1, n2, n3}
    PROVE  /\ N!Request(what, g, ns) \in NodesRequests
           /\ N!Request(what, g, ns).what = what /\ N!Request(what, g, ns).nodes = ns
  BY DEF N!Request, NodesRequests

LEMMA NodesTypesStep == NodesTypes /\ [N!Next]_(N!vars) => NodesTypes'
<1> SUFFICES ASSUME NodesTypes, [N!Next]_(N!vars) PROVE NodesTypes'
  OBVIOUS
<1> DEFINE Flags == /\ updating \in BOOLEAN /\ crossed \in BOOLEAN /\ upset \in BOOLEAN
                    /\ lost \in BOOLEAN
           Tabs == /\ acts \in 0..MaxClicks
                   /\ group \in Groups \cup {NoGroup}
                   /\ summary \in Groups \cup {"empty", "loader"}
                   /\ area \in {"empty", "loader", "table"}
           Data == /\ nodesList \subseteq {n1, n2, n3} /\ rows \subseteq {n1, n2, n3}
                   /\ known \subseteq rows
                   /\ table \in Groups \cup {NoGroup} /\ (area = "table" => table \in Groups)
           Asked == /\ calls \subseteq NodesRequests /\ loaders \subseteq N!Columns
                    /\ \A c \in calls : c.what = "lsdef" => c.nodes # {}
<1>0. /\ Flags /\ Tabs /\ Data /\ Asked /\ MaxClicks \in Nat
      /\ Flags' /\ Tabs' /\ Data' /\ Asked' => NodesTypes'
      /\ \A g \in Groups : Overlapping[g] \subseteq {n1, n2, n3}
  BY BoundsOK DEF NodesTypes, N!TypeOK, NodesRequests, Overlapping
<1>1. ASSUME N!Act PROVE acts' \in 0..MaxClicks
  BY <1>0, <1>1 DEF N!Act
<1>2. ASSUME NEW c, calls' \subseteq calls \cup {c}, c \in NodesRequests,
             c.what = "lsdef" => c.nodes # {}, loaders' \subseteq N!Columns
      PROVE  Asked'
  BY <1>0, <1>2
<1>3. ASSUME calls' \subseteq calls, loaders' \subseteq N!Columns
      PROVE  Asked'
  BY <1>0, <1>3
<1>4. ASSUME NEW g \in Groups, NEW view \in {"summary", "nodes"}, N!SelectGroup(g, view)
      PROVE  NodesTypes'
  <2>1. /\ group' = g /\ summary' \in {"loader", "empty"} /\ area' \in {"empty", "loader"}
        /\ calls' = calls \cup {N!Request(IF view = "summary" THEN "summary" ELSE "nodels", g, {})}
        /\ loaders' = {} /\ UNCHANGED <<nodesList, table, rows, known>>
    BY <1>4 DEF N!SelectGroup, N!Fill, N!data
  <2>2. Flags'
    BY <1>0, <1>4, Zenon DEF N!SelectGroup
  <2>3. Asked'
    BY <1>2, <2>1, RequestIs DEF N!Contents
  <2>. QED  BY <1>0, <1>1, <1>4, <2>1, <2>2, <2>3 DEF N!SelectGroup
<1>5. ASSUME NEW view \in {"summary", "nodes"}, N!SelectTab(view) PROVE NodesTypes'
  <2>1. /\ group \in Groups /\ UNCHANGED group /\ summary' \in {summary, "loader"}
        /\ area' \in {area, "loader"}
        /\ \/ calls' = calls \cup {N!Request("summary", group, {})}
           \/ calls' = calls \cup {N!Request("nodels", group, {})}
        /\ UNCHANGED <<nodesList, table, rows, known, updating, loaders, crossed, upset, lost>>
    BY <1>0, <1>5 DEF N!SelectTab, N!data, N!ends
  <2>3. Asked'
    BY <1>0, <1>2, <2>1, RequestIs DEF N!Contents
  <2>4. Flags'
    BY <1>0, <2>1
  <2>. QED  BY <1>0, <1>1, <1>5, <2>1, <2>3, <2>4 DEF N!SelectTab
<1>6. ASSUME NEW ns \in SUBSET {n1, n2, n3}, N!getNodeAttrs(ns) PROVE NodesTypes'
  <2>1. /\ area = "table" /\ calls' = calls \cup {N!Request("defs", table, ns \ known)}
        /\ updating' = TRUE
        /\ UNCHANGED <<group, summary, area, nodesList, table, rows, known, loaders, crossed,
                       upset, lost>>
    BY <1>6 DEF N!getNodeAttrs, N!data, N!tabs, N!ends
  <2>2. Asked'
    BY <1>0, <1>2, <2>1, RequestIs DEF N!Contents
  <2>3. Flags'
    BY <1>0, <2>1
  <2>. QED  BY <1>0, <1>1, <1>6, <2>1, <2>2, <2>3 DEF N!getNodeAttrs
<1>7. CASE N!CloseUpdating \/ UNCHANGED N!vars
  <2>1. /\ updating' \in {updating, FALSE}
        /\ UNCHANGED <<acts, group, summary, area, nodesList, table, rows, known, loaders, calls,
                       crossed, upset, lost>>
    BY <1>7 DEF N!CloseUpdating, N!vars, N!data, N!tabs, N!ends
  <2>2. Flags'
    BY <1>0, <2>1, Zenon
  <2>. QED  BY <1>0, <1>3, <2>1, <2>2
<1>8. ASSUME NEW what \in N!Commands, NEW column \in N!Columns, NEW ns \in SUBSET {n1, n2, n3},
             N!Ask(what, column, ns)
      PROVE  NodesTypes'
  <2>1. /\ area = "table" /\ loaders' = loaders \cup {column}
        /\ calls' = calls \cup {N!Request(what, table, ns)}
        /\ UNCHANGED <<group, summary, area, nodesList, table, rows, known, updating, crossed,
                       upset, lost>>
    BY <1>8 DEF N!Ask, N!data, N!tabs, N!ends
  <2>2. Asked'
    BY <1>0, <1>2, <2>1, RequestIs DEF N!Commands
  <2>3. Flags'
    BY <1>0, <2>1
  <2>. QED  BY <1>0, <1>1, <1>8, <2>1, <2>2, <2>3 DEF N!Ask
<1>9. ASSUME NEW ns \in SUBSET {n1, n2, n3},
             \/ N!refreshNodeStatus(ns) \/ N!refreshPowerStatus(ns)
             \/ N!refreshGangliaStatus(ns) \/ N!powerNode(ns)
             \/ \E on \in BOOLEAN : N!monitorNode(ns, on)
      PROVE  NodesTypes'
  <2>1. \E what \in N!Commands, column \in N!Columns : N!Ask(what, column, ns)
    BY <1>9 DEF N!refreshNodeStatus, N!refreshPowerStatus, N!refreshGangliaStatus, N!powerNode,
                N!monitorNode, N!Commands, N!Columns
  <2>. QED  BY <1>8, <2>1
<1>10. ASSUME NEW g \in Groups, NEW rsp \in N!Answers, N!SummaryAnswered(g, rsp)
       PROVE  NodesTypes'
  <2>1. /\ calls' \subseteq calls /\ summary' \in {summary, g}
        /\ UNCHANGED <<acts, group, area, nodesList, table, rows, known, updating, loaders,
                       crossed, lost>>
    BY <1>10 DEF N!SummaryAnswered, N!data
  <2>2. Flags'
    <3>1. upset' \in BOOLEAN
      BY <1>0, <1>10, Zenon DEF N!SummaryAnswered
    <3>. QED  BY <1>0, <2>1, <3>1
  <2>. QED  BY <1>0, <1>3, <2>1, <2>2
<1>11. ASSUME NEW g \in Groups, N!NodelsAnswered(g) PROVE NodesTypes'
  <2>1. /\ nodesList' = Overlapping[g]
        /\ calls' \subseteq calls \cup {N!Request("lsdef", g, N!FirstPage(Overlapping[g]))}
        /\ UNCHANGED <<acts, group, summary, area, table, rows, known, updating, loaders,
                       crossed, upset, lost>>
    BY <1>11 DEF N!NodelsAnswered, N!tabs, N!ends
  <2>2. N!FirstPage(Overlapping[g]) \in SUBSET {n1, n2, n3} /\ N!FirstPage(Overlapping[g]) # {}
    BY <1>0, FirstOfGroup
  <2>3. Asked'
    BY <1>0, <1>2, <2>1, <2>2, RequestIs DEF N!Contents
  <2>4. Flags'
    BY <1>0, <2>1
  <2>. QED  BY <1>0, <2>1, <2>3, <2>4
<1>12. ASSUME NEW c \in calls, NEW stat \in BOOLEAN, N!loadNodes(c, stat) PROVE NodesTypes'
  <2>1. /\ c.what = "lsdef" /\ area' = "table" /\ table' = c.group
        /\ rows' = c.nodes \cup nodesList /\ known' = c.nodes
        /\ loaders' \subseteq {"status"}
        /\ \/ calls' \subseteq calls
           \/ calls' \subseteq calls \cup {N!Request("nodestat", c.group, N!FirstPage(rows'))}
        /\ UNCHANGED <<acts, group, summary, nodesList, updating, crossed, upset, lost>>
    BY <1>12 DEF N!loadNodes, N!ends
  <2>2. c.nodes # {} /\ c.nodes \subseteq {n1, n2, n3} /\ c.group \in Groups
    BY <1>0, <2>1 DEF NodesRequests
  <2>3. rows' # {} /\ rows' \subseteq {n1, n2, n3}
    BY <1>0, <2>1, <2>2
  <2>4. IsFiniteSet({n1, n2, n3})
    <3>1. IsFiniteSet({n1}) /\ {n1, n2} = {n1} \cup {n2} /\ {n1, n2, n3} = {n1, n2} \cup {n3}
      BY FS_Singleton
    <3>2. IsFiniteSet({n1, n2})
      BY <3>1, FS_AddElement
    <3>. QED  BY <3>1, <3>2, FS_AddElement
  <2>5. IsFiniteSet(rows')
    BY <2>3, <2>4, FS_Subset
  <2>6. N!FirstPage(rows') \in SUBSET {n1, n2, n3}
    <3>1. N!FirstPage(rows') \in N!Pages(rows')
      BY <2>3, <2>5, FirstPageIs
    <3>. QED  BY <2>3, <3>1 DEF N!Pages
  <2>7. Asked'
    <3>1. loaders' \subseteq N!Columns /\ "nodestat" \in N!Commands
      BY <2>1 DEF N!Columns, N!Commands
    <3>2. PICK r : r = N!Request("nodestat", c.group, N!FirstPage(rows'))
      OBVIOUS
    <3>3. r \in NodesRequests /\ r.what # "lsdef"
      BY <2>2, <2>6, <3>1, <3>2, RequestIs
    <3>. QED  BY <1>2, <1>3, <2>1, <3>1, <3>2, <3>3
  <2>8. Flags'
    BY <1>0, <2>1
  <2>. QED  BY <1>0, <2>1, <2>2, <2>3, <2>7, <2>8
<1>13. ASSUME NEW c \in calls, NEW rsp \in N!Answers, NEW stat \in BOOLEAN,
              N!addNodes2Table(c, rsp, stat)
       PROVE  NodesTypes'
  <2>1. /\ known' = known \/ (c.nodes \subseteq rows /\ known' = known \cup c.nodes)
        /\ loaders' \subseteq loaders
        /\ \/ calls' \subseteq calls
           \/ calls' \subseteq calls \cup {N!Request("nodestat", c.group, Overlapping[c.group])}
        /\ UNCHANGED <<acts, group, summary, area, nodesList, table, rows, crossed, lost>>
    BY <1>13 DEF N!addNodes2Table, N!tabs
  <2>2. c.group \in Groups
    BY <1>0 DEF NodesRequests
  <2>3. Asked'
    <3>1. loaders' \subseteq N!Columns /\ "nodestat" \in N!Commands
          /\ Overlapping[c.group] \in SUBSET {n1, n2, n3}
      BY <1>0, <2>1, <2>2 DEF N!Commands
    <3>2. PICK r : r = N!Request("nodestat", c.group, Overlapping[c.group])
      OBVIOUS
    <3>3. r \in NodesRequests /\ r.what # "lsdef"
      BY <2>2, <3>1, <3>2, RequestIs
    <3>. QED  BY <1>2, <1>3, <2>1, <3>1, <3>2, <3>3
  <2>4. Flags'
    <3>1. updating' \in BOOLEAN /\ upset' \in BOOLEAN
      BY <1>0, <1>13, Zenon DEF N!addNodes2Table
    <3>. QED  BY <1>0, <2>1, <3>1, Zenon
  <2>. QED  BY <1>0, <2>1, <2>3, <2>4
<1>16. ASSUME NEW c \in calls, N!LoadingRaises(c) PROVE NodesTypes'
  <2>1. /\ calls' \subseteq calls /\ area' = "empty" /\ table' = NoGroup
        /\ rows' = {} /\ known' = {} /\ upset' = TRUE
        /\ UNCHANGED <<acts, group, summary, nodesList, updating, loaders, crossed, lost>>
    BY <1>16 DEF N!LoadingRaises
  <2>2. Flags'
    BY <1>0, <2>1
  <2>. QED  BY <1>0, <1>3, <2>1, <2>2
<1>14. ASSUME NEW c \in calls,
              \/ \E rsp \in N!Answers : \/ N!loadNodeStatus(c, rsp) \/ N!loadPowerStatus(c, rsp)
                                        \/ N!loadGangliaStatus(c, rsp)
              \/ N!updatePowerStatus(c) \/ N!GangliaStopped(c) \/ N!Lose(c)
       PROVE  NodesTypes'
  <2>1. /\ calls' \subseteq calls /\ loaders' \subseteq loaders
        /\ UNCHANGED <<acts, group, summary, area, nodesList, table, rows, known, updating,
                       crossed>>
        /\ upset' \in {upset, TRUE} /\ lost' \in {lost, TRUE}
    BY <1>14 DEF N!loadNodeStatus, N!loadPowerStatus, N!loadGangliaStatus, N!LoadStatus,
                 N!updatePowerStatus, N!GangliaStopped, N!Lose, N!data, N!tabs, N!ends
  <2>2. Flags'
    BY <1>0, <2>1, Zenon
  <2>. QED  BY <1>0, <1>3, <2>1, <2>2
<1>15. ASSUME NEW c \in calls,
              \/ \E warn \in BOOLEAN : N!GangliaChecked(c, warn) \/ N!GangliaStarted(c)
       PROVE  NodesTypes'
  <2>1. /\ \/ calls' \subseteq calls
           \/ \E what \in {"gangliastart", "gangliastatus"} :
                  calls' \subseteq calls \cup {N!Request(what, c.group, c.nodes)}
        /\ UNCHANGED <<acts, group, summary, area, nodesList, table, rows, known, updating,
                       loaders, crossed, lost>>
    BY <1>15 DEF N!GangliaChecked, N!GangliaStarted, N!data, N!tabs
  <2>2. c.group \in Groups /\ c.nodes \in SUBSET {n1, n2, n3}
    BY <1>0 DEF NodesRequests
  <2>3. Asked'
    BY <1>0, <1>2, <1>3, <2>1, <2>2, RequestIs DEF N!Commands
  <2>4. Flags'
    <3>1. upset' \in BOOLEAN
      BY <1>15, Zenon DEF N!GangliaChecked, N!GangliaStarted
    <3>. QED  BY <1>0, <2>1, <3>1, Zenon
  <2>. QED  BY <1>0, <2>1, <2>3, <2>4
<1>. QED
  BY <1>4, <1>5, <1>6, <1>7, <1>9, <1>10, <1>11, <1>12, <1>13, <1>14, <1>15, <1>16
     DEF N!Next, N!User, N!Answer

\* The requests that run a chain name a range.
TabRequest(c) ==
    /\ c.inst \in T!Insts /\ c.tgt \in Targets \cup {NoTab}
    /\ c.cmd \in {"nodeadd", "makehosts"} => c.tgt \in Targets
TabsTypes == T!TypeOK /\ \A c \in calls : TabRequest(c)

LEMMA TabsTypesInit == T!Init => TabsTypes
<1> SUFFICES ASSUME T!Init PROVE TabsTypes
  OBVIOUS
<1>1. 0 \in 0..MaxTabActs /\ 0 \in T!Insts
  BY BoundsOK DEF T!Insts
<1>2. images \in BOOLEAN /\ reused \in BOOLEAN /\ lost \in BOOLEAN
  BY Zenon DEF T!Init
<1>. QED  BY <1>1, <1>2 DEF T!Init, T!TypeOK, TabsTypes

LEMMA TabsTypesStep == TabsIInv /\ TabsIInv' /\ TabsTypes /\ [T!Next]_(T!vars) => TabsTypes'
<1> SUFFICES ASSUME TabsIInv, TabsIInv', TabsTypes, [T!Next]_(T!vars) PROVE TabsTypes'
  OBVIOUS
<1> DEFINE Flags == images \in BOOLEAN /\ reused \in BOOLEAN /\ lost \in BOOLEAN
           Page  == kind \in T!Kinds /\ acts \in 0..MaxTabActs /\ newTabId \in T!Insts
           Chain == /\ \A c \in calls : TabRequest(c)
                    /\ chained \subseteq Targets \X (Targets \cup {NoTab})
           Ends  == deletes \subseteq [dbOnly : BOOLEAN, cmd : {"noderm", "rmvm"}]
           Records == \A i \in T!Insts : tabs[i] # NoTab => tabs[i] \in TabRecords
<1>0. /\ Flags' /\ Page' /\ Chain' /\ Ends' /\ Records' => TabsTypes'
      /\ Flags /\ Page /\ Chain /\ Ends
      /\ MaxTabActs \in Nat
  BY BoundsOK DEF TabsTypes, T!TypeOK, TabRecords, TabRequest
<1>1. Records /\ Records'
  BY DEF TabsIInv
<1>2. ASSUME NEW cmd, NEW i \in T!Insts, NEW tgt \in Targets \cup {NoTab},
             cmd \in {"nodeadd", "makehosts"} => tgt \in Targets
      PROVE  TabRequest(T!Request(cmd, i, tgt))
  BY <1>2 DEF TabRequest, T!Request
<1>3. ASSUME NEW i \in T!Insts, tabs[i] # NoTab PROVE tabs[i].tgt \in Targets
  BY <1>1, <1>3 DEF TabRecords
<1>4. ASSUME T!Act PROVE acts' \in 0..MaxTabActs
  BY <1>0, <1>4 DEF T!Act
<1>. HIDE DEF Records
<1>5. ASSUME NEW i \in T!Insts, NEW tgt \in Targets,
             \/ T!loadScriptPage(i, tgt) \/ T!loadUnlockPage(i, tgt)
             \/ T!loadUnlockNonNodesPage(i, tgt) \/ T!loadUpdatenodePage(i, tgt)
             \/ T!loadNetbootPage(i, tgt) \/ T!loadDeletePage(i, tgt)
             \/ T!loadNodesetPage(i, tgt)
      PROVE  TabsTypes'
  <2>1. /\ T!Act /\ newTabId' \in {newTabId, i}
        /\ UNCHANGED <<kind, images, chained, deletes, reused, lost>>
        /\ calls' \subseteq calls \cup {T!Request("tabdump", 0, NoTab)}
    BY <1>5 DEF T!loadScriptPage, T!loadUnlockPage, T!loadUnlockNonNodesPage,
                T!loadUpdatenodePage, T!loadNetbootPage, T!loadDeletePage, T!loadNodesetPage,
                T!Open
  <2>2. 0 \in T!Insts
    BY BoundsOK DEF T!Insts
  <2>3. Chain'
    BY <1>0, <1>2, <2>1, <2>2
  <2>. QED  BY <1>0, <1>1, <1>4, <2>1, <2>3
<1>6. ASSUME NEW i \in T!Insts,
             \/ T!Close(i) \/ T!CheckDbOnly(i) \/ \E tgt \in Targets : T!EditTarget(i, tgt)
      PROVE  TabsTypes'
  <2>1. T!Act /\ UNCHANGED <<kind, newTabId, images, calls, chained, deletes, lost>>
    BY <1>6 DEF T!Close, T!CheckDbOnly, T!EditTarget
  <2>2. reused' \in BOOLEAN
    <3>1. CASE T!Close(i)
      BY <3>1, Zenon DEF T!Close
    <3>2. CASE reused' = reused
      BY <1>0, <3>2, Zenon
    <3>. QED  BY <1>6, <3>1, <3>2 DEF T!CheckDbOnly, T!EditTarget
  <2>. QED  BY <1>0, <1>1, <1>4, <2>1, <2>2
<1>7. ASSUME NEW i \in T!Insts, NEW cmd, T!Act, tabs[i] # NoTab,
             calls' = calls \cup {T!Request(cmd, i, tabs[i].tgt)}, Ends',
             UNCHANGED <<kind, newTabId, images, chained, reused, lost>>
      PROVE  TabsTypes'
  <2>1. TabRequest(T!Request(cmd, i, tabs[i].tgt))
    BY <1>2, <1>3, <1>7
  <2>2. Chain'
    BY <1>0, <1>7, <2>1
  <2>. QED  BY <1>0, <1>1, <1>4, <1>7, <2>2
<1>8. ASSUME NEW i \in T!Insts,
             \/ T!runScript(i) \/ T!Unlock(i) \/ T!Update(i) \/ T!Netboot(i) \/ T!Nodeset(i)
             \/ T!CreateScript(i) \/ T!GetKey(i) \/ T!UnlockByIp(i)
      PROVE  TabsTypes'
  <2>1. /\ T!Act /\ tabs[i] # NoTab
        /\ \E cmd : calls' = calls \cup {T!Request(cmd, i, tabs[i].tgt)}
        /\ UNCHANGED <<kind, newTabId, images, chained, deletes, reused, lost>>
    BY <1>8 DEF T!runScript, T!Unlock, T!Update, T!Netboot, T!Nodeset, T!CreateScript, T!GetKey,
                T!UnlockByIp, T!Click
  <2>. QED  BY <1>0, <1>7, <2>1
<1>9. ASSUME NEW i \in T!Insts, T!Delete(i) PROVE TabsTypes'
  <2>1. /\ T!Act /\ tabs[i] # NoTab
        /\ calls' = calls \cup {T!Request(T!Deletion, i, tabs[i].tgt)}
        /\ deletes' = deletes \cup {[dbOnly |-> tabs[i].dbOnly, cmd |-> T!Deletion]}
        /\ UNCHANGED <<kind, newTabId, images, chained, reused, lost>>
    BY <1>9 DEF T!Delete, T!Click
  <2>2. T!Deletion \in {"noderm", "rmvm"}
    BY DEF T!Deletion
  <2>3. tabs[i].dbOnly \in BOOLEAN
    BY <1>1, <2>1 DEF TabRecords, Records
  <2>4. Ends'
    BY <1>0, <2>1, <2>2, <2>3
  <2>. QED  BY <1>7, <2>1, <2>4
<1>10. ASSUME UNCHANGED <<kind, acts, newTabId, images, chained, deletes, reused, lost>>,
              \A c \in calls' : c \in calls \/ TabRequest(c)
       PROVE  TabsTypes'
  BY <1>0, <1>1, <1>10 DEF TabRequest
<1>11. ASSUME NEW c \in calls,
              \/ T!updateStatusBar(c) \/ T!ShowScriptOrKey(c) \/ T!NodesetAnswered(c)
       PROVE  TabsTypes'
  <2>1. /\ UNCHANGED <<kind, acts, newTabId, images, chained, deletes, reused, lost>>
        /\ calls' \subseteq calls
    BY <1>11 DEF T!updateStatusBar, T!ShowScriptOrKey, T!NodesetAnswered
  <2>. QED  BY <1>10, <2>1
<1>12. ASSUME NEW c \in calls, NEW rsp \in T!Answers, T!NodeaddAnswered(c, rsp) PROVE TabsTypes'
  <2>1. /\ UNCHANGED <<kind, acts, newTabId, images, chained, deletes, reused, lost>>
        /\ calls' \subseteq calls \cup {T!Request("makehosts", c.inst, c.tgt)}
        /\ c.cmd = "nodeadd"
    BY <1>12 DEF T!NodeaddAnswered
  <2>2. TabRequest(T!Request("makehosts", c.inst, c.tgt))
    BY <1>0, <1>2, <2>1 DEF TabRequest
  <2>. QED  BY <1>10, <2>1, <2>2
<1>13. ASSUME NEW c \in calls, T!MakehostsAnswered(c) PROVE TabsTypes'
  <2>1. PICK tgts1 : /\ tgts1 = IF tabs[c.inst] = NoTab THEN NoTab ELSE tabs[c.inst].tgt
                     /\ calls' = (calls \ {c}) \cup {T!Request("nodeset", c.inst, tgts1)}
                     /\ chained' = chained \cup {<<c.tgt, tgts1>>}
    BY <1>13 DEF T!MakehostsAnswered
  <2>2. /\ c.cmd = "makehosts"
        /\ UNCHANGED <<kind, acts, newTabId, images, deletes, reused, lost>>
    BY <1>13 DEF T!MakehostsAnswered
  <2>3. c.inst \in T!Insts /\ c.tgt \in Targets
    BY <1>0, <2>2 DEF TabRequest
  <2>4. tgts1 \in Targets \cup {NoTab}
    BY <1>3, <2>1, <2>3
  <2>5. TabRequest(T!Request("nodeset", c.inst, tgts1))
    BY <1>2, <2>3, <2>4
  <2>6. Chain'
    BY <1>0, <2>1, <2>3, <2>4, <2>5
  <2>. QED  BY <1>0, <1>1, <2>2, <2>6
<1>14. CASE T!ImagesAnswered \/ UNCHANGED T!vars \/ \E c \in calls : T!Lose(c)
  <2>1. /\ calls' \subseteq calls /\ images' \in {images, TRUE} /\ lost' \in {lost, TRUE}
        /\ UNCHANGED <<kind, acts, newTabId, chained, deletes, reused>>
    BY <1>14 DEF T!ImagesAnswered, T!Lose, T!vars
  <2>2. Flags'
    BY <1>0, <2>1, Zenon
  <2>. QED  BY <1>0, <1>1, <2>1, <2>2
<1>. HIDE DEF Flags, Page, Chain, Ends
<1>. QED
  BY <1>5, <1>6, <1>8, <1>9, <1>11, <1>12, <1>13, <1>14 DEF T!Next, T!User, T!Answer

LEMMA ChainsTypesInit == V!Init => V!TypeOK
<1> SUFFICES ASSUME V!Init PROVE V!TypeOK
  OBVIOUS
<1>1. 0 \in 0..MaxChains
  BY BoundsOK
<1>2. /\ loader \in BOOLEAN /\ replaced \in BOOLEAN /\ lost \in BOOLEAN
      /\ encoded \in BOOLEAN
  BY Zenon DEF V!Init
<1>3. checked \subseteq Nodes
  <2>1. checked \in IF kind \in V!Hypervisors THEN {{n} : n \in Nodes} ELSE {{}}
    BY DEF V!Init
  <2>. QED  BY <2>1
<1>4. drawn \subseteq Nodes /\ enabled \subseteq Nodes
  BY DEF V!Init
<1>. QED  BY <1>1, <1>2, <1>3, <1>4 DEF V!Init, V!TypeOK

LEMMA ChainsTypes == V!TypeOK /\ [V!Next]_(V!vars) => V!TypeOK'
<1> SUFFICES ASSUME V!TypeOK, [V!Next]_(V!vars) PROVE V!TypeOK'
  OBVIOUS
<1> DEFINE Flags == /\ encoded \in BOOLEAN /\ loader \in BOOLEAN /\ replaced \in BOOLEAN
                    /\ lost \in BOOLEAN
           Page  == /\ kind \in V!Hypervisors \cup V!Tables
                    /\ acts \in 0..MaxChains /\ stage \in {"edit", "run"}
                    /\ table \in Groups \cup {NoGroup}
                    /\ drawn \subseteq Nodes /\ checked \subseteq Nodes /\ enabled \subseteq Nodes
           Asked(c) == c.cmd \in V!Steps \cup {"lsdef"} /\ c.of \in V!Picks
           Chain == /\ \A c \in calls : Asked(c)
                    /\ chained \subseteq V!Picks \X V!Picks
<1>0. /\ Flags' /\ Page' /\ Chain' => V!TypeOK'
      /\ Flags /\ Page /\ Chain /\ MaxChains \in Nat
      /\ \A g \in Groups : Members[g] \subseteq Nodes
      /\ V!getNodesChecked \in V!Picks /\ V!Found \in V!Picks
  <2>1. V!TypeOK => Flags /\ Page /\ Chain
    BY DEF V!TypeOK
  <2>2. Flags' /\ Page' /\ Chain' => V!TypeOK'
    BY DEF V!TypeOK
  <2>3. \A g \in Groups : Members[g] \subseteq Nodes
    BY DEF Members, Nodes
  <2>4. V!getNodesChecked \in V!Picks
    BY <2>1 DEF V!getNodesChecked, V!Picks
  <2>5. V!Found \in V!Picks
    BY <2>4 DEF V!Found, V!Picks
  <2>. QED  BY <2>1, <2>2, <2>3, <2>4, <2>5, BoundsOK
<1>1. ASSUME NEW g \in Groups, V!SelectGroup(g) PROVE V!TypeOK'
  <2>1. /\ calls' = calls \cup {V!Lsdef(g)}
        /\ UNCHANGED <<kind, encoded, acts, stage, table, drawn, checked, enabled, loader, chained,
                       replaced, lost>>
    BY <1>1 DEF V!SelectGroup
  <2>2. Asked(V!Lsdef(g))
    BY DEF V!Lsdef, V!NoPick, V!Picks
  <2>. QED  BY <1>0, <2>1, <2>2
<1>2. ASSUME NEW g \in Groups, V!TableAnswered(g) PROVE V!TypeOK'
  <2>1. /\ calls' \subseteq calls /\ table' = g /\ checked' = {} /\ enabled' = Members[g]
        /\ drawn' \subseteq Members[g]
        /\ UNCHANGED <<kind, encoded, acts, stage, loader, chained, lost>>
    BY <1>2 DEF V!TableAnswered, V!FirstPages, V!Pages
  <2>2. replaced' \in BOOLEAN
    BY <1>2, Zenon DEF V!TableAnswered
  <2>. QED  BY <1>0, <2>1, <2>2
<1>3. CASE V!TurnPage
  <2>1. /\ table \in Groups /\ drawn' \subseteq Members[table]
        /\ UNCHANGED <<kind, encoded, acts, stage, table, checked, enabled, calls, loader, chained,
                       replaced, lost>>
    BY <1>0, <1>3 DEF V!TurnPage, V!Pages
  <2>. QED  BY <1>0, <2>1
<1>4. ASSUME NEW n \in Nodes, V!Check(n) \/ V!EditForm(n) PROVE V!TypeOK'
  <2>1. /\ checked' \subseteq checked \cup {n}
        /\ UNCHANGED <<kind, encoded, acts, stage, table, drawn, enabled, calls, loader, chained,
                       lost>>
    BY <1>4 DEF V!Check, V!EditForm
  <2>2. replaced' \in BOOLEAN
    <3>1. CASE V!Check(n)
      BY <1>0, <3>1 DEF V!Check
    <3>2. CASE V!EditForm(n)
      BY <3>2, Zenon DEF V!EditForm
    <3>. QED  BY <1>4, <3>1, <3>2
  <2>. QED  BY <1>0, <2>1, <2>2
<1>5. CASE V!ProvisionExisting \/ V!ProvisionForm
  <2>1. PICK cmd \in {"nodeadd", "chdef"} : calls' = calls \cup {V!Step(cmd, V!getNodesChecked)}
    BY <1>5 DEF V!ProvisionExisting, V!ProvisionForm, V!Provision
  <2>2. /\ acts < MaxChains /\ acts' = acts + 1 /\ loader' = TRUE
        /\ stage' \in {stage, "run"} /\ enabled' \subseteq enabled
        /\ UNCHANGED <<kind, encoded, table, drawn, checked, chained, replaced, lost>>
    BY <1>5 DEF V!ProvisionExisting, V!ProvisionForm, V!Provision
  <2>3. Asked(V!Step(cmd, V!getNodesChecked))
    BY <1>0 DEF V!Step, V!Steps
  <2>. QED  BY <1>0, <2>1, <2>2, <2>3
<1>6. ASSUME NEW of \in V!Picks, NEW cmd \in V!Steps, NEW next \in SUBSET V!Steps,
             V!Follow(of, cmd, next), loader' \in {loader, FALSE}
      PROVE  V!TypeOK'
  <2>1. /\ calls' = (calls \ {V!Step(cmd, of)}) \cup {V!Step(n, of) : n \in next}
        /\ chained' \subseteq chained \cup {<<of, V!Found>>}
        /\ UNCHANGED <<kind, encoded, acts, stage, table, drawn, checked, enabled, replaced, lost>>
    BY <1>6 DEF V!Follow
  <2>2. \A n \in next : Asked(V!Step(n, of))
    BY DEF V!Step
  <2>3. loader' \in BOOLEAN
    BY <1>0, <1>6, Zenon
  <2>. QED  BY <1>0, <2>1, <2>2, <2>3
<1>7. ASSUME NEW of \in V!Picks, V!Rinstall(of) \/ V!BladeBoot(of) \/ V!VirtualMachine(of)
      PROVE  V!TypeOK'
  <2>0. loader' \in {loader, FALSE}
    BY <1>7 DEF V!Rinstall, V!BladeBoot, V!VirtualMachine, V!Done
  <2>1. \E cmd \in V!Steps, next \in SUBSET V!Steps : V!Follow(of, cmd, next)
    <3>1. V!Rinstall(of) => \/ V!Follow(of, "nodeadd", {"rinstall"})
                           \/ V!Follow(of, "rinstall", {})
      BY DEF V!Rinstall, V!Done
    <3>2. V!BladeBoot(of) => \/ V!Follow(of, "nodeadd", {"rbootseq", "nodeset"})
                            \/ V!Follow(of, "rbootseq", {})
                            \/ V!Follow(of, "nodeset", {"rpower"})
                            \/ V!Follow(of, "rpower", {})
      BY DEF V!BladeBoot, V!Done
    <3>3. V!VirtualMachine(of) => \/ V!Follow(of, "chdef", {"mkvm"})
                                 \/ V!Follow(of, "mkvm", {"nodeset"})
                                 \/ V!Follow(of, "nodeset", {"rpower"})
                                 \/ V!Follow(of, "rpower", {})
      BY DEF V!VirtualMachine, V!Done
    <3>. QED  BY <1>7, <3>1, <3>2, <3>3 DEF V!Steps
  <2>. QED  BY <1>6, <2>0, <2>1
<1>8. CASE \/ UNCHANGED V!vars \/ \E c \in calls : V!Lose(c)
           \/ \E of \in V!Picks, cmd \in V!Steps : V!Unrecognised(of, cmd)
  <2>1. /\ calls' \subseteq calls /\ lost' \in {lost, TRUE}
        /\ UNCHANGED <<kind, encoded, acts, stage, table, drawn, checked, enabled, loader, chained,
                       replaced>>
    BY <1>8 DEF V!Lose, V!Unrecognised, V!vars
  <2>2. lost' \in BOOLEAN
    BY <1>0, <2>1, Zenon
  <2>. QED  BY <1>0, <2>1, <2>2
<1>. QED  BY <1>1, <1>2, <1>3, <1>4, <1>5, <1>7, <1>8 DEF V!Next, V!Answer

\* The table, or the one behind a dialog, was asked for after that many writes, if it counts.
Ages == Nat \cup {G!Stale}
CatalogAges ==
    /\ acts \in 0..MaxEdits /\ lost \in BOOLEAN /\ asof \in Ages
    /\ \A c \in calls : c.cmd = "tabdump" => c.asof \in Ages
    /\ \A a \in answers : a.to.cmd = "tabdump" => a.to.asof \in Ages
    /\ \A n \in Names : dialogs[n].open => dialogs[n].asof \in Ages

LEMMA CatalogsTyped == CatalogTypes /\ CatalogAges => G!TypeOK
<1> SUFFICES ASSUME CatalogTypes, CatalogAges PROVE G!TypeOK
  OBVIOUS
<1>1. ASSUME NEW n \in Names, dialogs[n].open
      PROVE  dialogs[n] \in [open : {TRUE}, vals : Entries, typed : Entries, early : BOOLEAN,
                             asof : Ages]
  <2>1. dialogs[n] \in Dialogs /\ dialogs[n].asof \in Ages
    BY <1>1, OpenDialog DEF CatalogAges
  <2>. QED  BY <2>1 DEF Dialogs
<1>2. /\ kind \in G!Kinds /\ acts \in 0..MaxEdits
      /\ db \in [Names -> Entries] /\ files \in [Names -> G!Values] /\ writes \in Nat
      /\ rows \subseteq Names /\ cells \in [Names -> Entries] /\ asof \in Ages
  BY DEF CatalogTypes, CatalogAges
<1>3. lost \in BOOLEAN
  BY DEF CatalogAges
<1>. QED  BY <1>1, <1>2, <1>3 DEF G!TypeOK, Entries, Ages

LEMMA CatalogAgesInit == G!Init => CatalogAges
<1> SUFFICES ASSUME G!Init PROVE CatalogAges
  OBVIOUS
<1>1. 0 \in 0..MaxEdits /\ {0, G!Stale} \subseteq Ages
  BY BoundsOK DEF Ages
<1>2. \A c \in calls : c.cmd # "tabdump"
  BY DEF G!Init, G!Details, G!Request
<1>3. /\ acts = 0 /\ lost = FALSE /\ asof \in {0, G!Stale} /\ answers = {}
      /\ dialogs = [n \in Names |-> G!NoDialog]
  BY DEF G!Init
<1>. QED  BY <1>1, <1>2, <1>3 DEF CatalogAges, G!NoDialog

LEMMA CatalogAgesStep == CatalogsIInv /\ CatalogAges /\ [G!Next]_(G!vars) => CatalogAges'
<1> SUFFICES ASSUME CatalogsIInv, CatalogAges, [G!Next]_(G!vars) PROVE CatalogAges'
  OBVIOUS
<1> DEFINE Request(c) == c.cmd = "tabdump" => c.asof \in Ages
           Came(a) == a.to.cmd = "tabdump" => a.to.asof \in Ages
           Open(d) == d.open => d.asof \in Ages
<1>0. /\ acts \in 0..MaxEdits /\ lost \in BOOLEAN /\ asof \in Ages /\ writes \in Nat
      /\ \A c \in calls : Request(c)
      /\ \A a \in answers : Came(a)
      /\ \A n \in Names : Open(dialogs[n])
      /\ MaxEdits \in Nat /\ CatalogTypes
  BY BoundsOK DEF CatalogAges, CatalogsIInv, CatalogTypes
<1>1. ASSUME acts' \in 0..MaxEdits, lost' \in BOOLEAN, asof' \in Ages,
             \A c \in calls' : c \in calls \/ Request(c),
             \A a \in answers' : a \in answers \/ Came(a),
             \A n \in Names : dialogs'[n] = dialogs[n] \/ Open(dialogs'[n])
      PROVE  CatalogAges'
  BY <1>0, <1>1 DEF CatalogAges
<1>2. ASSUME G!Act PROVE acts' \in 0..MaxEdits
  BY <1>0, <1>2 DEF G!Act
<1>3. \A cmd, n, v : cmd # "tabdump" => Request(G!Request(cmd, n, v))
  BY DEF G!Request
<1>4. ~G!NoDialog.open
  BY DEF G!NoDialog
<1>. HIDE DEF Request, Came, Open
<1>5. CASE G!queryImages \/ G!queryGroups \/ G!queryProfiles
  <2>1. PICK at \in Ages : calls' = calls \cup {G!Tabdump(at)}
    BY <1>0, <1>5 DEF G!queryImages, G!queryGroups, G!queryProfiles, G!Query, Ages
  <2>2. G!Act /\ UNCHANGED <<asof, dialogs, answers, lost>>
    BY <1>5 DEF G!queryImages, G!queryGroups, G!queryProfiles, G!Query, G!table
  <2>3. Request(G!Tabdump(at))
    BY DEF G!Tabdump, Request
  <2>. QED  BY <1>0, <1>1, <1>2, <2>1, <2>2, <2>3
<1>6. ASSUME NEW n, NEW vals PROVE \A c \in G!Posts(n, vals) : Request(c)
  BY <1>3 DEF G!Posts
<1>7. ASSUME NEW n \in Names, G!imageDialog(n) \/ G!groupDialog(n) \/ G!profileDialog(n)
      PROVE  CatalogAges'
  <2>1. /\ \E vals : calls' = calls \cup G!Posts(n, vals)
        /\ G!Act /\ UNCHANGED <<asof, dialogs, answers, lost>>
    BY <1>7 DEF G!imageDialog, G!groupDialog, G!profileDialog, G!Create, G!table
  <2>. QED  BY <1>0, <1>1, <1>2, <1>6, <2>1
<1>8. ASSUME NEW chosen \in SUBSET rows,
             \/ G!editImageDialog(chosen) \/ G!editGroupDialog(chosen)
             \/ G!editProfileDialog(chosen)
      PROVE  CatalogAges'
  <2>1. PICK k, after : /\ G!Edit(k, chosen, after)
                        /\ after \subseteq {G!Request("lsippool", n, G!Nothing) : n \in chosen}
    BY <1>8 DEF G!editImageDialog, G!editGroupDialog, G!editProfileDialog
  <2>2. /\ dialogs' = [n \in Names |-> IF n \notin chosen THEN G!NoDialog ELSE
                          [open |-> TRUE, vals |-> cells[n], typed |-> G!Nothing,
                           early |-> FALSE, asof |-> asof]]
        /\ calls' = calls \cup after
        /\ G!Act /\ UNCHANGED <<asof, answers, lost>>
    BY <2>1 DEF G!Edit, G!table
  <2>3. \A n \in Names : Open(dialogs'[n])
    BY <1>0, <1>4, <2>2 DEF Open
  <2>4. \A c \in after : Request(c)
    BY <1>3, <2>1
  <2>. QED  BY <1>0, <1>1, <1>2, <2>2, <2>3, <2>4
<1>9. ASSUME NEW chosen \in SUBSET rows,
             \/ G!deleteImageDialog(chosen) \/ G!deleteGroupDialog(chosen)
             \/ G!deleteProfileDialog(chosen)
      PROVE  CatalogAges'
  <2>1. /\ calls' = calls \cup {G!Request("rm", n, G!Nothing) : n \in chosen}
        /\ G!Act /\ UNCHANGED <<asof, dialogs, answers, lost>>
    BY <1>9 DEF G!deleteImageDialog, G!deleteGroupDialog, G!deleteProfileDialog, G!Delete, G!table
  <2>2. \A c \in calls' : c \in calls \/ Request(c)
    BY <1>3, <2>1
  <2>. QED  BY <1>0, <1>1, <1>2, <2>1, <2>2
\* A dialog that is changed has the table it had.
<1>10. ASSUME NEW n \in Names, dialogs[n].open, NEW f, NEW v, NEW d, NEW b,
              d = [dialogs[n] EXCEPT !.vals[f] = v, !.typed[f] = v, !.early = b]
       PROVE  Open(d)
  <2>1. PICK x \in Dialogs : x = dialogs[n]
    BY <1>0, <1>10, OpenDialog
  <2>2. d.asof = x.asof
    BY <1>10, <2>1 DEF Dialogs
  <2>. QED  BY <1>0, <1>10, <2>1, <2>2 DEF Open
<1>11. dialogs \in [Names -> {G!NoDialog} \cup Dialogs]
  BY <1>0 DEF CatalogTypes
<1>12. ASSUME NEW n \in Names, NEW f \in G!Fields, NEW v, G!Type(n, f, v) PROVE CatalogAges'
  <2>1. /\ dialogs[n].open
        /\ dialogs' = [dialogs EXCEPT ![n].vals[f] = v, ![n].typed[f] = v,
                                      ![n].early = @ \/ (f = "pool" /\ G!Asked(n))]
        /\ UNCHANGED <<acts, asof, calls, answers, lost>>
    BY <1>12 DEF G!Type, G!table
  <2>2. \A m \in Names : m # n => dialogs'[m] = dialogs[m]
    BY <1>11, <2>1
  <2>3. \E b : dialogs'[n] = [dialogs[n] EXCEPT !.vals[f] = v, !.typed[f] = v, !.early = b]
    BY <1>11, <2>1
  <2>4. Open(dialogs'[n])
    BY <1>10, <2>1, <2>3
  <2>. QED  BY <1>0, <1>1, <2>1, <2>2, <2>4
<1>13. ASSUME NEW n \in Names, NEW name, G!Ok(n, name) \/ G!Cancel(n) PROVE CatalogAges'
  <2>1. /\ dialogs' = [dialogs EXCEPT ![n] = G!NoDialog]
        /\ calls' \subseteq calls \cup G!Posts(name, dialogs[n].vals)
        /\ UNCHANGED <<acts, asof, answers, lost>>
    BY <1>13 DEF G!Ok, G!Cancel, G!table
  <2>2. \A m \in Names : dialogs'[m] = dialogs[m] \/ Open(dialogs'[m])
    BY <1>4, <1>11, <2>1 DEF Open
  <2>. QED  BY <1>0, <1>1, <1>6, <2>1, <2>2
<1>14. CASE G!Serve
  <2>1. PICK c \in calls :
           \/ G!ReadTable(c) \/ G!UpdateRow(c) \/ G!Make(c) \/ G!Remove(c) \/ G!Lose(c)
           \/ \E f \in G!Fields : G!ReadDetail(c, f) \/ G!WriteFile(c, f)
    BY <1>14 DEF G!Serve
  <2>2. CASE (\E v : G!Answered(c, v)) \/ G!Lose(c)
    <3>1. /\ calls' \subseteq calls
          /\ answers' = answers \/ \E v : answers' = answers \cup {G!Answer(c, v)}
          /\ UNCHANGED <<acts, asof, dialogs>> /\ lost' \in {lost, TRUE}
      BY <2>2 DEF G!Answered, G!Lose, G!table
    <3>2. \A v : Came(G!Answer(c, v))
      BY <1>0 DEF Came, Request, G!Answer
    <3>3. lost' \in BOOLEAN
      BY <1>0, <3>1, Zenon
    <3>. QED  BY <1>0, <1>1, <3>1, <3>2, <3>3
  <2>3. CASE \E after : G!Executed(c, after) /\ \A d \in after : Request(d)
    <3>1. /\ \A d \in calls' : d \in calls \/ Request(d)
          /\ UNCHANGED <<acts, asof, dialogs, answers, lost>>
      BY <2>3 DEF G!Executed, G!table
    <3>. QED  BY <1>0, <1>1, <3>1
  <2>4. \/ (\E v : G!Answered(c, v)) \/ G!Lose(c)
        \/ \E after : G!Executed(c, after) /\ \A d \in after : Request(d)
    <3>1. CASE G!ReadTable(c)
      BY <3>1 DEF G!ReadTable
    <3>2. CASE G!UpdateRow(c) \/ G!Make(c) \/ G!Remove(c)
      <4>1. G!Executed(c, {})
        BY <3>2 DEF G!UpdateRow, G!Make, G!Remove
      <4>. QED  BY <4>1
    <3>3. ASSUME NEW f \in G!Fields, G!ReadDetail(c, f) PROVE \E v : G!Answered(c, v)
      BY <3>3 DEF G!ReadDetail
    <3>4. ASSUME NEW f \in G!Fields, G!WriteFile(c, f)
          PROVE  \E after : G!Executed(c, after) /\ \A d \in after : Request(d)
      <4>1. G!Executed(c, {G!Request("mk", c.name, c.vals)})
        BY <3>4 DEF G!WriteFile
      <4>. QED  BY <1>3, <4>1
    <3>. QED  BY <2>1, <3>1, <3>2, <3>3, <3>4
  <2>. QED  BY <2>2, <2>3, <2>4
<1>15. ASSUME NEW a \in answers,
              \/ G!configImagePanel(a) \/ G!configGroupPanel(a) \/ G!configProfilePanel(a)
       PROVE  CatalogAges'
  <2>1. /\ asof' = a.to.asof /\ a.to.cmd = "tabdump" /\ answers' \subseteq answers
        /\ calls' \subseteq calls \cup G!Details(rows')
        /\ UNCHANGED <<acts, dialogs, lost>>
    BY <1>15 DEF G!configImagePanel, G!configGroupPanel, G!configProfilePanel, G!Draw
  <2>2. \A c \in G!Details(rows') : Request(c)
    BY <1>3 DEF G!Details
  <2>3. asof' \in Ages
    BY <1>0, <2>1 DEF Came
  <2>. QED  BY <1>0, <1>1, <2>1, <2>2, <2>3
<1>16. ASSUME NEW a \in answers, G!insertDiskInfo(a) \/ G!insertDirectoryEntry(a)
       PROVE  CatalogAges'
  <2>1. answers' \subseteq answers /\ UNCHANGED <<acts, asof, dialogs, calls, lost>>
    BY <1>16 DEF G!insertDiskInfo, G!insertDirectoryEntry, G!Insert
  <2>. QED  BY <1>0, <1>1, <2>1
<1>17. ASSUME NEW a \in answers, G!PoolAnswered(a) PROVE CatalogAges'
  <2>1. /\ answers' \subseteq answers /\ UNCHANGED <<acts, asof, calls, lost>>
        /\ \/ dialogs' = dialogs
           \/ /\ dialogs[a.to.name].open
              /\ dialogs' = [dialogs EXCEPT ![a.to.name].vals["pool"] = a.with]
    BY <1>17 DEF G!PoolAnswered, G!table
  <2>2. PICK m : m = a.to.name
    OBVIOUS
  <2>3. \A n \in Names : dialogs'[n] = dialogs[n] \/ Open(dialogs'[n])
    <3>1. ASSUME NEW n \in Names, dialogs'[n] # dialogs[n] PROVE Open(dialogs'[n])
      <4>1. /\ n = m /\ dialogs[n].open
            /\ dialogs'[n] = [dialogs[n] EXCEPT !.vals["pool"] = a.with]
        BY <1>11, <2>1, <2>2, <3>1
      <4>2. PICK x \in Dialogs : x = dialogs[n]
        BY <1>0, <4>1, OpenDialog
      <4>3. dialogs'[n].asof = x.asof
        BY <4>1, <4>2 DEF Dialogs
      <4>. QED  BY <1>0, <4>1, <4>2, <4>3 DEF Open
    <3>. QED  BY <3>1
  <2>. QED  BY <1>0, <1>1, <2>1, <2>3
<1>18. CASE UNCHANGED G!vars
  <2>1. UNCHANGED <<acts, asof, dialogs, calls, answers, lost>>
    BY <1>18 DEF G!vars, G!table
  <2>. QED  BY <1>0, <1>1, <2>1
<1>. QED
  BY <1>5, <1>7, <1>8, <1>9, <1>12, <1>13, <1>14, <1>15, <1>16, <1>17, <1>18
     DEF G!Next, G!User, G!Callback

\* The rules on their way are of the same type as those in the table.
Rules == [priority : 0..U!Limit, user : Users]
UsersTypes ==
    /\ U!TypeOK
    /\ \A rules \in tables : rules \subseteq Rules
    /\ \A c \in U!Writes : c.rule \in Rules /\ c.new \in BOOLEAN

\* The priority of a rule that is new, or the highest.
LEMMA PriorityIn ==
    /\ \A p \in 0..U!Limit : U!Next001(p) \in 0..U!Limit
    /\ \A rules \in SUBSET Rules : U!Highest(rules) \in 0..U!Limit
<1>1. ASSUME NEW rules \in SUBSET Rules PROVE U!Highest(rules) \in 0..U!Limit
  <2>1. CASE rules = {}
    BY <2>1 DEF U!Highest, U!Limit
  <2>2. CASE rules # {}
    <3>1. \A r \in rules : r.priority \in 0..U!Limit
      BY DEF Rules
    <3>2. U!Highest(rules) \in U!Keys(rules)
      BY <2>2, <3>1, HighestOf
    <3>. QED  BY <3>1, <3>2 DEF U!Keys
  <2>. QED  BY <2>1, <2>2
<1>. QED  BY <1>1 DEF U!Next001, U!Limit

LEMMA UsersTypesInit == U!Init => UsersTypes
<1> SUFFICES ASSUME U!Init PROVE UsersTypes
  OBVIOUS
<1>1. 0 \in 0..MaxPolicyActs
  BY BoundsOK
<1>2. policy \in SUBSET Rules
  <2>1. PICK some \in SUBSET Priorities, u \in Users : policy = {U!Rule(p, u) : p \in some}
    BY DEF U!Init
  <2>2. \A p \in some : p \in 0..U!Limit
    BY PrioritiesOK DEF U!Limit
  <2>. QED  BY <2>1, <2>2 DEF U!Rule, Rules
<1>3. topPriority \in 0..U!Limit
  BY <1>2, PriorityIn DEF U!Init
<1>. QED  BY <1>1, <1>2, <1>3 DEF U!Init, U!TypeOK, UsersTypes, Rules, U!Writes

LEMMA UsersTypesStep == UsersTypes /\ [U!Next]_(U!vars) => UsersTypes'
<1> SUFFICES ASSUME UsersTypes, [U!Next]_(U!vars) PROVE UsersTypes'
  OBVIOUS
<1> DEFINE Known(c) == c.cmd = "policy" => c.rule \in Rules /\ c.new \in BOOLEAN
           Boxes == [priority : 0..U!Limit, user : Users, new : BOOLEAN]
           Panel == /\ acts \in 0..MaxPolicyActs /\ topPriority \in 0..U!Limit
                    /\ policy \subseteq Rules /\ shown \subseteq Rules /\ dialogs \subseteq Boxes
           Sent == (\A rules \in tables : rules \subseteq Rules) /\ \A c \in calls : Known(c)
<1>0. /\ Panel' /\ Sent' /\ lowered' \in BOOLEAN => UsersTypes'
      /\ Panel /\ Sent /\ lowered \in BOOLEAN /\ MaxPolicyActs \in Nat
  BY BoundsOK DEF UsersTypes, U!TypeOK, U!Writes, Rules
<1>1. ASSUME U!Act PROVE acts' \in 0..MaxPolicyActs
  BY <1>0, <1>1 DEF U!Act
<1>2. CASE U!loadUserPage \/ \E users \in SUBSET Users : U!Delete(users)
  <2>1. \A c \in calls' : c \in calls \/ c.cmd \in {"tabdump", "deleteuser"}
    <3>1. CASE U!loadUserPage
      BY <3>1 DEF U!loadUserPage, U!Tabdump
    <3>2. CASE \E users \in SUBSET Users : U!Delete(users)
      BY <3>2 DEF U!Delete
    <3>. QED  BY <1>2, <3>1, <3>2
  <2>2. U!Act /\ UNCHANGED <<policy, shown, topPriority, dialogs, tables, lowered>>
    BY <1>2 DEF U!loadUserPage, U!Delete
  <2>. QED  BY <1>0, <1>1, <2>1, <2>2
<1>3. CASE U!OpenCreate
  <2>1. PICK u \in Users : dialogs' = {U!Dialog(U!Next001(topPriority), u, TRUE)}
    BY <1>3 DEF U!OpenCreate
  <2>2. U!Act /\ UNCHANGED <<policy, shown, topPriority, calls, tables, lowered>>
    BY <1>3 DEF U!OpenCreate
  <2>3. U!Dialog(U!Next001(topPriority), u, TRUE) \in Boxes
    BY <1>0, PriorityIn DEF U!Dialog
  <2>. QED  BY <1>0, <1>1, <2>1, <2>2, <2>3
<1>4. ASSUME NEW rules \in SUBSET shown, U!OpenEdit(rules) PROVE UsersTypes'
  <2>1. /\ dialogs' = {U!Dialog(r.priority, r.user, FALSE) : r \in rules}
        /\ U!Act /\ UNCHANGED <<policy, shown, topPriority, calls, tables, lowered>>
    BY <1>4 DEF U!OpenEdit
  <2>2. \A r \in rules : U!Dialog(r.priority, r.user, FALSE) \in Boxes
    BY <1>0 DEF U!Dialog, Rules
  <2>. QED  BY <1>0, <1>1, <2>1, <2>2
<1>5. ASSUME NEW d \in dialogs, U!Ok(d) \/ U!Cancel(d) PROVE UsersTypes'
  <2>1. /\ dialogs' \subseteq dialogs /\ topPriority' \in {topPriority, d.priority}
        /\ calls' \subseteq calls \cup {U!Write(d.priority, d.user, d.new)}
        /\ UNCHANGED <<acts, policy, shown, tables>>
    BY <1>5 DEF U!Ok, U!Cancel
  <2>2. d.priority \in 0..U!Limit /\ d.user \in Users /\ d.new \in BOOLEAN
    BY <1>0
  <2>3. Known(U!Write(d.priority, d.user, d.new))
    BY <2>2 DEF U!Write, U!Rule, Rules
  <2>4. lowered' \in BOOLEAN
    <3>1. CASE U!Ok(d)
      BY <3>1, Zenon DEF U!Ok
    <3>2. CASE U!Cancel(d)
      BY <1>0, <3>2, Zenon DEF U!Cancel
    <3>. QED  BY <1>5, <3>1, <3>2
  <2>. QED  BY <1>0, <2>1, <2>2, <2>3, <2>4
<1>6. ASSUME NEW rules \in tables, U!loadUserTable(rules) PROVE UsersTypes'
  <2>1. /\ tables' \subseteq tables /\ shown' = rules /\ topPriority' = U!Highest(rules)
        /\ UNCHANGED <<acts, policy, dialogs, calls>>
    BY <1>6 DEF U!loadUserTable
  <2>2. rules \in SUBSET Rules
    BY <1>0
  <2>3. topPriority' \in 0..U!Limit
    BY <2>1, <2>2, PriorityIn
  <2>4. lowered' \in BOOLEAN
    BY <1>6, Zenon DEF U!loadUserTable
  <2>. QED  BY <1>0, <2>1, <2>2, <2>3, <2>4
<1>7. ASSUME NEW c \in calls, U!web_policy(c) \/ U!web_deleteuser(c) \/ U!Lose(c) PROVE UsersTypes'
  <2>1. /\ calls' \subseteq calls
        /\ UNCHANGED <<acts, shown, topPriority, dialogs, tables, lowered>>
    BY <1>7 DEF U!web_policy, U!web_deleteuser, U!Lose
  <2>2. policy' \subseteq Rules
    <3>1. CASE U!web_policy(c)
      <4>1. c.rule \in Rules
        BY <1>0, <3>1 DEF U!web_policy, U!Writes
      <4>. QED  BY <1>0, <3>1, <4>1 DEF U!web_policy
    <3>2. CASE U!web_deleteuser(c) \/ U!Lose(c)
      BY <1>0, <3>2 DEF U!web_deleteuser, U!Lose
    <3>. QED  BY <1>7, <3>1, <3>2
  <2>. QED  BY <1>0, <2>1, <2>2
<1>8. CASE U!ReadTable \/ UNCHANGED U!vars
  <2>1. /\ calls' \subseteq calls /\ tables' \subseteq tables \cup {policy}
        /\ UNCHANGED <<acts, policy, shown, topPriority, dialogs, lowered>>
    BY <1>8 DEF U!ReadTable, U!vars
  <2>. QED  BY <1>0, <2>1
<1>. HIDE DEF Panel, Sent, Boxes, Known
<1>. QED  BY <1>2, <1>3, <1>4, <1>5, <1>6, <1>7, <1>8 DEF U!Next

\* What was entered on the pages, and a request made from it.
Entered == [W!Fields -> SUBSET Inputs]
WizardRequest(c) ==
    /\ c.files \subseteq W!Files /\ DOMAIN c.of = W!Fields
    /\ c.what # "mkvm" => c.of \in Entered

\* The drawers whose LPARs are still to be made, and those that are done.
Missing == {n \in 1..Drawers : W!Mkvm(n) \in calls}
DrawersLeft ==
    IF lpars = W!NoDialog THEN Missing = {}
    ELSE lpars \in 0..Drawers /\ lpars + Cardinality(Missing) <= Drawers

WizardTypes == W!TypeOK /\ (\A c \in calls : WizardRequest(c)) /\ DrawersLeft

LEMMA FieldsIn ==
    /\ W!Nothing \in Entered
    /\ env \in Entered => \A s, vs : vs \subseteq Inputs => W!Entered(s, vs) \in Entered
    /\ W!Fields \subseteq W!Files /\ W!Maps \subseteq W!Fields /\ "site" \in W!Fields
    /\ "basic" \in W!Fields
  BY DEF Entered, W!Nothing, W!Entered, W!Files, W!Fields, W!Maps

\* The requests there are.
LEMMA WizardRequests ==
    ASSUME NEW e \in Entered
    PROVE  /\ W!Nothing \in Entered
           /\ \A what : WizardRequest(W!Ask(what))
           /\ \A f \in W!Files : WizardRequest(W!Write(f, e))
           /\ \A s, v : s # "mkvm" /\ v \in Inputs => WizardRequest(W!Upload(s, v))
           /\ \A n : WizardRequest(W!Mkvm(n))
           /\ WizardRequest([what |-> "conf", files |-> {"basic", "site"}, of |-> e])
<1>1. W!Nothing \in Entered
  BY DEF Entered, W!Nothing
<1>2. \A s, v : v \in Inputs => [W!Nothing EXCEPT ![s] = {v}] \in Entered
  BY <1>1 DEF Entered
<1>3. \A d \in Entered : DOMAIN d = W!Fields
  BY DEF Entered
<1>4. {"basic", "site"} \subseteq W!Files
  BY DEF W!Files, W!Fields
<1>. QED
  BY <1>1, <1>2, <1>3, <1>4 DEF WizardRequest, W!Ask, W!Write, W!Upload, W!Mkvm

LEMMA MkvmDiffer ==
    /\ \A m, n : W!Mkvm(m) = W!Mkvm(n) => m = n
    /\ \A n : W!Mkvm(n).what = "mkvm"
<1>1. "basic" \in W!Fields
  BY DEF W!Fields
<1>2. ASSUME NEW m, NEW n, W!Mkvm(m) = W!Mkvm(n) PROVE m = n
  <2>1. W!Mkvm(m).of["basic"] = {m} /\ W!Mkvm(n).of["basic"] = {n}
    BY <1>1 DEF W!Mkvm
  <2>2. {m} = {n}
    BY <1>2, <2>1
  <2>. QED  BY <2>2
<1>. QED  BY <1>2 DEF W!Mkvm

\* Without a new request for a drawer.
LEMMA DrawersStay ==
    ASSUME DrawersLeft, lpars' = lpars, \A c \in calls' : c.what = "mkvm" => c \in calls
    PROVE  DrawersLeft'
<1>1. Missing' \subseteq Missing /\ Missing \subseteq 1..Drawers /\ Drawers \in Nat
  BY BoundsOK, MkvmDiffer DEF Missing
<1>2. IsFiniteSet(Missing) /\ IsFiniteSet(Missing')
  <2>1. IsFiniteSet(1..Drawers)
    BY <1>1, FS_Interval
  <2>. QED  BY <1>1, <2>1, FS_Subset
<1>3. /\ Cardinality(Missing) \in Nat /\ Cardinality(Missing') \in Nat
      /\ Cardinality(Missing') <= Cardinality(Missing)
  BY <1>1, <1>2, FS_CardinalityType, FS_Subset
<1>. QED  BY <1>1, <1>3 DEF DrawersLeft

Panes == {"none", "wait", "choose", "lsslp", "stuck", "radios", "mapped", "form"}

\* A page that comes.
LEMMA EnterTypes ==
    ASSUME WizardTypes, WizardIInv', NEW n \in 1..11, NEW way, NEW e \in Entered, NEW saved,
           \A c \in saved : WizardRequest(c) /\ c.what # "mkvm",
           W!Enter(n, way, e, saved), acts' \in 0..MaxWizardActs
    PROVE  WizardTypes'
<1> DEFINE s == W!Steps[n]
           posted == W!PostedBy(s, e, way)
<1>1. /\ step' = n /\ env' = e /\ lpars' = lpars /\ written' = written /\ setup' = setup
      /\ calls' \subseteq calls \cup saved \cup posted
      /\ turns' \in {turns, turns + 1} /\ turns' <= MaxTurns
      /\ rows' \in {e[s], {}} /\ (s \notin W!Maps => rows' = {})
      /\ pane' \in {"choose", "none", "wait"}
  BY DEF W!Enter, W!server
<1>. HIDE DEF s
<1>2. ASSUME NEW c \in posted PROVE WizardRequest(c) /\ c.what # "mkvm"
  <2>1. \/ c = W!Ask("tabdump") \/ c = W!Ask("lsslpWriteHMC")
        \/ c = [what |-> "conf", files |-> {"basic", "site"}, of |-> e]
    BY DEF W!PostedBy
  <2>2. c.what # "mkvm"
    BY <2>1 DEF W!Ask
  <2>. QED  BY <2>1, <2>2, WizardRequests
<1>. HIDE DEF posted
<1>3. \A c \in calls' : WizardRequest(c)
  BY <1>1, <1>2 DEF WizardTypes
<1>4. DrawersLeft'
  <2>1. \A c \in calls' : c.what = "mkvm" => c \in calls
    BY <1>1, <1>2
  <2>. QED  BY <1>1, <2>1, DrawersStay DEF WizardTypes
<1>5. rows' \subseteq Inputs
  <2>1. s \in W!Maps => e[s] \subseteq Inputs
    BY DEF Entered, W!Fields
  <2>. QED  BY <1>1, <2>1
<1>6. turns' \in 0..MaxTurns
  BY <1>1, BoundsOK DEF WizardTypes, W!TypeOK
<1>7. /\ buttons' \in BOOLEAN /\ hasty' \in BOOLEAN /\ intruded' \in BOOLEAN /\ lost' \in BOOLEAN
      /\ step' \in 1..11
  BY DEF WizardIInv
<1>8. lpars' \in 0..Drawers \cup {W!NoDialog}
  BY <1>4 DEF DrawersLeft
<1>9. /\ env' \in Entered /\ pane' \in Panes
      /\ {written', setup'} \subseteq [W!Files -> SUBSET Inputs]
  BY <1>1 DEF WizardTypes, W!TypeOK, Panes
<1>10. W!TypeOK'
  BY <1>3, <1>5, <1>6, <1>7, <1>8, <1>9 DEF W!TypeOK, WizardRequest, Panes, Entered
<1>. QED  BY <1>3, <1>4, <1>10 DEF WizardTypes

LEMMA StayTypes ==
    ASSUME WizardTypes, WizardIInv', turns' = turns, acts' \in 0..MaxWizardActs,
           env' \in Entered, rows' \subseteq Inputs, pane' \in Panes,
           {written', setup'} \subseteq [W!Files -> SUBSET Inputs],
           \A c \in calls' : c \in calls \/ WizardRequest(c), DrawersLeft'
    PROVE  WizardTypes'
<1>1. /\ buttons' \in BOOLEAN /\ hasty' \in BOOLEAN /\ intruded' \in BOOLEAN /\ lost' \in BOOLEAN
      /\ step' \in 1..11
  BY DEF WizardIInv
<1>2. turns' \in 0..MaxTurns
  BY DEF WizardTypes, W!TypeOK
<1>3. \A c \in calls' : WizardRequest(c)
  BY DEF WizardTypes
<1>4. lpars' \in 0..Drawers \cup {W!NoDialog}
  BY DEF DrawersLeft
<1>5. W!TypeOK'
  BY <1>1, <1>2, <1>3, <1>4 DEF W!TypeOK, WizardRequest, Panes, Entered
<1>. QED  BY <1>3, <1>5 DEF WizardTypes

\* The dialog: a request for each drawer, and its answers.
LEMMA LparTypes ==
    ASSUME WizardTypes,
            \/ W!ihCreateLpar
            \/ W!CloseDialog
            \/ \E n \in 1..Drawers : W!updateCreateLparDia(n)
    PROVE  /\ DrawersLeft' /\ \A c \in calls' : c \in calls \/ WizardRequest(c)
           /\ UNCHANGED <<step, turns, buttons, pane, env, rows, written, setup, acts, hasty,
                          intruded, lost>>
<1>1. UNCHANGED <<step, turns, buttons, pane, env, rows, written, setup, acts, hasty, intruded,
                  lost>>
  BY DEF W!ihCreateLpar, W!CloseDialog, W!updateCreateLparDia, W!wizard, W!server, W!history
<1>2. Drawers \in Nat /\ Missing \subseteq 1..Drawers /\ DrawersLeft /\ W!NoDialog \notin Nat
  BY BoundsOK DEF Missing, WizardTypes, W!NoDialog
<1>3. IsFiniteSet(1..Drawers) /\ Cardinality(1..Drawers) = Drawers
  BY <1>2, FS_Interval
<1>4. IsFiniteSet(Missing) /\ Cardinality(Missing) \in Nat
  BY <1>2, <1>3, FS_Subset, FS_CardinalityType
<1>5. CASE W!ihCreateLpar
  <2>1. calls' = calls \cup {W!Mkvm(n) : n \in 1..Drawers} /\ lpars' = 0
    BY <1>5 DEF W!ihCreateLpar
  <2>2. Missing' = 1..Drawers
    BY <2>1 DEF Missing
  <2>3. DrawersLeft'
    BY <1>2, <1>3, <2>1, <2>2 DEF DrawersLeft
  <2>4. W!Nothing \in Entered
    BY FieldsIn
  <2>. QED  BY <1>1, <2>1, <2>3, <2>4, WizardRequests
<1>6. CASE W!CloseDialog
  <2>1. lpars = Drawers /\ lpars' = W!NoDialog /\ calls' = calls
    BY <1>6 DEF W!CloseDialog
  <2>2. Cardinality(Missing) = 0
    BY <1>2, <1>4, <2>1 DEF DrawersLeft
  <2>3. Missing = {}
    BY <1>4, <2>2, FS_EmptySet
  <2>4. Missing' = Missing
    BY <2>1 DEF Missing
  <2>. QED  BY <1>1, <2>1, <2>3, <2>4 DEF DrawersLeft
<1>7. ASSUME NEW n \in 1..Drawers, W!updateCreateLparDia(n)
      PROVE  DrawersLeft' /\ calls' \subseteq calls
  <2>1. W!Mkvm(n) \in calls /\ calls' = calls \ {W!Mkvm(n)} /\ lpars' = lpars + 1
    BY <1>7 DEF W!updateCreateLparDia, W!Answered
  <2>2. n \in Missing /\ Missing' = Missing \ {n}
    BY <2>1, MkvmDiffer DEF Missing
  <2>3. Cardinality(Missing') = Cardinality(Missing) - 1
    BY <1>4, <2>2, FS_RemoveElement
  <2>4. lpars \in 0..Drawers /\ lpars + Cardinality(Missing) <= Drawers
    BY <1>2, <2>2 DEF DrawersLeft
  <2>5. Cardinality(Missing') \in Nat
    <3>1. IsFiniteSet(Missing')
      BY <1>4, <2>2, FS_RemoveElement
    <3>. QED  BY <3>1, FS_CardinalityType
  <2>6. lpars' \in 0..Drawers /\ lpars' + Cardinality(Missing') <= Drawers
    BY <1>2, <1>4, <2>1, <2>3, <2>4, <2>5
  <2>. QED  BY <1>2, <2>1, <2>6 DEF DrawersLeft
<1>. QED  BY <1>1, <1>5, <1>6, <1>7

LEMMA WizardTypesInit == W!Init => WizardTypes
<1> SUFFICES ASSUME W!Init PROVE WizardTypes
  OBVIOUS
<1>1. buttons \in BOOLEAN /\ hasty \in BOOLEAN /\ intruded \in BOOLEAN /\ lost \in BOOLEAN
  BY Zenon DEF W!Init
<1>2. /\ 0 \in 0..MaxTurns /\ 0 \in 0..MaxWizardActs
      /\ W!Nothing \in [W!Fields -> SUBSET Inputs]
  BY BoundsOK DEF W!Nothing
<1>3. calls = {} /\ lpars = W!NoDialog
  BY DEF W!Init
<1>4. DrawersLeft
  BY <1>3 DEF DrawersLeft, Missing
<1>5. {written, setup} \subseteq [W!Files -> SUBSET Inputs]
  BY DEF W!Init
<1>. QED  BY <1>1, <1>2, <1>3, <1>4, <1>5 DEF W!Init, W!TypeOK, WizardTypes

LEMMA WizardTypesStep ==
    WizardIInv /\ WizardIInv' /\ WizardTypes /\ [W!Next]_(W!vars) => WizardTypes'
<1> SUFFICES ASSUME WizardIInv, WizardIInv', WizardTypes, [W!Next]_(W!vars) PROVE WizardTypes'
  OBVIOUS
<1>0. /\ step \in 1..11 /\ acts \in 0..MaxWizardActs /\ MaxWizardActs \in Nat
      /\ env \in Entered /\ rows \subseteq Inputs /\ pane \in Panes
      /\ {written, setup} \subseteq [W!Files -> SUBSET Inputs]
      /\ \A c \in calls : WizardRequest(c)
      /\ DrawersLeft
  BY BoundsOK DEF WizardTypes, W!TypeOK, Panes, Entered
<1>1. ASSUME NEW n \in Nat, W!Spend(n) PROVE acts' \in 0..MaxWizardActs
  BY <1>0, <1>1 DEF W!Spend
<1>2. W!Hurry \in 0..1 /\ \A e : W!Cost(e) \in 0..2
  BY DEF W!Hurry, W!Cost
\* The pages
<1>3. ASSUME NEW e \in Entered, NEW saved, \A c \in saved : WizardRequest(c) /\ c.what = "write",
             W!BackClick(e) \/ W!NextClick(e, saved)
      PROVE  WizardTypes'
  <2>1. acts' \in 0..MaxWizardActs
    BY <1>1, <1>2, <1>3 DEF W!BackClick, W!NextClick
  <2>2. CASE W!BackClick(e)
    <3>1. step - 1 \in 1..11 /\ W!Enter(step - 1, "back", e, {})
      BY <1>0, <2>2 DEF W!BackClick
    <3>. QED  BY <2>1, <3>1, EnterTypes
  <2>3. CASE W!NextClick(e, saved)
    <3>1. step + 1 \in 1..11 /\ W!Enter(step + 1, "next", e, saved)
      BY <1>0, <2>3 DEF W!NextClick, W!Click
    <3>2. \A c \in saved : WizardRequest(c) /\ c.what # "mkvm"
      BY <1>3
    <3>. QED  BY <2>1, <3>1, <3>2, EnterTypes
  <2>. QED  BY <1>3, <2>2, <2>3
<1>4. CASE W!Cancel
  <2>1. /\ W!Enter(1, "next", W!Nothing, {}) /\ W!Nothing \in Entered
        /\ W!Spend(1 + W!Hurry) /\ 1 + W!Hurry \in Nat
    BY <1>2, <1>4, FieldsIn DEF W!Cancel
  <2>2. acts' \in 0..MaxWizardActs
    BY <1>1, <2>1
  <2>. QED  BY <2>1, <2>2, EnterTypes
<1>5. \A s, vs : vs \in W!Entries \/ vs \subseteq Inputs => W!Entered(s, vs) \in Entered
  BY <1>0, FieldsIn DEF W!Entries
<1>6. \A f \in W!Files, e \in Entered : WizardRequest(W!Write(f, e)) /\ W!Write(f, e).what = "write"
  <2>1. \A f, e : W!Write(f, e).what = "write"
    BY DEF W!Write
  <2>. QED  BY <2>1, WizardRequests
<1>7. CASE W!getPlatform \/ W!PassOn
  <2>1. W!BackClick(env) \/ W!NextClick(env, {})
    BY <1>7 DEF W!getPlatform, W!PassOn
  <2>. QED  BY <1>0, <1>3, <2>1
<1>8. ASSUME NEW vs \in W!Entries,
             W!checkBasicPattern(vs) \/ W!checkSupernode(vs) \/ W!checkSiteTable(vs)
      PROVE  WizardTypes'
  <2>1. \E s, saved : /\ W!BackClick(W!Entered(s, vs)) \/ W!NextClick(W!Entered(s, vs), saved)
                      /\ \/ saved = {}
                         \/ \E f \in {"supernode", "range"} : saved = {W!Write(f, W!Entered(s, vs))}
    BY <1>8 DEF W!checkBasicPattern, W!checkSupernode, W!checkSiteTable
  <2>2. {"supernode", "range"} \subseteq W!Files
    BY DEF W!Files, W!Fields
  <2>. QED  BY <1>3, <1>5, <1>6, <2>1, <2>2
<1>9. CASE W!checkFrameMtms \/ W!checkHmcMtms
  <2>1. PICK s \in W!Maps : W!SaveMaps(s)
    BY <1>9 DEF W!checkFrameMtms, W!checkHmcMtms, W!Maps
  <2>2. PICK e : /\ e = W!Entered(s, rows)
                 /\ W!BackClick(e) \/ W!NextClick(e, {W!Write(s, e)})
    BY <2>1 DEF W!SaveMaps
  <2>3. e \in Entered /\ s \in W!Files
    BY <1>0, <1>5, <2>2, FieldsIn
  <2>. QED  BY <1>3, <1>6, <2>2, <2>3
\* What stays on the page
<1>10. ASSUME lpars' = lpars, \A c \in calls' : c \in calls \/ (WizardRequest(c) /\ c.what # "mkvm")
       PROVE  DrawersLeft' /\ \A c \in calls' : c \in calls \/ WizardRequest(c)
  BY <1>0, <1>10, DrawersStay
<1>11. ASSUME NEW s \in W!Fields \ W!Maps, W!Refused(s) PROVE WizardTypes'
  <2>1. /\ env' = W!Entered(s, {}) /\ W!Spend(W!Cost(env'))
        /\ UNCHANGED <<turns, pane, rows, calls, written, setup, lpars>>
    BY <1>11 DEF W!Refused, W!server
  <2>2. env' \in Entered /\ acts' \in 0..MaxWizardActs
    <3>1. W!Cost(env') \in Nat
      BY <1>2
    <3>. QED  BY <1>1, <1>5, <2>1, <3>1
  <2>3. DrawersLeft'
    BY <1>10, <2>1
  <2>. QED  BY <1>0, <2>1, <2>2, <2>3, StayTypes
<1>12. CASE W!DiscoverClick \/ W!ImportClick \/ W!createMap \/ W!deleteMap
  <2>1. /\ pane' \in Panes
        /\ rows' \subseteq rows \cup env["basic"]
        /\ calls' \subseteq calls \cup {W!Ask("discover")}
        /\ UNCHANGED <<turns, env, written, setup, lpars, acts>>
    BY <1>12 DEF W!DiscoverClick, W!ImportClick, W!createMap, W!deleteMap, W!server, Panes
  <2>2. WizardRequest(W!Ask("discover")) /\ W!Ask("discover").what # "mkvm"
    <3>1. W!Ask("discover").what # "mkvm"
      BY DEF W!Ask
    <3>. QED  BY <1>0, <3>1, WizardRequests
  <2>3. rows' \subseteq Inputs
    BY <1>0, <2>1, FieldsIn DEF Entered
  <2>. QED  BY <1>0, <1>10, <2>1, <2>2, <2>3, StayTypes
<1>13. ASSUME NEW v \in Inputs, W!Parse(v) PROVE WizardTypes'
  <2>1. /\ calls' = calls \cup {W!Upload(W!Steps[step], v)}
        /\ UNCHANGED <<turns, pane, env, rows, written, setup, lpars>>
        /\ W!Spend(IF calls = {} THEN 0 ELSE 1)
    BY <1>13 DEF W!Parse, W!wizard, W!server
  <2>2. acts' \in 0..MaxWizardActs
    BY <1>1, <2>1
  <2>3. W!Steps[step] # "mkvm"
    BY <1>0 DEF W!Steps
  <2>4. PICK c : c = W!Upload(W!Steps[step], v)
    OBVIOUS
  <2>5. WizardRequest(c) /\ c.what # "mkvm"
    <3>1. c.what = W!Steps[step]
      BY <2>4 DEF W!Upload
    <3>. QED  BY <1>0, <2>3, <2>4, <3>1, WizardRequests
  <2>. QED  BY <1>0, <1>10, <2>1, <2>2, <2>4, <2>5, StayTypes
<1>14. CASE W!ihCreateLpar \/ W!CloseDialog \/ \E n \in 1..Drawers : W!updateCreateLparDia(n)
  <2>1. /\ DrawersLeft' /\ \A c \in calls' : c \in calls \/ WizardRequest(c)
        /\ UNCHANGED <<turns, pane, env, rows, written, setup, acts>>
    BY <1>14, LparTypes
  <2>. QED  BY <1>0, <2>1, StayTypes
\* Answers
<1>15. ASSUME calls' \subseteq calls, env' \in Entered, rows' \subseteq Inputs, pane' \in Panes,
              {written', setup'} \subseteq [W!Files -> SUBSET Inputs],
              acts' \in 0..MaxWizardActs, UNCHANGED <<turns, lpars>>
       PROVE  WizardTypes'
  BY <1>0, <1>10, <1>15, StayTypes
<1>16. CASE W!TabdumpAnswered
  <2>1. /\ calls' \subseteq calls /\ env' = W!Entered("site", {}) /\ pane' \in {"none", pane}
        /\ UNCHANGED <<turns, rows, written, setup, lpars, acts>>
    BY <1>16 DEF W!TabdumpAnswered, W!Answered, W!server
  <2>2. env' \in Entered
    BY <1>5, <2>1
  <2>. QED  BY <1>0, <1>15, <2>1, <2>2 DEF Panes
<1>26. CASE W!EmptyDiscovery
  <2>1. /\ calls' \subseteq calls /\ pane' \in {"stuck", pane}
        /\ UNCHANGED <<turns, env, rows, written, setup, lpars, acts>>
    BY <1>26 DEF W!EmptyDiscovery, W!Answered, W!server
  <2>. QED  BY <1>0, <1>15, <2>1 DEF Panes
<1>17. ASSUME NEW fits \in BOOLEAN, W!discoverFrame(fits) PROVE WizardTypes'
  <2>1. /\ calls' \subseteq calls /\ pane' \in {"radios", pane}
        /\ UNCHANGED <<turns, env, rows, written, setup, lpars, acts>>
    BY <1>17 DEF W!discoverFrame, W!Answered, W!server
  <2>. QED  BY <1>0, <1>15, <2>1 DEF Panes
<1>18. ASSUME NEW c \in calls, W!parseMtmsMap(c) PROVE WizardTypes'
  <2>1. /\ c.what \in W!Maps /\ calls' \subseteq calls
        /\ rows' \subseteq rows \cup c.of[c.what]
        /\ UNCHANGED <<turns, pane, env, written, setup, lpars, acts>>
    BY <1>18 DEF W!parseMtmsMap, W!Answered, W!server
  <2>2. c.of \in Entered
    BY <1>0, <2>1 DEF WizardRequest, W!Maps
  <2>3. c.of[c.what] \subseteq Inputs
    BY <2>1, <2>2, FieldsIn DEF Entered
  <2>. QED  BY <1>0, <1>15, <2>1, <2>3
<1>19. ASSUME NEW c \in calls, W!Written(c), c.what \in {"write", "conf"}
       PROVE  written' \in [W!Files -> SUBSET Inputs]
  <2>1. c.of \in Entered
    BY <1>0, <1>19 DEF WizardRequest
  <2>2. \A f \in W!Files : f # "range" => f \in W!Fields
    BY DEF W!Files
  <2>3. \A f \in W!Files : c.of[IF f = "range" THEN "site" ELSE f] \in SUBSET Inputs
    BY <2>1, <2>2, FieldsIn DEF Entered
  <2>. QED  BY <1>0, <1>19, <2>3 DEF W!Written
<1>20. ASSUME NEW c \in calls, W!WriteDone(c) PROVE WizardTypes'
  <2>1. /\ calls' \subseteq calls /\ c.what = "write" /\ W!Written(c)
        /\ UNCHANGED <<turns, pane, env, rows, setup, lpars, acts>>
    BY <1>20 DEF W!WriteDone, W!Answered, W!wizard
  <2>. QED  BY <1>0, <1>15, <1>19, <2>1
<1>21. ASSUME NEW c \in calls, W!createSetupFile(c) PROVE WizardTypes'
  <2>1. /\ calls' = (calls \ {c}) \cup {W!Ask("xcatsetup")} /\ c.what = "conf" /\ W!Written(c)
        /\ UNCHANGED <<turns, pane, env, rows, setup, lpars, acts>>
    BY <1>21 DEF W!createSetupFile, W!wizard
  <2>2. WizardRequest(W!Ask("xcatsetup")) /\ W!Ask("xcatsetup").what # "mkvm"
    <3>1. W!Ask("xcatsetup").what # "mkvm"
      BY DEF W!Ask
    <3>. QED  BY <1>0, <3>1, WizardRequests
  <2>3. written' \in [W!Files -> SUBSET Inputs]
    BY <1>19, <2>1
  <2>. QED  BY <1>0, <1>10, <2>1, <2>2, <2>3, StayTypes
<1>22. CASE W!runSetup
  <2>1. /\ calls' \subseteq calls /\ setup' = written
        /\ UNCHANGED <<turns, pane, env, rows, written, lpars, acts>>
    BY <1>22 DEF W!runSetup, W!Answered
  <2>. QED  BY <1>0, <1>15, <2>1
<1>23. CASE W!FramesUpdated \/ W!CecsUpdated
  <2>1. /\ UNCHANGED <<turns, pane, env, rows, written, setup, lpars, acts>>
        /\ \E what \in W!Updates : calls' \subseteq calls \cup {W!Ask(what)}
    <3>1. /\ \A i \in 1..5 : W!FrameCommands[i] \in W!Updates
          /\ \A i \in 1..4 : W!CecCommands[i] \in W!Updates
      BY DEF W!Updates
    <3>2. ASSUME NEW cmd, NEW next \in W!Updates, W!Follow(cmd, next)
          PROVE  /\ UNCHANGED <<turns, pane, env, rows, written, setup, lpars, acts>>
                 /\ calls' \subseteq calls \cup {W!Ask(next)}
      BY <3>2 DEF W!Follow, W!wizard, W!server
    <3>3. (\E cmd, next \in W!Updates : W!Follow(cmd, next)) \/
            /\ calls' \subseteq calls
            /\ UNCHANGED <<turns, pane, env, rows, written, setup, lpars, acts>>
      BY <1>23, <3>1 DEF W!FramesUpdated, W!CecsUpdated, W!Answered, W!server
    <3>. QED  BY <3>1, <3>2, <3>3
  <2>2. \A what \in W!Updates : WizardRequest(W!Ask(what)) /\ W!Ask(what).what # "mkvm"
    <3>1. \A what : W!Ask(what).what = what
      BY DEF W!Ask
    <3>2. "mkvm" \notin W!Updates
      BY DEF W!Updates, W!FrameCommands, W!CecCommands
    <3>. QED  BY <1>0, <3>1, <3>2, WizardRequests
  <2>. QED  BY <1>0, <1>10, <2>1, <2>2, StayTypes
<1>24. ASSUME NEW c \in calls, W!Lose(c) PROVE WizardTypes'
  <2>1. /\ calls' \subseteq calls /\ W!Spend(1)
        /\ UNCHANGED <<turns, pane, env, rows, written, setup, lpars>>
    BY <1>24 DEF W!Lose, W!Answered, W!wizard, W!server
  <2>2. acts' \in 0..MaxWizardActs
    BY <1>1, <2>1
  <2>. QED  BY <1>0, <1>15, <2>1, <2>2
<1>25. CASE UNCHANGED W!vars
  <2>1. UNCHANGED <<turns, pane, env, rows, calls, written, setup, lpars, acts>>
    BY <1>25 DEF W!vars, W!wizard, W!server
  <2>. QED  BY <1>0, <1>15, <2>1
<1>. QED
  BY <1>4, <1>7, <1>8, <1>9, <1>11, <1>12, <1>13, <1>14, <1>16, <1>17, <1>18, <1>20, <1>21, <1>22,
     <1>23, <1>24, <1>25, <1>26
     DEF W!Next, W!User, W!Answer

---------------------------------------------------------------------------------
\* The pages.
Pages == {"new", "entry", "lookup", "range", "existing", "actions", "resources", "dialogs", "nodes",
          "tabs", "chains", "catalogs", "users", "wizard"}

\* The variables of every page keep to their types, for any bounds, names and answers:
\* what the page shows, what is in flight, and the counters that bound the checks. Of
\* the drawers of the wizard no more than there are come to be done, although an answer
\* counts whatever was asked; and the first page of nodes is one of the pages.
THEOREM Types == Spec => []TypeOK
<1> DEFINE IInv ==
       /\ page = "new" => P!TypeOK
       /\ page = "entry" => E!TypeOK
       /\ page = "lookup" => L!IInv /\ L!TypeOK
       /\ page = "range" => C!TypeOK
       /\ page = "existing" => R!TypeOK
       /\ page = "actions" => A!IInv /\ A!Bounded /\ A!Flags
       /\ page = "resources" => S!TypeOK
       /\ page = "dialogs" => DialogTypes
       /\ page = "nodes" => NodesTypes
       /\ page = "tabs" => TabsIInv /\ TabsTypes
       /\ page = "chains" => V!TypeOK
       /\ page = "catalogs" => CatalogsIInv /\ CatalogAges
       /\ page = "users" => UsersTypes
       /\ page = "wizard" => WizardIInv /\ WizardTypes
       /\ page \in Pages
<1>0. {MaxDisks, MaxZfcp} \subseteq Nat /\ MaxLookups \in Nat /\ {MaxCalls, MaxProcs} \subseteq Nat
  BY BoundsOK
<1>1. Init => IInv
  BY <1>0, P!InitTypes, E!InitTypes, L!InitInv, L!InitTypes, RangeTypesInit, ExistingTypesInit,
     A!InitInv, A!InitTypes, ResourceTypesInit, DialogTypesInit, NodesTypesInit, TabsInit,
     TabsTypesInit, ChainsTypesInit, CatalogsInit, CatalogAgesInit, UsersTypesInit, WizardInit,
     WizardTypesInit
     DEF Init, Pages
<1>2. IInv /\ [Next]_vars => IInv'
  <2> SUFFICES ASSUME IInv, [Next]_vars PROVE IInv'
    OBVIOUS
  <2>1. page' = page /\ page \in Pages
    BY SamePage
  <2>2. CASE page = "new"
    BY <1>0, <2>1, <2>2, NewPage, P!StepTypes
  <2>3. CASE page = "entry"
    BY <2>1, <2>3, EntryPage, E!StepTypes
  <2>4. CASE page = "lookup"
    BY <1>0, <2>1, <2>4, LookupPage, L!StepInv, L!StepTypes
  <2>5. CASE page = "range"
    BY <2>1, <2>5, RangePage, RangeTypes
  <2>6. CASE page = "existing"
    BY <2>1, <2>6, ExistingPage, ExistingTypes
  <2>7. CASE page = "actions"
    BY <1>0, <2>1, <2>7, ActionsPage, A!StepInv, A!StepTypes
  <2>8. CASE page = "resources"
    BY <2>1, <2>8, ResourcesPage, ResourceTypesStep
  <2>9. CASE page = "dialogs"
    BY <2>1, <2>9, DialogsPage, DialogTypesStep
  <2>10. CASE page = "nodes"
    BY <2>1, <2>10, NodesPageOnly, NodesTypesStep
  <2>11. CASE page = "tabs"
    BY <2>1, <2>11, TabsPage, TabsStep, TabsTypesStep
  <2>12. CASE page = "chains"
    BY <2>1, <2>12, ChainsPage, ChainsTypes
  <2>13. CASE page = "catalogs"
    BY <2>1, <2>13, CatalogsPage, CatalogsStep, CatalogAgesStep
  <2>14. CASE page = "users"
    BY <2>1, <2>14, UsersPage, UsersTypesStep
  <2>15. CASE page = "wizard"
    BY <2>1, <2>15, WizardPage, WizardStep, WizardTypesStep
  <2>. HIDE DEF IInv
  <2>. QED
    BY <2>1, <2>2, <2>3, <2>4, <2>5, <2>6, <2>7, <2>8, <2>9, <2>10, <2>11, <2>12, <2>13, <2>14,
       <2>15 DEF Pages
<1>3. IInv => TypeOK
  <2> SUFFICES ASSUME IInv PROVE TypeOK
    OBVIOUS
  <2>1. page = "lookup" => L!TypeOK
    OBVIOUS
  <2>2. page = "actions" => A!TypeOK
    BY <1>0, A!TypesHold
  <2>3. page = "catalogs" => G!TypeOK
    BY CatalogsTyped DEF CatalogsIInv
  <2>4. page = "dialogs" => D!TypeOK
    BY DEF DialogTypes
  <2>5. page = "nodes" => N!TypeOK
    BY DEF NodesTypes
  <2>6. page = "tabs" => T!TypeOK
    BY DEF TabsTypes
  <2>7. page = "users" => U!TypeOK
    BY DEF UsersTypes
  <2>8. page = "wizard" => W!TypeOK
    BY DEF WizardTypes
  <2>9. CASE page = "new"
    BY <2>9 DEF TypeOK
  <2>10. CASE page = "entry"
    BY <2>10 DEF TypeOK
  <2>11. CASE page = "lookup"
    BY <2>1, <2>11 DEF TypeOK
  <2>12. CASE page = "range"
    BY <2>12 DEF TypeOK
  <2>13. CASE page = "existing"
    BY <2>13 DEF TypeOK
  <2>14. CASE page = "actions"
    BY <2>2, <2>14 DEF TypeOK
  <2>15. CASE page = "resources"
    BY <2>15 DEF TypeOK
  <2>16. CASE page = "dialogs"
    BY <2>4, <2>16 DEF TypeOK
  <2>17. CASE page = "nodes"
    BY <2>5, <2>17 DEF TypeOK
  <2>18. CASE page = "tabs"
    BY <2>6, <2>18 DEF TypeOK
  <2>19. CASE page = "chains"
    BY <2>19 DEF TypeOK
  <2>20. CASE page = "catalogs"
    BY <2>3, <2>20 DEF TypeOK
  <2>21. CASE page = "users"
    BY <2>7, <2>21 DEF TypeOK
  <2>22. CASE page = "wizard"
    BY <2>8, <2>22 DEF TypeOK
  <2>. QED
    BY <2>9, <2>10, <2>11, <2>12, <2>13, <2>14, <2>15, <2>16, <2>17, <2>18, <2>19, <2>20, <2>21,
       <2>22 DEF Pages
<1>. HIDE DEF IInv
<1>. QED  BY <1>1, <1>2, <1>3, PTL DEF Spec
=================================================================================
