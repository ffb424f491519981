-------------------------------- MODULE NodeTabs ---------------------------------
(* The tabs that the menus of the nodes page open to run a command on the nodes    *)
(* that were checked (nodes/nodes.js, nodeset.js, rnetboot.js, updatenode.js). A   *)
(* tab has the lowest free number of its kind; answers are written to the tab with *)
(* the number of the one that asked, whichever that is when they come. Kinds share *)
(* nothing: a behaviour is about one. Equal requests are kept as one.              *)
EXTENDS Ajax, Integers

CONSTANTS
    Targets,    \* node ranges
    MaxTabs,    \* bound on the tabs open at once
    MaxActs,    \* bound on what the user does
    NoTab

VARIABLES
    kind,       \* which tabs
    acts,       \* what the user did so far
    tabs,       \* the open tabs
    newTabId,   \* the global with the number of the last delete tab
    images,     \* the cookie with the operating system images is set
    calls,      \* requests in flight
    chained,    \* per nodeset, the range of its nodeadd and its own
    deletes,    \* per deletion, the box in its tab and the command
    reused,     \* a tab was closed with a request in flight
    lost        \* a request got no answer

vars == <<kind, acts, tabs, newTabId, images, calls, chained, deletes, reused, lost>>

Kinds == {"script", "unlock", "unlockNonNodes", "delete", "updatenode", "netboot", "nodeset"}
Insts == 0..(MaxTabs - 1)

\* The status bar is hidden with a loader in it, or shown with it; or the loader is
\* hidden.
Bars == {"hidden", "loading", "done"}
Tab(tgt) == [tgt |-> tgt, dbOnly |-> TRUE, enabled |-> TRUE, bar |-> "hidden"]

Request(cmd, inst, tgt) == [cmd |-> cmd, inst |-> inst, tgt |-> tgt]

Init ==
    /\ kind \in Kinds
    /\ acts = 0
    /\ tabs = [i \in Insts |-> NoTab]
    /\ newTabId = 0
    /\ images \in BOOLEAN
    /\ calls = {}
    /\ chained = {} /\ deletes = {}
    /\ reused = FALSE /\ lost = FALSE

---------------------------------------------------------------------------------
(* The tabs *)

Act == acts < MaxActs /\ acts' = acts + 1

Free(i) == tabs[i] = NoTab /\ \A j \in 0..(i - 1) : tabs[j] # NoTab

Open(k, i, tgt) ==
    /\ kind = k /\ Act /\ Free(i)
    /\ tabs' = [tabs EXCEPT ![i] = Tab(tgt)]
    /\ UNCHANGED <<kind, images, chained, deletes, reused, lost>>

loadScriptPage(i, tgt) == Open("script", i, tgt) /\ UNCHANGED <<newTabId, calls>>
loadUnlockPage(i, tgt) == Open("unlock", i, tgt) /\ UNCHANGED <<newTabId, calls>>
loadUnlockNonNodesPage(i, tgt) == Open("unlockNonNodes", i, tgt) /\ UNCHANGED <<newTabId, calls>>
loadUpdatenodePage(i, tgt) == Open("updatenode", i, tgt) /\ UNCHANGED <<newTabId, calls>>
loadNetbootPage(i, tgt) == Open("netboot", i, tgt) /\ UNCHANGED <<newTabId, calls>>

\* The number is not declared as a variable of the function: there is one for all.
loadDeletePage(i, tgt) == Open("delete", i, tgt) /\ newTabId' = i /\ UNCHANGED calls

\* The images are asked for, and their cookie is read at once: without it this
\* raises, and no tab is opened.
loadNodesetPage(i, tgt) ==
    /\ IF images THEN Open("nodeset", i, tgt)
       ELSE /\ kind = "nodeset" /\ Act
            /\ UNCHANGED <<kind, tabs, images, chained, deletes, reused, lost>>
    /\ calls' = calls \cup {Request("tabdump", 0, NoTab)}
    /\ UNCHANGED newTabId

ImagesAnswered ==
    LET c == Request("tabdump", 0, NoTab)
    IN /\ c \in calls
       /\ calls' = calls \ {c}
       /\ images' = TRUE
       /\ UNCHANGED <<kind, acts, tabs, newTabId, chained, deletes, reused, lost>>

\* The cross, or "Cancel": the tab and its number are free again.
Close(i) ==
    /\ Act /\ tabs[i] # NoTab
    /\ tabs' = [tabs EXCEPT ![i] = NoTab]
    /\ reused' = (reused \/ \E c \in calls : c.cmd # "tabdump" /\ c.inst = i)
    /\ UNCHANGED <<kind, newTabId, images, calls, chained, deletes, lost>>

\* The range can be changed until the inputs are disabled.
EditTarget(i, tgt) ==
    /\ kind \in {"script", "updatenode", "netboot", "nodeset"}
    /\ Act /\ tabs[i] # NoTab /\ tabs[i].enabled
    /\ tabs' = [tabs EXCEPT ![i].tgt = tgt]
    /\ UNCHANGED <<kind, newTabId, images, calls, chained, deletes, reused, lost>>

CheckDbOnly(i) ==
    /\ kind = "delete" /\ Act /\ tabs[i] # NoTab
    /\ tabs' = [tabs EXCEPT ![i].dbOnly = ~@]
    /\ UNCHANGED <<kind, newTabId, images, calls, chained, deletes, reused, lost>>

---------------------------------------------------------------------------------
(* The commands *)

\* The command is posted and the bar shown, with its loader, if an answer has not
\* hidden that; scripts show it again. Unless "again" is set, the inputs and the
\* button are disabled.
Click(k, i, cmd, again) ==
    /\ kind = k /\ Act /\ tabs[i] # NoTab /\ tabs[i].enabled
    /\ tabs' = [tabs EXCEPT ![i].enabled = again,
                            ![i].bar = IF @ = "done" /\ k # "script" THEN @ ELSE "loading"]
    /\ calls' = calls \cup {Request(cmd, i, tabs[i].tgt)}
    /\ UNCHANGED <<kind, newTabId, images, chained, reused, lost>>

runScript(i) == Click("script", i, "xdsh", FALSE) /\ UNCHANGED deletes
Unlock(i) == Click("unlock", i, "unlock", FALSE) /\ UNCHANGED deletes
Update(i) == Click("updatenode", i, "updatenode", FALSE) /\ UNCHANGED deletes
Netboot(i) == Click("netboot", i, "rnetboot", FALSE) /\ UNCHANGED deletes
Nodeset(i) == Click("nodeset", i, "nodeadd", FALSE) /\ UNCHANGED deletes

\* Systems that are not nodes: the three buttons stay; "Unlock" shows the loader.
CreateScript(i) == Click("unlockNonNodes", i, "unlockshow", TRUE) /\ UNCHANGED deletes
GetKey(i) == Click("unlockNonNodes", i, "unlockshow", TRUE) /\ UNCHANGED deletes
UnlockByIp(i) ==
    /\ kind = "unlockNonNodes" /\ Act /\ tabs[i] # NoTab
    /\ tabs' = [tabs EXCEPT ![i].bar = "loading"]
    /\ calls' = calls \cup {Request("unlockbyip", i, tabs[i].tgt)}
    /\ UNCHANGED <<kind, newTabId, images, chained, deletes, reused, lost>>

\* "Only delete entries in database if checked": the box of the tab that the
\* global names, and no box is like one that is not checked.
Deletion == IF tabs[newTabId] # NoTab /\ tabs[newTabId].dbOnly THEN "noderm" ELSE "rmvm"
Delete(i) ==
    /\ Click("delete", i, Deletion, FALSE)
    /\ deletes' = deletes \cup {[dbOnly |-> tabs[i].dbOnly, cmd |-> Deletion]}

---------------------------------------------------------------------------------
(* The answers *)

\* What the answer to c does to the tab with its number, if there is one.
Write(c, enable) ==
    tabs' = IF tabs[c.inst] = NoTab THEN tabs
            ELSE [tabs EXCEPT ![c.inst].bar = "done", ![c.inst].enabled = @ \/ enable]

\* Only a script may be run again.
updateStatusBar(c) ==
    /\ c \in calls /\ c.cmd \in {"xdsh", "unlock", "unlockbyip", "updatenode", "rnetboot",
                                 "rmvm", "noderm"}
    /\ calls' = calls \ {c}
    /\ Write(c, c.cmd = "xdsh")
    /\ UNCHANGED <<kind, acts, newTabId, images, chained, deletes, reused, lost>>

\* updateScriptBar and updateKeyBar
ShowScriptOrKey(c) ==
    /\ c \in calls /\ c.cmd = "unlockshow"
    /\ calls' = calls \ {c}
    /\ Write(c, FALSE)
    /\ UNCHANGED <<kind, acts, newTabId, images, chained, deletes, reused, lost>>

\* updateNodesetStatus. nodeadd: an error ends it, as does an exception if there
\* is no tab to read the nodes from.
NodeaddAnswered(c, rsp) ==
    /\ c \in calls /\ c.cmd = "nodeadd"
    /\ IF HasText(rsp) \/ tabs[c.inst] = NoTab
       THEN calls' = calls \ {c} /\ Write(c, FALSE)
       ELSE calls' = (calls \ {c}) \cup {Request("makehosts", c.inst, c.tgt)} /\ UNCHANGED tabs
    /\ UNCHANGED <<kind, acts, newTabId, images, chained, deletes, reused, lost>>

\* Whatever was answered, nodeset is posted for the range that is in the tab now.
MakehostsAnswered(c) ==
    LET tgts == IF tabs[c.inst] = NoTab THEN NoTab ELSE tabs[c.inst].tgt
    IN /\ c \in calls /\ c.cmd = "makehosts"
       /\ calls' = (calls \ {c}) \cup {Request("nodeset", c.inst, tgts)}
       /\ chained' = chained \cup {<<c.tgt, tgts>>}
       /\ UNCHANGED <<kind, acts, tabs, newTabId, images, deletes, reused, lost>>

NodesetAnswered(c) ==
    /\ c \in calls /\ c.cmd = "nodeset"
    /\ calls' = calls \ {c}
    /\ Write(c, FALSE)
    /\ UNCHANGED <<kind, acts, newTabId, images, chained, deletes, reused, lost>>

\* The HTTP exchange fails.
Lose(c) ==
    /\ ~lost /\ c \in calls
    /\ calls' = calls \ {c}
    /\ lost' = TRUE
    /\ UNCHANGED <<kind, acts, tabs, newTabId, images, chained, deletes, reused>>

---------------------------------------------------------------------------------
User ==
    \E i \in Insts :
        \/ \E tgt \in Targets :
            \/ loadScriptPage(i, tgt)
            \/ loadUnlockPage(i, tgt)
            \/ loadUnlockNonNodesPage(i, tgt)
            \/ loadUpdatenodePage(i, tgt)
            \/ loadNetbootPage(i, tgt)
            \/ loadDeletePage(i, tgt)
            \/ loadNodesetPage(i, tgt)
            \/ EditTarget(i, tgt)
        \/ Close(i)
        \/ CheckDbOnly(i)
        \/ runScript(i)
        \/ Unlock(i)
        \/ Update(i)
        \/ Netboot(i)
        \/ Nodeset(i)
        \/ CreateScript(i)
        \/ GetKey(i)
        \/ UnlockByIp(i)
        \/ Delete(i)

Answer ==
    \/ ImagesAnswered
    \/ \E c \in calls :
        \/ updateStatusBar(c)
        \/ ShowScriptOrKey(c)
        \/ \E rsp \in Answers : NodeaddAnswered(c, rsp)
        \/ MakehostsAnswered(c)
        \/ NodesetAnswered(c)

Next == User \/ Answer \/ (\E c \in calls : Lose(c))

Spec == Init /\ [][Next]_vars /\ WF_vars(Answer)

---------------------------------------------------------------------------------
TypeOK ==
    /\ kind \in Kinds /\ acts \in 0..MaxActs
    /\ \A i \in Insts : tabs[i] # NoTab =>
        tabs[i] \in [tgt : Targets, dbOnly : BOOLEAN, enabled : BOOLEAN, bar : Bars]
    /\ newTabId \in Insts /\ images \in BOOLEAN
    /\ \A c \in calls : c.inst \in Insts /\ c.tgt \in Targets \cup {NoTab}
    /\ chained \subseteq Targets \X (Targets \cup {NoTab})
    /\ deletes \subseteq [dbOnly : BOOLEAN, cmd : {"noderm", "rmvm"}]
    /\ reused \in BOOLEAN /\ lost \in BOOLEAN

\* nodeset runs on the nodes that nodeadd was given, although it reads them from
\* the tab again, unless the tab was closed in between: its number goes to the
\* next tab, and the chain goes on there.
SameTargets == ~reused => \A p \in chained : p[1] = p[2]

\* What is deleted is what the box in the tab says: "Only delete entries in
\* database if checked" (nodes/nodes.js:2640).
DeleteAsChecked == \A d \in deletes : d.dbOnly => d.cmd = "noderm"

\* No tab shows for ever that its command runs, unless a request got no answer.
Waiting == \E i \in Insts : tabs[i] # NoTab /\ tabs[i].bar = "loading"
Excused == lost
=================================================================================
