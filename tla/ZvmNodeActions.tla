----------------------------- MODULE ZvmNodeActions -----------------------------
(* Changing a z/VM virtual server from its tab in the web interface (zvmUtils.js). *)
(* Each operation posts chvm, counts a process in a cookie of the node and shows   *)
(* the loader; updateZNodeStatus counts it off and hides the loader at zero.       *)
(* Adding a network adapter takes two commands and counts once. The cookie is     *)
(* shared by all windows and outlives the page, and is cleared whenever one of     *)
(* them loads the node's inventory into a tab, whatever still runs (zvm.js).       *)
EXTENDS Ajax, Integers

CONSTANTS
    MaxCalls,   \* bound on the requests in flight in this window
    MaxProcs    \* bound on the count in the cookie

VARIABLES
    procs,      \* the cookie; cleared over processes that run, it goes below zero
    loader,     \* the loader of the node's status bar is shown
    calls,      \* how many requests of each kind are in flight in this window
    others,     \* processes of other windows
    reopened,   \* a tab of the node was opened or closed while processes ran
    editing,    \* the directory entry was double-clicked and can be saved
    nicFailed,  \* the first command for an adapter failed
    lost,       \* a request got no answer
    shared      \* another window used the node

vars == <<procs, loader, calls, others, reopened, editing, nicFailed, lost, shared>>

\* "chvm" is followed by nothing, the two others by the connection of the adapter.
Kinds == {"chvm", "addnic-lan", "addnic-vswitch"}
Open == calls["chvm"] + calls["addnic-lan"] + calls["addnic-vswitch"]

Init ==
    /\ procs = 0
    /\ loader = FALSE
    /\ calls = [k \in Kinds |-> 0]
    /\ others = 0 /\ reopened = FALSE
    /\ editing = FALSE
    /\ nicFailed = FALSE /\ lost = FALSE /\ shared = FALSE

---------------------------------------------------------------------------------
(* The operations. A dialog with a missing value warns and changes nothing.       *)

\* A fault: the cookie is not read before it is written.
incrementNodeProcess_FromZero == procs' = 1

incrementNodeProcess == procs' = procs + 1

\* A request is posted, counted, and the loader shown.
Ask(k) ==
    /\ Open < MaxCalls /\ procs < MaxProcs
    /\ calls' = [calls EXCEPT ![k] = @ + 1]
    /\ incrementNodeProcess
    /\ loader' = TRUE
    /\ UNCHANGED <<others, reopened, nicFailed, lost, shared>>

Chvm == Ask("chvm") /\ UNCHANGED editing

AddProcessor == Chvm

\* For a device type that is neither ECKD nor FBA the dialog closes and nothing is
\* asked.
AddDisk(type) ==
    IF type \in {"3390", "9336"} THEN Chvm ELSE UNCHANGED vars

AddZfcp == Chvm

DedicateDevice == Chvm

\* HiperSockets have no virtual switch: refused.
AddNic(nicType, networkType) ==
    /\ ~(nicType = "HiperSockets" /\ networkType = "Virtual Switch")
    /\ Ask(IF networkType = "Guest LAN" THEN "addnic-lan" ELSE "addnic-vswitch")
    /\ UNCHANGED editing

removeProcessor == Chvm
removeDisk == Chvm
removeZfcp == Chvm
removeNic == Chvm

\* The directory entry can be changed after a double click, and is saved once.
EditUserEntry ==
    /\ ~editing /\ editing' = TRUE
    /\ UNCHANGED <<procs, loader, calls, others, reopened, nicFailed, lost, shared>>

SaveUserEntry == editing /\ editing' = FALSE /\ Ask("chvm")

CancelUserEntry ==
    /\ editing /\ editing' = FALSE
    /\ UNCHANGED <<procs, loader, calls, others, reopened, nicFailed, lost, shared>>

---------------------------------------------------------------------------------
(* The answers *)

\* A fault: the count is not looked at.
updateZNodeStatus_Hides ==
    /\ calls["chvm"] > 0
    /\ calls' = [calls EXCEPT !["chvm"] = @ - 1]
    /\ procs' = procs - 1
    /\ loader' = FALSE
    /\ UNCHANGED <<others, reopened, editing, nicFailed, lost, shared>>

\* A fault: zero processes are not few enough.
updateZNodeStatus_BelowZero ==
    /\ calls["chvm"] > 0
    /\ calls' = [calls EXCEPT !["chvm"] = @ - 1]
    /\ procs' = procs - 1
    /\ loader' = IF procs - 1 < 0 THEN FALSE ELSE loader
    /\ UNCHANGED <<others, reopened, editing, nicFailed, lost, shared>>

\* One less process; no more, and the loader is hidden.
updateZNodeStatus ==
    /\ calls["chvm"] > 0
    /\ calls' = [calls EXCEPT !["chvm"] = @ - 1]
    /\ procs' = procs - 1
    /\ loader' = IF procs - 1 < 1 THEN FALSE ELSE loader
    /\ UNCHANGED <<others, reopened, editing, nicFailed, lost, shared>>

\* The adapter was added: it is connected, by the same process. An error, or no
\* output, hides the loader at once, and leaves the process counted.
Connect(k, rsp) ==
    /\ calls[k] > 0
    /\ IF rsp = "text"
       THEN /\ calls' = [calls EXCEPT ![k] = @ - 1, !["chvm"] = @ + 1]
            /\ UNCHANGED <<loader, nicFailed>>
       ELSE /\ calls' = [calls EXCEPT ![k] = @ - 1]
            /\ loader' = FALSE
            /\ nicFailed' = TRUE
    /\ UNCHANGED <<procs, others, reopened, editing, lost, shared>>

connect2GuestLan(rsp) == Connect("addnic-lan", rsp)
connect2VSwitch(rsp) == Connect("addnic-vswitch", rsp)

\* The HTTP exchange fails: no callback.
Lose(k) ==
    /\ calls[k] > 0
    /\ calls' = [calls EXCEPT ![k] = @ - 1]
    /\ lost' = TRUE
    /\ UNCHANGED <<procs, loader, others, reopened, editing, nicFailed, shared>>

\* The inventory is loaded into a tab of the node, in this window or another one:
\* the cookie is cleared. A second tab of this window shows no loader of its own,
\* as the status bar of the first one is found by its id.
OpenTab ==
    /\ procs' = 0
    /\ reopened' = (reopened \/ Open + others > 0)
    /\ UNCHANGED <<loader, calls, others, editing, nicFailed, lost, shared>>

\* The first tab of the node is closed, and the status bar of another one is found.
CloseTab ==
    /\ loader' = FALSE /\ editing' = FALSE
    /\ reopened' = (reopened \/ Open > 0)
    /\ UNCHANGED <<procs, calls, others, nicFailed, lost, shared>>

\* The page is left, and the node opened again: this window's requests are forgotten.
Reload ==
    /\ loader' = FALSE /\ editing' = FALSE
    /\ calls' = [k \in Kinds |-> 0]
    /\ procs' = 0
    /\ reopened' = (reopened \/ others > 0)
    /\ UNCHANGED <<others, nicFailed, lost, shared>>

\* Another window starts a process on the node, counts one off or forgets it.
OtherWindow ==
    /\ \/ procs < MaxProcs /\ others < MaxProcs /\ others' = others + 1 /\ procs' = procs + 1
       \/ others > 0 /\ others' = others - 1 /\ procs' \in {procs - 1, procs}
    /\ shared' = TRUE
    /\ UNCHANGED <<loader, calls, reopened, editing, nicFailed, lost>>

---------------------------------------------------------------------------------
User ==
    \/ AddProcessor
    \/ \E type \in {"3390", "9336", "other"} : AddDisk(type)
    \/ AddZfcp
    \/ DedicateDevice
    \/ \E nicType \in {"QDIO", "HiperSockets"}, networkType \in {"Guest LAN", "Virtual Switch"} :
        AddNic(nicType, networkType)
    \/ removeProcessor
    \/ removeDisk
    \/ removeZfcp
    \/ removeNic
    \/ EditUserEntry
    \/ SaveUserEntry
    \/ CancelUserEntry

Answer ==
    \/ updateZNodeStatus
    \/ \E rsp \in Answers : connect2GuestLan(rsp) \/ connect2VSwitch(rsp)

Tabs == OpenTab \/ CloseTab \/ Reload \/ OtherWindow

Next == User \/ Answer \/ (\E k \in Kinds : Lose(k)) \/ Tabs

Spec == Init /\ [][Next]_vars

---------------------------------------------------------------------------------
TypeOK ==
    /\ procs \in -(MaxCalls + MaxProcs)..MaxProcs
    /\ loader \in BOOLEAN
    /\ calls \in [Kinds -> 0..MaxCalls] /\ Open <= MaxCalls
    /\ others \in 0..MaxProcs
    /\ reopened \in BOOLEAN /\ editing \in BOOLEAN /\ nicFailed \in BOOLEAN
    /\ lost \in BOOLEAN /\ shared \in BOOLEAN

\* While a process of this window runs, its loader is shown: "Hide loader when
\* there are no more processes" (zvmUtils.js:948). Whatever other windows count in
\* the cookie, only a tab of the node that was opened or closed over running
\* processes, and the error of an adapter's first command, hide it too early.
LoaderWhileBusy == Open > 0 /\ ~nicFailed /\ ~reopened => loader

\* The cookie counts every process of this window and of the others, until a tab of
\* the node is opened over one: then it is short by what ran.
CookieCounts == ~reopened => procs >= Open + others

\* When no process of this window runs any more, its loader is hidden, unless a
\* process was not counted off here: a request without answer, a failed adapter or
\* a process of another window. Clearing the cookie never leaves it on.
LoaderHidden == Open = 0 /\ loader => lost \/ nicFailed \/ shared
=================================================================================
