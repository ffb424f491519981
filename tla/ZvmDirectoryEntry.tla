---------------------------- MODULE ZvmDirectoryEntry ----------------------------
(* The directory entry on the page that provisions a new z/VM virtual machine    *)
(* (zvmUtils.js, updateUserEntry and createZProvisionNew). It is generated as    *)
(* inputs change, or typed, or fetched, and is sent with mkvm once nodeadd has   *)
(* registered the user ID. What follows mkvm is ZvmProvision.                    *)
EXTENDS Ajax

CONSTANTS
    Users,      \* z/VM user IDs one may type
    NoUser      \* no user ID: an empty entry, no handler registered

VARIABLES
    stage,      \* "edit", "confirm" (modal dialog), "nodeadd" or "mkvm" posted, "over"
    user, os, vswitch,  \* the inputs: user ID, is an image chosen, network kind
    advanced,   \* the selected hardware tab
    entry,      \* the user ID the entry in the textarea is for
    hash,       \* selectedNetworkHash has the details of the VSWITCH
    stop,       \* the user ID captured by the last handler given to ajaxStop
    calls,      \* requests in flight; equal ones are kept as one
    sent        \* what nodeadd and mkvm were sent, and the tab of the click

vars == <<stage, user, os, vswitch, advanced, entry, hash, stop, calls, sent>>
form == <<user, os, vswitch>>

Requests == {"getnetwork", "getdefaultuserentry", "nodeadd", "mkvm"}

Init ==
    /\ stage = "edit"
    /\ user \in Users
    /\ os = FALSE /\ vswitch = FALSE /\ advanced = FALSE
    /\ entry = NoUser
    /\ hash = FALSE
    /\ stop = NoUser
    /\ calls = {}
    /\ sent = [user |-> NoUser, entry |-> NoUser, advanced |-> FALSE]

---------------------------------------------------------------------------------
\* The details of a VSWITCH are asked for unless the table has them.
DetailsMissing(v) == v /\ ~hash

\* updateUserEntry, network kind v: on the basic tab the entry is generated now;
\* or, when the details have to be fetched, later, by a handler of ajaxStop that
\* keeps the values of now and stays registered.
updateUserEntry(v, next) ==
    /\ calls' = next \cup (IF DetailsMissing(v) THEN {"getnetwork"} ELSE {})
    /\ stop'  = IF DetailsMissing(v) THEN user ELSE stop
    /\ entry' = IF DetailsMissing(v) \/ advanced THEN entry ELSE user

\* A fault: the handlers do not look at the tab.
AjaxStop_AnyTab(open, text) == IF open = {} /\ stop # NoUser THEN stop ELSE text

\* What the handlers leave in the textarea when the last request has ended.
AjaxStop(open, text) ==
    IF open = {} /\ stop # NoUser /\ ~advanced THEN stop ELSE text

\* An input of the basic tab changes: the network, or one whose value the model
\* does not keep (CPU count, memory, privileges, profile, the device to IPL).
ChangeInput(v) ==
    /\ stage = "edit" /\ ~advanced
    /\ vswitch' = v
    /\ updateUserEntry(v, calls)
    /\ UNCHANGED <<stage, user, os, advanced, hash, sent>>

\* No handler follows the user ID and the image; they are read when needed.
TypeUserId(u) ==
    /\ stage = "edit"
    /\ user' = u
    /\ UNCHANGED <<stage, os, vswitch, advanced, entry, hash, stop, calls, sent>>

SelectOs ==
    /\ stage = "edit"
    /\ os' = ~os
    /\ UNCHANGED <<stage, user, vswitch, advanced, entry, hash, stop, calls, sent>>

\* The hardware tabs stay selectable after the form is frozen.
SelectTab ==
    /\ stage # "confirm"
    /\ advanced' = ~advanced
    /\ UNCHANGED <<stage, form, entry, hash, stop, calls, sent>>

\* On the advanced tab the entry is typed or cleared.
TypeEntry(u) ==
    /\ stage = "edit" /\ advanced
    /\ entry' = u
    /\ UNCHANGED <<stage, form, advanced, hash, stop, calls, sent>>

\* "Use default" asks for the default entry, if an image and a user ID are given.
AskDefaultEntry ==
    /\ stage = "edit" /\ advanced /\ os
    /\ calls' = calls \cup {"getdefaultuserentry"}
    /\ UNCHANGED <<stage, form, advanced, entry, hash, stop, sent>>

\* Its answer is made for the user ID of that moment and written to a visible
\* textarea, be the box still checked or not and the form frozen or not.
DefaultEntryAnswered ==
    LET open == calls \ {"getdefaultuserentry"}
    IN /\ "getdefaultuserentry" \in calls
       /\ calls' = open
       /\ entry' = AjaxStop(open, IF advanced THEN user ELSE entry)
       /\ UNCHANGED <<stage, form, advanced, hash, stop, sent>>

\* getNetworkDetails: an error opens a warning and leaves the table as it was.
NetworkDetailsAnswered(rsp) ==
    LET open == calls \ {"getnetwork"}
    IN /\ "getnetwork" \in calls
       /\ calls' = open
       /\ hash' = (hash \/ ~ContainErrors(rsp))
       /\ entry' = AjaxStop(open, entry)
       /\ UNCHANGED <<stage, form, advanced, stop, sent>>

\* Of the checks at the click one concerns the entry: on the advanced tab it has
\* to be for the user ID. A refused click changes nothing kept here.
Ready == advanced => entry = user

\* nodeadd is posted with the values of the inputs, which are frozen.
Register == sent' = [sent EXCEPT !.user = user, !.advanced = advanced]

\* On the basic tab the entry is generated first; without an image the user is
\* asked to confirm.
ClickProvision ==
    LET next == IF os THEN calls \cup {"nodeadd"} ELSE calls
    IN /\ stage = "edit" /\ Ready
       /\ IF advanced THEN calls' = next /\ UNCHANGED <<entry, stop>>
          ELSE updateUserEntry(vswitch, next)
       /\ IF os THEN stage' = "nodeadd" /\ Register
          ELSE stage' = "confirm" /\ UNCHANGED sent
       /\ UNCHANGED <<form, advanced, hash>>

Confirm ==
    /\ stage = "confirm"
    /\ stage' = "nodeadd"
    /\ calls' = calls \cup {"nodeadd"}
    /\ Register
    /\ UNCHANGED <<form, advanced, entry, hash, stop>>

Cancel ==
    /\ stage = "confirm"
    /\ stage' = "edit"
    /\ UNCHANGED <<form, advanced, entry, hash, stop, calls, sent>>

\* nodeadd is silent when it succeeds. Its callback posts mkvm with the textarea
\* as it is now, before the request counts as ended.
NodeaddAnswered(rsp) ==
    /\ "nodeadd" \in calls
    /\ calls' = (calls \ {"nodeadd"}) \cup (IF HasText(rsp) THEN {} ELSE {"mkvm"})
    /\ stage' = IF HasText(rsp) THEN "over" ELSE "mkvm"
    /\ sent' = IF HasText(rsp) THEN sent ELSE [sent EXCEPT !.entry = entry]
    /\ entry' = AjaxStop(calls', entry)
    /\ UNCHANGED <<form, advanced, hash, stop>>

\* The HTTP exchange fails: no callback, but the request has ended.
Lose(c) ==
    /\ c \in calls
    /\ calls' = calls \ {c}
    /\ entry' = AjaxStop(calls', entry)
    /\ stage' = IF c = "nodeadd" THEN "over" ELSE stage
    /\ UNCHANGED <<form, advanced, hash, stop, sent>>

Next ==
    \/ \E v \in BOOLEAN : ChangeInput(v)
    \/ \E u \in Users : TypeUserId(u)
    \/ SelectOs
    \/ SelectTab
    \/ \E u \in Users \cup {NoUser} : TypeEntry(u)
    \/ AskDefaultEntry
    \/ DefaultEntryAnswered
    \/ \E rsp \in Answers : NetworkDetailsAnswered(rsp)
    \/ ClickProvision
    \/ Confirm
    \/ Cancel
    \/ \E rsp \in Answers : NodeaddAnswered(rsp)
    \/ \E c \in Requests \ {"mkvm"} : Lose(c)

Spec == Init /\ [][Next]_vars

---------------------------------------------------------------------------------
TypeOK ==
    /\ stage \in {"edit", "confirm", "nodeadd", "mkvm", "over"}
    /\ user \in Users /\ os \in BOOLEAN /\ vswitch \in BOOLEAN /\ advanced \in BOOLEAN
    /\ entry \in Users \cup {NoUser} /\ stop \in Users \cup {NoUser}
    /\ hash \in BOOLEAN
    /\ calls \subseteq Requests
    /\ sent \in [user : Users \cup {NoUser}, entry : Users \cup {NoUser},
                 advanced : BOOLEAN]

\* An entry typed or fetched on the advanced tab and checked at the click is sent
\* for the user ID that was registered, whatever answer, late default entry or
\* handler of ajaxStop writes the textarea before mkvm is posted.
AdvancedEntryForUser == stage = "mkvm" /\ sent.advanced => sent.entry = sent.user

\* The same on the basic tab, where the click is to "Generate user directory entry
\* if basic tab is selected" (zvmUtils.js:6659).
EntryForUser == stage = "mkvm" => sent.entry = sent.user
=================================================================================
