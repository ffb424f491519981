------------------------------ MODULE ZvmHcpLookup ------------------------------
(* What the web interface knows of a hardware control point (zvmUtils.js). When   *)
(* its name is entered on the provision page (createZProvisionNew), its pools and *)
(* networks are looked up in parallel and kept in cookies for an hour. The name   *)
(* that nodeadd is sent is not the one in the field but the one the lookup left   *)
(* in a hidden field. The session may start with the cookies of any control       *)
(* point; an hour is longer than a lookup. The cookies of networks and profiles    *)
(* fill menus and decide no step: they are not kept.                              *)
EXTENDS Ajax, Integers, Sequences

CONSTANTS
    HCPs,       \* names of hardware control points
    NoHcp,      \* an empty field
    MaxLookups  \* bound on how often a name is entered

VARIABLES
    hcpNode,    \* the field
    hcp,        \* the hidden field
    cookies,    \* the cookies that are set: control point and kind
    lookups,    \* per lookup, the name and the calls checkProvisionCallsDone waits for
    calls,      \* requests in flight
    loading,    \* the message "Loading zhcp information..." and its image are there
    sent,       \* what nodeadd was sent for the hidden field, or "nothing"
    upset,      \* the lookup of a name failed, or one was answered after a later one
    blank, lost \* an empty name was entered; a request got no answer

vars == <<hcpNode, hcp, cookies, lookups, calls, loading, sent, upset, blank, lost>>

Kinds == {"diskpools", "zfcppools"}

\* l is the number of a lookup on the page.
Call(l, h, what) == [l |-> l, hcp |-> h, what |-> what]
Calls == [l : 1..MaxLookups, hcp : HCPs, what : Kinds \cup {"networks", "definition"}]

Init ==
    /\ hcpNode = NoHcp /\ hcp = NoHcp
    /\ \E H \in SUBSET HCPs : cookies = H \X Kinds
    /\ lookups = << >>
    /\ calls = {}
    /\ loading = FALSE
    /\ sent = "nothing"
    /\ upset = FALSE
    /\ blank = FALSE /\ lost = FALSE

---------------------------------------------------------------------------------
(* Cookies *)

\* The setters keep names unless the answer is empty or an error.
CookieOf(h, kind, rsp) == IF rsp = "text" THEN {<<h, kind>>} ELSE {}

setDiskPoolCookies(h, rsp) == CookieOf(h, "diskpools", rsp)
setZfcpPoolCookies(h, rsp) == CookieOf(h, "zfcppools", rsp)

SetCookies(h, kind, rsp) ==
    IF kind = "diskpools" THEN setDiskPoolCookies(h, rsp) ELSE setZfcpPoolCookies(h, rsp)

---------------------------------------------------------------------------------
(* The provision page *)

\* The message of every lookup is removed, and the status bar hidden with it.
removeProvisionLoadingGif == loading' = FALSE

\* The calls of lookup l that "waiting" leaves are waited for; with none left
\* the message goes.
checkProvisionCallsDone(l, waiting) ==
    /\ lookups' = [lookups EXCEPT ![l].waiting = waiting]
    /\ IF waiting = {} THEN removeProvisionLoadingGif ELSE UNCHANGED loading

\* The field loses the focus: the message appears, and a name is looked up.
Blur(h) ==
    /\ sent = "nothing"
    /\ Len(lookups) < MaxLookups
    /\ hcpNode' = h
    /\ loading' = TRUE
    /\ blank' = (blank \/ h = NoHcp)
    /\ IF h = NoHcp THEN UNCHANGED <<lookups, calls>>
       ELSE /\ lookups' = Append(lookups, [hcp |-> h, waiting |-> Kinds])
            /\ calls' = calls \cup {Call(Len(lookups) + 1, h, "networks")}
    /\ UNCHANGED <<hcp, cookies, sent, upset, lost>>

\* The networks are the test of the name. Then the definition and the pools that
\* no cookie holds are asked for, and the profiles with a call the page blocks on.
NetworksAnswered(l, rsp) ==
    LET h    == lookups[l].hcp
        c    == Call(l, h, "networks")
        open == {k \in Kinds : <<h, k>> \notin cookies}
    IN /\ l \in DOMAIN lookups /\ c \in calls
       /\ IF ContainErrors(rsp)
          THEN /\ calls' = calls \ {c}
               /\ removeProvisionLoadingGif
               /\ upset' = TRUE
               /\ UNCHANGED lookups
          ELSE /\ calls' = (calls \ {c}) \cup {Call(l, h, k) : k \in open \cup {"definition"}}
               /\ checkProvisionCallsDone(l, open)
               /\ UNCHANGED upset
       /\ UNCHANGED <<hcpNode, hcp, cookies, sent, blank, lost>>

\* A fault: a hidden field that has a name keeps it.
DefinitionAnswered_KeepsFirst(l, rsp) ==
    LET h == lookups[l].hcp
        c == Call(l, h, "definition")
    IN /\ l \in DOMAIN lookups /\ c \in calls
       /\ calls' = calls \ {c}
       /\ upset' = (upset \/ rsp # "text" \/ \E d \in calls : d.l < l /\ d.what \notin Kinds)
       /\ IF ContainErrors(rsp) THEN removeProvisionLoadingGif /\ UNCHANGED hcp
          ELSE /\ hcp' = IF HasText(rsp) /\ hcp = NoHcp THEN h ELSE hcp
               /\ UNCHANGED loading
       /\ UNCHANGED <<hcpNode, cookies, lookups, sent, blank, lost>>

\* The definition holds the full name for the hidden field; this call is not
\* among those the message waits for.
DefinitionAnswered(l, rsp) ==
    LET h == lookups[l].hcp
        c == Call(l, h, "definition")
    IN /\ l \in DOMAIN lookups /\ c \in calls
       /\ calls' = calls \ {c}
       /\ upset' = (upset \/ rsp # "text" \/ \E d \in calls : d.l < l /\ d.what \notin Kinds)
       /\ IF ContainErrors(rsp) THEN removeProvisionLoadingGif /\ UNCHANGED hcp
          ELSE /\ hcp' = IF HasText(rsp) THEN h ELSE hcp
               /\ UNCHANGED loading
       /\ UNCHANGED <<hcpNode, cookies, lookups, sent, blank, lost>>

PoolsAnswered(l, kind, rsp) ==
    LET h == lookups[l].hcp
        c == Call(l, h, kind)
    IN /\ l \in DOMAIN lookups /\ c \in calls
       /\ calls' = calls \ {c}
       /\ cookies' = cookies \cup SetCookies(h, kind, rsp)
       /\ checkProvisionCallsDone(l, lookups[l].waiting \ {kind})
       /\ UNCHANGED <<hcpNode, hcp, sent, upset, blank, lost>>

\* The click on "Provision": the visible field must not be empty; the hidden one,
\* which is sent, is not looked at.
ClickProvision ==
    /\ sent = "nothing" /\ hcpNode # NoHcp
    /\ sent' = hcp
    /\ UNCHANGED <<hcpNode, hcp, cookies, lookups, calls, loading, upset, blank, lost>>

\* The HTTP exchange fails: "complete" is called where there is one.
Lose(c) ==
    /\ ~lost /\ c \in calls
    /\ calls' = calls \ {c}
    /\ lost' = TRUE
    /\ IF c.what \in Kinds
       THEN checkProvisionCallsDone(c.l, lookups[c.l].waiting \ {c.what})
       ELSE UNCHANGED <<lookups, loading>>
    /\ UNCHANGED <<hcpNode, hcp, cookies, sent, upset, blank>>

---------------------------------------------------------------------------------
Answer ==
    \E rsp \in Answers :
        \/ \E l \in 1..MaxLookups : NetworksAnswered(l, rsp)
        \/ \E l \in 1..MaxLookups : DefinitionAnswered(l, rsp)
        \/ \E l \in 1..MaxLookups, k \in Kinds : PoolsAnswered(l, k, rsp)

Next ==
    \/ \E h \in HCPs \cup {NoHcp} : Blur(h)
    \/ ClickProvision
    \/ \E c \in calls : Lose(c)
    \/ Answer

Spec == Init /\ [][Next]_vars /\ WF_vars(Answer)

---------------------------------------------------------------------------------
TypeOK ==
    /\ hcpNode \in HCPs \cup {NoHcp} /\ hcp \in HCPs \cup {NoHcp}
    /\ cookies \subseteq HCPs \X Kinds
    /\ Len(lookups) <= MaxLookups
    /\ \A l \in DOMAIN lookups : lookups[l] \in [hcp : HCPs, waiting : SUBSET Kinds]
    /\ calls \subseteq Calls
    /\ loading \in BOOLEAN
    /\ sent \in HCPs \cup {NoHcp, "nothing"}
    /\ upset \in BOOLEAN /\ blank \in BOOLEAN /\ lost \in BOOLEAN

\* The click registers the node with the control point of the visible field, if
\* the lookups have ended, each found its control point, none got lost and none
\* was overtaken by a later one: the name sent is the one the user reads.
RegisterStep == sent' # sent /\ calls = {} /\ ~upset /\ ~lost => sent' = hcpNode
HcpAsEntered == [][RegisterStep]_vars

\* The message goes in the end, if a name was given and every request is answered.
Excused == blank \/ lost
LoadingEnds == loading ~> ~loading \/ Excused
=================================================================================
