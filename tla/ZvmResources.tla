------------------------------ MODULE ZvmResources ------------------------------
(* The tables of disks, zFCP devices and networks on the z/VM resource page of     *)
(* the web interface (zvm.js, loadResources; zvmUtils.js, getZResources and what  *)
(* follows it). Every hardware control point is asked for the names it has, in    *)
(* parallel, and then for what is behind each name; each answer adds its rows.    *)
(* The three panels share nothing: a behaviour is about one.                       *)
EXTENDS Ajax, Integers

CONSTANTS
    Systems,    \* hardware control points
    Names,      \* pools, or networks, a control point may have
    MaxRefresh  \* bound on the refreshes of the table

VARIABLES
    panel,      \* "disk", "zfcp" or "network"
    hcps,       \* the cookie with the control points, as the page read it
    asked,      \* the panel was opened and holds more than nothing
    gen,        \* how often it was refreshed
    calls,      \* requests in flight
    loader,     \* the loader is shown in the panel
    table,      \* the table is there
    rows, twice,    \* what it lists; something is listed twice
    listed,     \* per refresh, what the answers so far name
    early,      \* it was refreshed while requests were in flight
    failed, lost    \* an answer had an error; a request got none

vars == <<panel, hcps, asked, gen, calls, loader, table, rows, twice, listed, early,
          failed, lost>>

Stats == {"used", "free", "all"}
Row(h, n, s) == [hcp |-> h, name |-> n, stat |-> s]
Rows == [hcp : Systems, name : Names, stat : Stats]

\* A request for the names of h, and one for a row; they belong to a refresh.
NamesOf(g, h) == [gen |-> g, hcp |-> h, name |-> "any", stat |-> "names"]
Details(g, r) == [gen |-> g, hcp |-> r.hcp, name |-> r.name, stat |-> r.stat]

Init ==
    /\ panel \in {"disk", "zfcp", "network"}
    /\ hcps = {}
    /\ asked = FALSE /\ gen = 0
    /\ calls = {}
    /\ loader = FALSE
    /\ table = FALSE /\ rows = {} /\ twice = FALSE
    /\ listed = [g \in 0..MaxRefresh |-> {}]
    /\ early = FALSE
    /\ failed = FALSE /\ lost = FALSE

---------------------------------------------------------------------------------
\* The control points have been read from the server and are kept in a cookie.
getZResources ==
    /\ hcps = {}
    /\ hcps' \in SUBSET Systems \ {{}}
    /\ UNCHANGED <<panel, asked, gen, calls, loader, table, rows, twice, listed,
                   early, failed, lost>>

\* All control points are asked at once. zhcpQueryCount goes down as each is asked,
\* so that its zero, "all hcps queried", holds before the first of them answers.
Query(g) ==
    /\ calls' = calls \cup {NamesOf(g, h) : h \in hcps}
    /\ loader' = TRUE

\* The accordion opens the panel, and loads it the first time.
OpenPanel ==
    /\ hcps # {} /\ ~asked
    /\ asked' = TRUE
    /\ Query(0)
    /\ UNCHANGED <<panel, hcps, gen, table, rows, twice, listed, early, failed, lost>>

\* A fault: the panel is not emptied.
Refresh_TableKept ==
    /\ table /\ gen < MaxRefresh
    /\ gen' = gen + 1
    /\ early' = (early \/ calls # {})
    /\ Query(gen')
    /\ UNCHANGED <<panel, hcps, asked, table, rows, twice, listed, failed, lost>>

\* "Refresh" stands above the table. It empties the panel and starts again; what
\* is in flight is not stopped.
Refresh ==
    /\ table /\ gen < MaxRefresh
    /\ gen' = gen + 1
    /\ table' = FALSE /\ rows' = {} /\ twice' = FALSE
    /\ early' = (early \/ calls # {})
    /\ Query(gen')
    /\ UNCHANGED <<panel, hcps, asked, listed, failed, lost>>

RefreshDisks == panel = "disk" /\ Refresh
RefreshZfcps == panel = "zfcp" /\ Refresh
RefreshNetworks == panel = "network" /\ Refresh

---------------------------------------------------------------------------------
\* The rows of an answer are added to the table, which is made if there is none.
\* The first table made takes the loader away.
Load(new) ==
    /\ table' = TRUE
    /\ twice' = (twice \/ rows \cap new # {})
    /\ rows' = rows \cup new
    /\ loader' = FALSE

\* The names of control point h: for each, what "stats" says is asked. Without
\* any (an error, or no output) an empty table is loaded, but not for networks.
NamesAnswered(g, h, names, rsp, stats) ==
    LET c   == NamesOf(g, h)
        new == {Row(h, n, s) : n \in names, s \in stats}
    IN /\ c \in calls
       /\ IF rsp = "text"
          THEN /\ calls' = (calls \ {c}) \cup {Details(g, r) : r \in new}
               /\ listed' = [listed EXCEPT ![g] = @ \cup new]
               /\ UNCHANGED <<loader, table, rows, twice, failed>>
          ELSE /\ calls' = calls \ {c}
               /\ failed' = TRUE
               /\ UNCHANGED listed
               /\ IF panel = "network" THEN UNCHANGED <<loader, table, rows, twice>>
                  ELSE Load({})
       /\ UNCHANGED <<panel, hcps, asked, gen, early, lost>>

getDiskPool(g, h, names, rsp) ==
    panel = "disk" /\ NamesAnswered(g, h, names, rsp, {"used", "free"})
getZfcpPool(g, h, names, rsp) ==
    panel = "zfcp" /\ NamesAnswered(g, h, names, rsp, {"all"})
getNetwork(g, h, names, rsp) ==
    panel = "network" /\ NamesAnswered(g, h, names, rsp, {"all"})

\* What is behind a name: its row is shown, or nothing for an error.
DetailsAnswered(g, r, rsp) ==
    /\ Details(g, r) \in calls
    /\ calls' = calls \ {Details(g, r)}
    /\ Load(IF rsp = "text" THEN {r} ELSE {})
    /\ failed' = (failed \/ rsp # "text")
    /\ UNCHANGED <<panel, hcps, asked, gen, listed, early, lost>>

\* No table is made: only the loader goes.
NoDetails(g, r) ==
    /\ Details(g, r) \in calls
    /\ calls' = calls \ {Details(g, r)}
    /\ loader' = FALSE
    /\ failed' = TRUE
    /\ UNCHANGED <<panel, hcps, asked, gen, table, rows, twice, listed, early, lost>>

\* The test for a failed call can never be true: an error adds no rows, and the
\* table is made for it; no output is an exception.
loadDiskPoolTable(g, r, rsp) ==
    /\ panel = "disk"
    /\ IF rsp = "empty" THEN NoDetails(g, r) ELSE DetailsAnswered(g, r, rsp)

\* An error is shown, and nothing is loaded.
loadZfcpPoolTable(g, r, rsp) ==
    /\ panel = "zfcp"
    /\ IF rsp = "text" THEN DetailsAnswered(g, r, rsp) ELSE NoDetails(g, r)

\* The answer is not looked at: the text of an error becomes the row of a virtual
\* switch, and is an exception for a LAN, as no output is.
loadNetworkTable(g, r, rsp) ==
    /\ panel = "network"
    /\ \/ rsp # "empty" /\ DetailsAnswered(g, r, "text")
       \/ rsp # "text" /\ NoDetails(g, r)

Lose(c) ==
    /\ ~lost /\ c \in calls
    /\ calls' = calls \ {c}
    /\ lost' = TRUE
    /\ UNCHANGED <<panel, hcps, asked, gen, loader, table, rows, twice, listed, early,
                   failed>>

---------------------------------------------------------------------------------
Answer ==
    \E g \in 0..MaxRefresh, rsp \in Answers :
        \/ \E h \in Systems, names \in SUBSET Names :
            \/ getDiskPool(g, h, names, rsp)
            \/ getZfcpPool(g, h, names, rsp)
            \/ getNetwork(g, h, names, rsp)
        \/ \E r \in Rows :
            \/ loadDiskPoolTable(g, r, rsp)
            \/ loadZfcpPoolTable(g, r, rsp)
            \/ loadNetworkTable(g, r, rsp)

Next ==
    \/ getZResources
    \/ OpenPanel
    \/ RefreshDisks
    \/ RefreshZfcps
    \/ RefreshNetworks
    \/ Answer
    \/ \E c \in calls : Lose(c)

Spec == Init /\ [][Next]_vars /\ WF_vars(Answer)

---------------------------------------------------------------------------------
TypeOK ==
    /\ panel \in {"disk", "zfcp", "network"}
    /\ hcps \subseteq Systems
    /\ asked \in BOOLEAN /\ gen \in 0..MaxRefresh
    /\ \A c \in calls : c.gen \in 0..gen /\ c.hcp \in hcps
    /\ loader \in BOOLEAN
    /\ table \in BOOLEAN /\ rows \subseteq Rows /\ twice \in BOOLEAN
    /\ listed \in [0..MaxRefresh -> SUBSET Rows]
    /\ early \in BOOLEAN /\ failed \in BOOLEAN /\ lost \in BOOLEAN

\* When every request is answered the table lists each resource that the control
\* points named once, in whatever order they answered, unless a request got no
\* answer or the table was refreshed before the last answer had come.
TableExact ==
    calls = {} /\ ~lost /\ ~early =>
        /\ ~twice
        /\ rows \subseteq listed[gen]
        /\ ~failed => rows = listed[gen]

\* The loader goes in the end, unless a request got no answer, or there is nothing
\* to list.
Excused == lost \/ failed \/ (calls = {} /\ listed[gen] = {})
LoaderHidden == loader ~> ~loader \/ Excused
=================================================================================
