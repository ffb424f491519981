------------------------------ MODULE DiscoverWizard -------------------------------
(* The wizard of the web interface that discovers System p hardware: the pages and *)
(* their buttons (configure/discover.js), and what each page checks, saves, writes *)
(* and runs (custom/hmc.js). A request that writes a file has no callback: the next *)
(* page comes at once. What is typed, or loaded into the fields of a page, is       *)
(* complete or not; its other checks and the addresses to search on are left out.   *)
EXTENDS Integers, FiniteSets

CONSTANTS
    Values,     \* what can be entered: names of a cluster, a domain, numbers
    Planned,    \* the one the user means to enter everywhere
    Drawers,    \* how many CECs get LPARs
    MaxCalls,   \* bound on the requests in flight when the user clicks
    MaxTurns,   \* bound on the changes of direction
    MaxActs     \* bound on what does not follow the plan: other entries, cancels, losses,
                \* second clicks on "Parse", clicks while something is still to be written

VARIABLES
    step,       \* currentStep, from 1
    turns,      \* changes of direction so far: the user goes back when it is odd
    buttons,    \* Back, Next and Cancel are shown
    pane,       \* what else the page shows
    env,        \* discoverEnv, by the page that sets it; maps by the names they are for
    rows,       \* the maps listed on the page
    calls,      \* requests in flight
    written,    \* on the server: files, vpd table, dynamic range
    setup,      \* what was written when xcatsetup ran
    lpars,      \* drawers done in the dialog, or NoDialog
    acts,
    hasty,      \* something was to be written again, or used, before it was written
    intruded,   \* an answer for another page put buttons under what ran, or in a domain
    lost        \* a request got no answer

wizard == <<step, turns, buttons, pane, env, rows>>
server == <<written, setup>>
history == <<hasty, intruded, lost>>
vars == <<wizard, calls, server, lpars, acts, history>>

Steps == <<"platform", "basic", "supernode", "site", "poweron", "frames", "hmcs", "config",
           "update", "lpars", "complete">>
At(s) == Steps[step] = s
Maps == {"frames", "hmcs"}
Fields == {"basic", "supernode", "site"} \cup Maps
Files == Fields \cup {"range"}
Nothing == [f \in Fields |-> {}]
NoDialog == -1

\* A request: what it is, what it writes, and the entries it was made from.
Ask(what) == [what |-> what, files |-> {}, of |-> Nothing]
Write(f, e) == [what |-> "write", files |-> {f}, of |-> e]
Upload(s, v) == [what |-> s, files |-> {}, of |-> [Nothing EXCEPT ![s] = {v}]]
Mkvm(n) == [what |-> "mkvm", files |-> {}, of |-> [f \in Fields |-> {n}]]

\* The commands of "update", each posted by the answer to the one before.
FrameCommands == <<"lsslpWriteHMC", "lsslpWriteFrame", "frameSetup", "frameReset", "frameHwconn">>
CecCommands == <<"lsslpWriteCec", "cecsetup", "cecReset", "cecHwconn">>
Updates == {FrameCommands[i] : i \in 1..5} \cup {CecCommands[i] : i \in 1..4}
\* Those that load into a frame of the page, whatever becomes of them.
Framed == {"lsslpWriteHMC", "lsslpWriteFrame", "frameReset", "lsslpWriteCec", "cecReset"}

Working == \E c \in calls : c.what \in Updates \cup {"conf", "xcatsetup"}
Overlap(new) == \E c \in calls, d \in new : c.files \cap d.files # {}

\* loadDiscoverPage
Init ==
    /\ step = 1 /\ turns = 0 /\ buttons = TRUE /\ pane = "none"
    /\ env = Nothing /\ rows = {}
    /\ calls = {}
    /\ written = [f \in Files |-> {}] /\ setup = written
    /\ lpars = NoDialog /\ acts = 0
    /\ hasty = FALSE /\ intruded = FALSE /\ lost = FALSE

---------------------------------------------------------------------------------
(* The pages: the function of initFunctions, called with "next" or "back" *)

\* powerInitSiteTable, powerInitDiscoverFrames and powerInitDiscoverHmc have the
\* buttons at once if they can show what was entered before, powerInitConfig and
\* powerInitUpdateDefinition if they do not run again.
ButtonsOf(s, e, way) ==
    CASE s \in Maps \cup {"site"} -> e[s] # {}
      [] s \in {"config", "update"} -> way = "back"
      [] OTHER -> TRUE

\* The site table is asked for, webxcat.conf written, the chain of "update" begun.
PostedBy(s, e, way) ==
    CASE s = "site" /\ e["site"] = {} -> {Ask("tabdump")}
      [] s = "config" /\ way = "next" -> {[what |-> "conf", files |-> {"basic", "site"}, of |-> e]}
      [] s = "update" /\ way = "next" -> {Ask("lsslpWriteHMC")}
      [] OTHER -> {}

\* The page is emptied, its frames included.
Enter(n, way, e, saved) ==
    LET s == Steps[n]
        new == saved \cup PostedBy(s, e, way)
    IN  /\ step' = n
        /\ turns' = IF (turns % 2 = 0) = (way = "next") THEN turns ELSE turns + 1
        /\ turns' <= MaxTurns
        /\ env' = e
        /\ buttons' = ButtonsOf(s, e, way)
        /\ pane' = IF s \in Maps THEN "choose" ELSE IF buttons' THEN "none" ELSE "wait"
        /\ rows' = IF s \in Maps THEN e[s] ELSE {}
        /\ calls' = {c \in calls : c.what \notin Framed} \cup new
        /\ hasty' = (hasty \/ Overlap(new))
        /\ UNCHANGED <<server, lpars, intruded, lost>>

Free == lpars = NoDialog /\ Cardinality(calls) < MaxCalls
Click == buttons /\ Free /\ step < 11

\* What does not just follow the plan is counted.
Spend(n) == acts' = acts + n /\ acts' <= MaxActs
Hurry == IF \A c \in calls : c.what \in Maps THEN 0 ELSE 1
Cost(e) == Hurry + IF \E f \in Fields \ Maps : e[f] \notin {{Planned}, env[f]} THEN 1 ELSE 0

\* createNextButton and createBackButton, when the page lets the user go; "saved" is
\* what it posts first.
NextClick(e, saved) == Click /\ Enter(step + 1, "next", e, saved) /\ Spend(Cost(e))
BackClick(e) == Click /\ step > 1 /\ Enter(step - 1, "back", e, {}) /\ Spend(Cost(e))

\* createCancelButton
Cancel == Click /\ step > 1 /\ Enter(1, "next", Nothing, {}) /\ Spend(1 + Hurry)

\* collectInputValue: the page has what the user typed, perhaps nothing.
Entered(s, vs) == [env EXCEPT ![s] = vs]

\* A click on "Next" with something missing saves the rest, and stays.
Refused(s) ==
    LET e == Entered(s, {})
    IN  /\ Click /\ At(s) /\ pane # "wait"
        /\ env' = e /\ Spend(Cost(e))
        /\ UNCHANGED <<step, turns, buttons, pane, rows, calls, server, lpars, history>>

getPlatform == At("platform") /\ NextClick(env, {})

checkBasicPattern(vs) ==
    LET e == Entered("basic", vs)
    IN  At("basic") /\ (BackClick(e) \/ (vs # {} /\ NextClick(e, {})))

\* A fault: "Next" writes only what differs from what was saved, as by "Back".
checkSupernode_IfChanged(vs) ==
    LET e == Entered("supernode", vs)
        saved == IF e = env THEN {} ELSE {Write("supernode", e)}
    IN  At("supernode") /\ (BackClick(e) \/ (vs # {} /\ NextClick(e, saved)))

checkSupernode(vs) ==
    LET e == Entered("supernode", vs)
    IN  At("supernode") /\ (BackClick(e) \/ (vs # {} /\ NextClick(e, {Write("supernode", e)})))

\* The page has no fields until the site table came.
checkSiteTable(vs) ==
    LET e == Entered("site", vs)
    IN  /\ At("site") /\ (pane = "wait" => vs = env["site"])
        /\ BackClick(e) \/ (vs # {} /\ NextClick(e, {Write("range", e)}))

\* These pages have nothing to save.
PassOn ==
    /\ Steps[step] \in {"poweron", "config", "update", "lpars"}
    /\ BackClick(env) \/ NextClick(env, {})

\* The maps listed are saved; names without one keep the user on the page.
SaveMaps(s) ==
    LET e == Entered(s, rows)
    IN  /\ At(s) /\ pane # "radios"
        /\ BackClick(e) \/ NextClick(e, {Write(s, e)})

\* webvpd.stanza
checkFrameMtms == SaveMaps("frames")
\* updatevpd
checkHmcMtms == SaveMaps("hmcs")

\* "Discovery by lsslp", which the page of the HMCs does not show, and "Import":
\* the page is emptied, and its buttons go.
DiscoverClick ==
    /\ At("frames") /\ pane = "choose" /\ Free
    /\ pane' = "lsslp" /\ buttons' = FALSE /\ rows' = {}
    /\ calls' = calls \cup {Ask("discover")}
    /\ UNCHANGED <<step, turns, env, server, lpars, acts, history>>

ImportClick ==
    /\ Steps[step] \in Maps /\ pane = "choose" /\ Free
    /\ pane' = "form" /\ buttons' = FALSE /\ rows' = {}
    /\ UNCHANGED <<step, turns, env, calls, server, lpars, acts, history>>

Parse(v) ==
    /\ pane = "form" /\ Free /\ Spend(IF calls = {} THEN 0 ELSE 1)
    /\ calls' = calls \cup {Upload(Steps[step], v)}
    /\ UNCHANGED <<wizard, server, lpars, history>>

\* Every name gets its mtms, or one is taken back.
createMap ==
    /\ pane = "radios" /\ Free
    /\ pane' = "mapped" /\ rows' = rows \cup env["basic"]
    /\ UNCHANGED <<step, turns, buttons, env, calls, server, lpars, acts, history>>

deleteMap ==
    /\ pane = "mapped" /\ Free
    /\ pane' = "radios"
    /\ UNCHANGED <<step, turns, buttons, env, rows, calls, server, lpars, acts, history>>

\* A rule was entered that fits the number of LPARs. The dialog is modal.
ihCreateLpar ==
    /\ At("lpars") /\ Free
    /\ calls' = calls \cup {Mkvm(n) : n \in 1..Drawers}
    /\ lpars' = 0
    /\ UNCHANGED <<wizard, server, acts, history>>

CloseDialog ==
    /\ lpars = Drawers
    /\ lpars' = NoDialog
    /\ UNCHANGED <<wizard, calls, server, acts, history>>

---------------------------------------------------------------------------------
(* The answers *)

Answered(c) == c \in calls /\ calls' = calls \ {c}

\* writeconfigfile, updatevpd, dynamiciprange
Written(c) ==
    written' = [f \in Files |-> IF f \in c.files THEN c.of[IF f = "range" THEN "site" ELSE f]
                                ELSE written[f]]

\* A request without a callback is carried out.
WriteDone(c) ==
    /\ c.what = "write" /\ Answered(c) /\ Written(c)
    /\ UNCHANGED <<wizard, setup, lpars, acts, history>>

\* showSiteArea, on whichever page. The callback looks for names in quotes, which
\* lib/cmd.php has encoded: whatever the site table says, the fields are emptied.
TabdumpAnswered ==
    /\ Answered(Ask("tabdump"))
    /\ env' = Entered("site", {})
    /\ buttons' = TRUE
    /\ pane' = IF At("site") THEN "none" ELSE pane
    /\ intruded' = (intruded \/ ~At("site"))
    /\ UNCHANGED <<step, turns, rows, server, lpars, acts, hasty, lost>>

\* An error, or a number that does not fit, leaves nothing to map.
discoverFrame(fits) ==
    /\ Answered(Ask("discover"))
    /\ buttons' = TRUE
    /\ pane' = IF fits /\ pane \in {"lsslp", "radios", "mapped"} THEN "radios" ELSE pane
    /\ intruded' = (intruded \/ Working)
    /\ UNCHANGED <<step, turns, env, rows, server, lpars, acts, hasty, lost>>

\* An answer without a line raises: the loader turns on.
EmptyDiscovery ==
    /\ Answered(Ask("discover"))
    /\ pane' = IF pane = "lsslp" THEN "stuck" ELSE pane
    /\ UNCHANGED <<step, turns, buttons, env, rows, server, lpars, acts, history>>

\* A file has to name all that are needed on the page that is shown now.
parseMtmsMap(c) ==
    LET vs == c.of[c.what]
        complete == env["basic"] = {} \/ (vs = env["basic"] /\ (At("hmcs") <=> c.what = "hmcs"))
    IN  /\ c.what \in Maps /\ Answered(c)
        /\ buttons' = (buttons \/ complete)
        /\ rows' = IF complete /\ Steps[step] \in Maps THEN rows \cup vs ELSE rows
        /\ intruded' = (intruded \/ (complete /\ Working))
        /\ UNCHANGED <<step, turns, pane, env, server, lpars, acts, hasty, lost>>

createSetupFile(c) ==
    /\ c.what = "conf" /\ c \in calls
    /\ calls' = (calls \ {c}) \cup {Ask("xcatsetup")}
    /\ Written(c)
    /\ UNCHANGED <<wizard, setup, lpars, acts, history>>

runSetup ==
    /\ Answered(Ask("xcatsetup"))
    /\ setup' = written
    /\ buttons' = TRUE
    /\ hasty' = (hasty \/ \E c \in calls : c.files # {})
    /\ UNCHANGED <<step, turns, pane, env, rows, written, lpars, acts, intruded, lost>>

\* One answer of the chain. On another page there is no place for a frame to load.
Follow(cmd, next) ==
    /\ Ask(cmd) \in calls
    /\ calls' = (calls \ {Ask(cmd)}) \cup
                (IF next \in Framed /\ ~At("update") THEN {} ELSE {Ask(next)})
    /\ UNCHANGED <<wizard, server, lpars, acts, history>>

FramesUpdated ==
    \/ \E i \in 1..4 : Follow(FrameCommands[i], FrameCommands[i + 1])
    \/ Follow(FrameCommands[5], CecCommands[1])

\* The last one brings the buttons back.
CecsUpdated ==
    \/ \E i \in 1..3 : Follow(CecCommands[i], CecCommands[i + 1])
    \/ /\ Answered(Ask(CecCommands[4]))
       /\ buttons' = TRUE
       /\ UNCHANGED <<step, turns, pane, env, rows, server, lpars, acts, history>>

updateCreateLparDia(n) ==
    /\ Answered(Mkvm(n))
    /\ lpars' = lpars + 1
    /\ UNCHANGED <<wizard, server, acts, history>>

\* The HTTP exchange fails.
Lose(c) ==
    /\ ~lost /\ c.what \notin Framed /\ Answered(c)
    /\ lost' = TRUE /\ Spend(1)
    /\ UNCHANGED <<wizard, server, lpars, hasty, intruded>>

---------------------------------------------------------------------------------
Entries == {{}} \cup {{v} : v \in Values}

User ==
    \/ Cancel \/ getPlatform \/ PassOn
    \/ \E vs \in Entries : checkBasicPattern(vs) \/ checkSupernode(vs) \/ checkSiteTable(vs)
    \/ \E s \in Fields \ Maps : Refused(s)
    \/ checkFrameMtms \/ checkHmcMtms
    \/ DiscoverClick \/ ImportClick \/ createMap \/ deleteMap
    \/ \E v \in Values : Parse(v)
    \/ ihCreateLpar \/ CloseDialog

Answer ==
    \/ TabdumpAnswered
    \/ \E fits \in BOOLEAN : discoverFrame(fits)
    \/ EmptyDiscovery
    \/ \E c \in calls : WriteDone(c) \/ parseMtmsMap(c) \/ createSetupFile(c)
    \/ runSetup \/ FramesUpdated \/ CecsUpdated
    \/ \E n \in 1..Drawers : updateCreateLparDia(n)

Next == User \/ Answer \/ \E c \in calls : Lose(c)

Spec == Init /\ [][Next]_vars /\ WF_vars(Answer)

---------------------------------------------------------------------------------
TypeOK ==
    /\ step \in 1..11 /\ turns \in 0..MaxTurns /\ buttons \in BOOLEAN
    /\ pane \in {"none", "wait", "choose", "lsslp", "stuck", "radios", "mapped", "form"}
    /\ env \in [Fields -> SUBSET Values] /\ rows \subseteq Values
    /\ \A c \in calls : c.files \subseteq Files /\ DOMAIN c.of = Fields
    /\ {written, setup} \subseteq [Files -> SUBSET Values]
    /\ lpars \in 0..Drawers \cup {NoDialog} /\ acts \in 0..MaxActs
    /\ {hasty, intruded, lost} \subseteq BOOLEAN

\* The hardware is updated from a set-up with what discoverEnv holds, however the
\* user went back and forth between the pages, unless a file was not yet written
\* when it was needed, or an answer for another page intruded.
UpdateAsEntered ==
    (\E c \in calls : c.what \in Updates) /\ ~hasty /\ ~intruded /\ ~lost =>
        (\A f \in Fields : setup[f] = env[f]) /\ setup["range"] = env["site"]

\* A page without buttons, or the dialog, is waited at until what it asked for was
\* answered, except that an empty answer of lsslp leaves the page so. A page with a
\* form asks nothing by itself.
Waiting == (~buttons /\ pane \in {"wait", "lsslp", "stuck"}) \/ lpars \in 0..(Drawers - 1)
Excused == lost \/ pane = "stuck"
=================================================================================
