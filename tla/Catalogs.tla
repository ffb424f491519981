--------------------------------- MODULE Catalogs ---------------------------------
(* The panels of the configure page with the operating system images and groups    *)
(* of the self-service portal (configure/service.js) and the profiles of z/VM nodes *)
(* (custom/zvmUtils.js). A panel's table is a copy that only "Refresh" renews; an   *)
(* edit sends every field of its dialog, filled from the table or by a request.    *)
(* A behaviour is about one panel. Answers that are only shown are left out.       *)
EXTENDS Integers

CONSTANTS
    Names,      \* of images, groups or profiles
    MaxActs     \* bound on refreshes, edits and deletions

VARIABLES
    kind,       \* the panel
    acts,       \* what the user did so far
    db,         \* what the server holds for each name
    files,      \* values written to /var/tmp
    writes,     \* how often the server changed db
    rows,       \* names in the table
    cells,      \* their columns
    asof,       \* value of "writes" when the table was asked for, Stale if another
                \* request was in flight then
    dialogs,    \* the open edit dialogs
    calls,      \* requests the server has not seen
    answers,    \* those it has answered
    lost        \* a request did not reach the server

vars == <<kind, acts, db, files, writes, rows, cells, asof, dialogs, calls, answers,
          lost>>
server == <<db, files, writes>>
table == <<rows, cells, asof>>

Kinds == {"images", "groups", "profiles"}
Stale == -1

\* The fields of an entry: the columns, the IP pool in a file, the disk settings
\* and the directory entry.
FieldsOf(k) == CASE k = "images" -> {"row"}
                 [] k = "groups" -> {"row", "pool"}
                 [] k = "profiles" -> {"disk", "entry"}
Fields == FieldsOf(kind)

\* "default" stands in for a value that is missing: the settings of the default
\* profile, and "No IP pool found!" in place of a pool. "older" was on the server.
\* A column's text may have a comma in it; up to there it is "cut".
Values == {"none", "default", "older", "old", "new", "comma", "cut"}
Texts(f, v) == IF f = "row" THEN {v, "comma"} ELSE {v}
Held(n, f) == IF db[n][f] = "none" /\ f # "row" THEN "default" ELSE db[n][f]
Nothing == [f \in Fields |-> "none"]

\* tabdump osimage lists the profiles; the other tables have a row per entry.
Listed == {n \in Names : kind = "profiles" \/ db[n]["row"] # "none"}

NoDialog == [open |-> FALSE]
Closed == \A n \in Names : ~dialogs[n].open

\* A request for one entry, or for the table.
Request(cmd, n, vals) == [cmd |-> cmd, name |-> n, vals |-> vals]
Tabdump(at) == [cmd |-> "tabdump", asof |-> at]
Answer(c, v) == [to |-> c, with |-> v]
\* The pool of group n was asked for, by this dialog or one before.
Asked(n) ==
    \/ Request("lsippool", n, Nothing) \in calls
    \/ \E v \in Values : Answer(Request("lsippool", n, Nothing), v) \in answers

\* What the table shows of an entry at first, and what is asked for then. The line
\* of tabdump is split at every comma, those in quotes too: the column ends there,
\* and what follows it, as whether the entry can be selected, is not found.
Columns(n) ==
    IF kind = "profiles" THEN Nothing
    ELSE [Nothing EXCEPT !["row"] = IF db[n]["row"] = "comma" THEN "cut" ELSE db[n]["row"]]
Details(S) ==
    IF kind # "profiles" THEN {}
    ELSE {Request(cmd, n, Nothing) : cmd \in {"getzdiskinfo", "getdefaultuserentry"}, n \in S}

\* The table has been drawn; before that there are no menus. Another session may
\* have changed the entries since.
Init ==
    /\ kind \in Kinds /\ acts = 0
    /\ db \in [Names -> [Fields -> {"none", "old", "comma"}]]
    /\ \A n \in Names, f \in Fields : db[n][f] \in {"none"} \cup Texts(f, "old")
    /\ files = [n \in Names |-> "none"]
    /\ writes = 0
    /\ \/ rows = Listed /\ cells = [n \in Names |-> Columns(n)] /\ asof = 0
       \/ /\ kind # "profiles"
          /\ rows = Names /\ cells = [n \in Names |-> [Nothing EXCEPT !["row"] = "older"]]
          /\ asof = Stale
    /\ dialogs = [n \in Names |-> NoDialog]
    /\ calls = Details(rows) /\ answers = {} /\ lost = FALSE

---------------------------------------------------------------------------------
(* The server *)

Change(new) == db' = new /\ writes' = writes + 1

Answered(c, v) ==
    /\ calls' = calls \ {c}
    /\ answers' = answers \cup {Answer(c, v)}
    /\ UNCHANGED <<kind, acts, table, dialogs, lost>>

Executed(c, after) ==
    /\ calls' = (calls \ {c}) \cup after
    /\ UNCHANGED <<kind, acts, table, dialogs, answers, lost>>

ReadTable(c) ==
    /\ c \in calls /\ c.cmd = "tabdump"
    /\ Answered(c, [n \in Listed |-> Columns(n)])
    /\ UNCHANGED server

\* web_lsippool, web_getzdiskinfo and web_getdefaultuserentry
ReadDetail(c, f) ==
    /\ c \in calls /\ f \in Fields
    /\ c.cmd = (CASE f = "pool" -> "lsippool" [] f = "disk" -> "getzdiskinfo"
                  [] f = "entry" -> "getdefaultuserentry" [] OTHER -> "none")
    /\ Answered(c, Held(c.name, f))
    /\ UNCHANGED server

\* web_updateosimage and web_updategroup
UpdateRow(c) ==
    /\ c \in calls /\ c.cmd = "update"
    /\ Change([db EXCEPT ![c.name]["row"] = c.vals["row"]])
    /\ Executed(c, {})
    /\ UNCHANGED files

\* The file is written, and its answer makes the page post the command for it.
WriteFile(c, f) ==
    /\ c \in calls /\ c.cmd = "write" /\ f = IF kind = "groups" THEN "pool" ELSE "entry"
    /\ files' = [files EXCEPT ![c.name] = c.vals[f]]
    /\ Executed(c, {Request("mk", c.name, c.vals)})
    /\ UNCHANGED <<db, writes>>

\* web_mkippool and web_mkzprofile: the file is moved, and the disks are written.
Make(c) ==
    LET n == c.name
        moved == IF files[n] = "none" THEN {}
                 ELSE {IF kind = "groups" THEN "pool" ELSE "entry"}
    IN /\ c \in calls /\ c.cmd = "mk"
       /\ Change([db EXCEPT ![n] = [f \in Fields |->
              CASE f \in moved -> files[n] [] f = "disk" -> c.vals[f] [] OTHER -> db[n][f]]])
       /\ files' = [files EXCEPT ![n] = "none"]
       /\ Executed(c, {})

\* web_rmosimage, web_rmgroup and web_rmzprofile
Remove(c) ==
    /\ c \in calls /\ c.cmd = "rm"
    /\ Change([db EXCEPT ![c.name] = Nothing])
    /\ Executed(c, {})
    /\ UNCHANGED files

\* A request that does not reach the server.
Lose(c) ==
    /\ ~lost /\ c \in calls
    /\ calls' = calls \ {c}
    /\ lost' = TRUE
    /\ UNCHANGED <<kind, acts, server, table, dialogs, answers>>

---------------------------------------------------------------------------------
(* The table *)

Act == acts < MaxActs /\ acts' = acts + 1

\* "Refresh"; a dialog is modal.
Query(k) ==
    /\ kind = k /\ Act /\ Closed
    /\ calls' = calls \cup {Tabdump(IF calls = {} /\ answers = {} THEN writes ELSE Stale)}
    /\ UNCHANGED <<kind, server, table, dialogs, answers, lost>>

queryImages == Query("images")
queryGroups == Query("groups")
queryProfiles == Query("profiles")

\* A fault: rows that are in the table keep their columns.
Draw_Appends(k, a) ==
    /\ kind = k /\ a \in answers /\ a.to.cmd = "tabdump"
    /\ answers' = answers \ {a}
    /\ rows' = DOMAIN a.with
    /\ cells' = [n \in Names |-> IF n \in rows THEN cells[n]
                                 ELSE IF n \in rows' THEN a.with[n] ELSE Nothing]
    /\ asof' = a.to.asof
    /\ UNCHANGED <<kind, acts, server, dialogs, lost>>

\* The panel is wiped, and the table drawn anew.
Draw(k, a) ==
    /\ kind = k /\ a \in answers /\ a.to.cmd = "tabdump"
    /\ answers' = answers \ {a}
    /\ rows' = DOMAIN a.with
    /\ cells' = [n \in Names |-> IF n \in rows' THEN a.with[n] ELSE Nothing]
    /\ asof' = a.to.asof
    /\ UNCHANGED <<kind, acts, server, dialogs, lost>>

configImagePanel(a) == Draw("images", a) /\ UNCHANGED calls
configGroupPanel(a) == Draw("groups", a) /\ UNCHANGED calls
\* The columns of each profile are asked for.
configProfilePanel(a) ==
    /\ Draw("profiles", a)
    /\ calls' = calls \cup Details(rows')

Insert(a, cmd, f) ==
    /\ kind = "profiles" /\ a \in answers /\ a.to.cmd = cmd
    /\ answers' = answers \ {a}
    /\ cells' = IF a.to.name \in rows THEN [cells EXCEPT ![a.to.name][f] = a.with] ELSE cells
    /\ UNCHANGED <<kind, acts, server, rows, asof, dialogs, calls, lost>>

insertDiskInfo(a) == Insert(a, "getzdiskinfo", "disk")
insertDirectoryEntry(a) == Insert(a, "getdefaultuserentry", "entry")

---------------------------------------------------------------------------------
(* The dialogs *)

\* What "Ok" posts: the row and the file of a group in parallel.
Posts(n, vals) ==
    (IF kind = "profiles" THEN {} ELSE {Request("update", n, vals)}) \cup
    (IF kind = "images" THEN {} ELSE {Request("write", n, vals)})

\* A new entry, or a new definition of one: its fields are typed.
Create(k, n) ==
    /\ kind = k /\ Act /\ Closed
    /\ \E v \in Texts("row", "new") :
        calls' = calls \cup Posts(n, [f \in Fields |-> IF f = "row" THEN v ELSE "new"])
    /\ UNCHANGED <<kind, server, table, dialogs, answers, lost>>

imageDialog(n) == Create("images", n)
groupDialog(n) == Create("groups", n)
profileDialog(n) == Create("profiles", n)

\* "Edit" opens a dialog for each checked row, filled from its columns.
Edit(k, S, after) ==
    /\ kind = k /\ Act /\ Closed
    /\ S # {} /\ S \subseteq rows
    /\ dialogs' = [n \in Names |-> IF n \notin S THEN NoDialog ELSE
                       [open |-> TRUE, vals |-> cells[n], typed |-> Nothing,
                        early |-> FALSE, asof |-> asof]]
    /\ calls' = calls \cup after
    /\ UNCHANGED <<kind, server, table, answers, lost>>

editImageDialog(S) == Edit("images", S, {})
editGroupDialog(S) == Edit("groups", S, {Request("lsippool", n, Nothing) : n \in S})
editProfileDialog(S) == Edit("profiles", S, {})

\* The pool fills its field in the dialog of that name, if there is one.
PoolAnswered(a) ==
    /\ a \in answers /\ a.to.cmd = "lsippool"
    /\ answers' = answers \ {a}
    /\ dialogs' = IF dialogs[a.to.name].open
                  THEN [dialogs EXCEPT ![a.to.name].vals["pool"] = a.with] ELSE dialogs
    /\ UNCHANGED <<kind, acts, server, table, calls, lost>>

Type(n, f, v) ==
    /\ dialogs[n].open /\ f \in Fields /\ dialogs[n].typed[f] = "none"
    /\ v \in Texts(f, "new")
    /\ dialogs' = [dialogs EXCEPT ![n].vals[f] = v, ![n].typed[f] = v,
                                  ![n].early = @ \/ (f = "pool" /\ Asked(n))]
    /\ UNCHANGED <<kind, acts, server, table, calls, answers, lost>>

\* "Ok". A profile's fields must be filled. The name of an image is made of its
\* fields again, and may be that of another. The dialog then only shows answers.
Ok(n, name) ==
    /\ dialogs[n].open
    /\ kind = "profiles" => \A f \in Fields : dialogs[n].vals[f] # "none"
    /\ kind # "images" => name = n
    /\ calls' = calls \cup Posts(name, dialogs[n].vals)
    /\ dialogs' = [dialogs EXCEPT ![n] = NoDialog]
    /\ UNCHANGED <<kind, acts, server, table, answers, lost>>

Cancel(n) ==
    /\ dialogs[n].open
    /\ dialogs' = [dialogs EXCEPT ![n] = NoDialog]
    /\ UNCHANGED <<kind, acts, server, table, calls, answers, lost>>

Delete(k, S) ==
    /\ kind = k /\ Act /\ Closed
    /\ S # {} /\ S \subseteq rows
    /\ calls' = calls \cup {Request("rm", n, Nothing) : n \in S}
    /\ UNCHANGED <<kind, server, table, dialogs, answers, lost>>

deleteImageDialog(S) == Delete("images", S)
deleteGroupDialog(S) == Delete("groups", S)
deleteProfileDialog(S) == Delete("profiles", S)

---------------------------------------------------------------------------------
User ==
    \/ queryImages
    \/ queryGroups
    \/ queryProfiles
    \/ \E n \in Names :
        \/ imageDialog(n)
        \/ groupDialog(n)
        \/ profileDialog(n)
    \/ \E S \in SUBSET rows :
        \/ editImageDialog(S)
        \/ editGroupDialog(S)
        \/ editProfileDialog(S)
        \/ deleteImageDialog(S)
        \/ deleteGroupDialog(S)
        \/ deleteProfileDialog(S)
    \/ \E n \in Names :
        \/ \E f \in Fields, v \in {"new", "comma"} : Type(n, f, v)
        \/ \E name \in Names : Ok(n, name)
        \/ Cancel(n)

Serve ==
    \E c \in calls :
        \/ ReadTable(c)
        \/ \E f \in Fields : ReadDetail(c, f) \/ WriteFile(c, f)
        \/ UpdateRow(c)
        \/ Make(c)
        \/ Remove(c)
        \/ Lose(c)

Callback ==
    \E a \in answers :
        \/ configImagePanel(a)
        \/ configGroupPanel(a)
        \/ configProfilePanel(a)
        \/ insertDiskInfo(a)
        \/ insertDirectoryEntry(a)
        \/ PoolAnswered(a)

Next == User \/ Serve \/ Callback

Spec == Init /\ [][Next]_vars

---------------------------------------------------------------------------------
TypeOK ==
    /\ kind \in Kinds /\ acts \in 0..MaxActs
    /\ db \in [Names -> [Fields -> Values]] /\ files \in [Names -> Values]
    /\ lost \in BOOLEAN
    /\ writes \in Nat /\ asof \in Nat \cup {Stale}
    /\ rows \subseteq Names /\ cells \in [Names -> [Fields -> Values]]
    /\ \A n \in Names : dialogs[n].open =>
        dialogs[n] \in [open : {TRUE}, vals : [Fields -> Values], typed : [Fields -> Values],
                        early : BOOLEAN, asof : Nat \cup {Stale}]

\* What "Ok" would send for a field is what the user typed in it, or else what the
\* server holds, although a late answer may fill the table or the dialog: if the
\* table was refreshed with nothing in flight and the server did not change since,
\* the user waited for the pool of the group, and no request was lost. A column
\* that has a comma on the server is sent cut, unless it is typed again.
EditKeepsRest ==
    \A n \in Names :
        LET d == dialogs[n]
        IN d.open /\ d.asof = writes /\ ~d.early /\ ~Asked(n) /\ ~lost =>
            \A f \in Fields :
                \/ d.typed[f] # "none" /\ d.vals[f] = d.typed[f]
                \/ d.typed[f] = "none" /\ d.vals[f] = Held(n, f)
                \/ d.typed[f] = "none" /\ f = "row" /\ db[n][f] = "comma" /\ d.vals[f] = "cut"
                \/ kind = "profiles" /\ d.typed[f] = "none" /\ d.vals[f] = "none"
=================================================================================
