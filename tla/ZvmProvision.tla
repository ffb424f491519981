------------------------------ MODULE ZvmProvision ------------------------------
(* The chain of commands that provisions a new z/VM virtual machine (zvmUtils.js, *)
(* createZProvisionNew and updateZProvisionNewStatus). A click freezes the form   *)
(* and posts the first command, the callback of each posts the next. The disks    *)
(* are added in parallel and counted in two cookies that every window shares.     *)
(* What the directory entry sent with mkvm holds is ZvmDirectoryEntry.            *)
EXTENDS Ajax, Integers

CONSTANTS
    MaxDisks,   \* bound on the rows of the disk table
    MaxZfcp     \* bound on the rows of the zFCP table

VARIABLES
    builtin,    \* builtInXCAT: no makedns and no makedhcp
    stage,      \* "edit", "confirm" (modal dialog) or "run" (inputs disabled)
    os,         \* an image is selected
    disks, zfcp,    \* rows in the two tables
    frozen,     \* rows of each whose remove button was unbound
    calls,      \* requests of the chain in flight
    disks2add, zfcp2add,    \* the cookies
    loader,     \* the loader is shown
    asked,      \* requests posted so far
    attached,   \* rows whose chvm succeeded
    failed, lost,   \* an answer had an error; a request got none
    shared      \* another window has written the cookies

form     == <<builtin, stage, os, disks, zfcp, frozen>>
counters == <<disks2add, zfcp2add>>
history  == <<asked, attached, failed, lost, shared>>
vars == <<form, calls, counters, loader, history>>

Disk(i) == [cmd |-> "chvm-disk", row |-> i]
Zfcp(i) == [cmd |-> "chvm-zfcp", row |-> i]
Cmd(c)  == [cmd |-> c, row |-> 0]

Rows == {Disk(i) : i \in 1..MaxDisks} \cup {Zfcp(i) : i \in 1..MaxZfcp}
Chain == Rows \cup {Cmd(c) : c \in {"nodeadd", "mkvm", "makehosts", "makedns", "noderes",
                                    "makedhcp", "nodeset", "rnetboot"}}

Init ==
    /\ builtin \in BOOLEAN
    /\ stage = "edit"
    /\ os = FALSE
    /\ disks = 0 /\ zfcp = 0
    /\ frozen = [disks |-> 0, zfcp |-> 0]
    /\ calls = {}
    /\ disks2add = 0 /\ zfcp2add = 0
    /\ loader = FALSE
    /\ asked = {} /\ attached = {}
    /\ failed = FALSE /\ lost = FALSE /\ shared = FALSE

---------------------------------------------------------------------------------
(* The form *)

SelectOs ==
    /\ stage = "edit"
    /\ os' = ~os
    /\ UNCHANGED <<builtin, stage, disks, zfcp, frozen, calls, counters, loader, history>>

\* The link that adds a disk is disabled by an attribute that has no effect on
\* a link, the other is not disabled at all: rows can be added to a frozen form.
AddDisk ==
    /\ stage # "confirm" /\ disks < MaxDisks
    /\ disks' = disks + 1
    /\ UNCHANGED <<builtin, stage, os, zfcp, frozen, calls, counters, loader, history>>

AddZfcp ==
    /\ stage # "confirm" /\ zfcp < MaxZfcp
    /\ zfcp' = zfcp + 1
    /\ UNCHANGED <<builtin, stage, os, disks, frozen, calls, counters, loader, history>>

\* A row can be removed unless its button was unbound when the form was frozen.
RemoveRow ==
    /\ stage # "confirm"
    /\ \/ disks > frozen.disks /\ disks' = disks - 1 /\ UNCHANGED zfcp
       \/ zfcp > frozen.zfcp /\ zfcp' = zfcp - 1 /\ UNCHANGED disks
    /\ UNCHANGED <<builtin, stage, os, frozen, calls, counters, loader, history>>

\* The rows the check for disks counts: those of the two headers are among them.
TableRows == 2 + disks + zfcp

\* Both ways to start freeze the form, show the loader and post nodeadd.
Submit ==
    /\ stage' = "run"
    /\ frozen' = [disks |-> disks, zfcp |-> zfcp]
    /\ loader' = TRUE
    /\ calls' = {Cmd("nodeadd")}
    /\ asked' = {Cmd("nodeadd")}
    /\ UNCHANGED <<builtin, os, disks, zfcp, counters, attached, failed, lost, shared>>

\* With an image "disks are needed". Without one the user has to confirm. A click
\* that is refused shows a warning and changes nothing kept here.
ClickProvision ==
    /\ stage = "edit"
    /\ os => TableRows >= 1
    /\ \/ os /\ Submit
       \/ /\ ~os
          /\ stage' = "confirm"
          /\ UNCHANGED <<builtin, os, disks, zfcp, frozen, calls, counters, loader, history>>

Confirm == stage = "confirm" /\ Submit

Cancel ==
    /\ stage = "confirm"
    /\ stage' = "edit"
    /\ UNCHANGED <<builtin, os, disks, zfcp, frozen, calls, counters, loader, history>>

---------------------------------------------------------------------------------
(* The chain *)

\* The callback for c posts what follows.
Follow(c, next) ==
    /\ c \in calls
    /\ calls' = (calls \ {c}) \cup next
    /\ asked' = asked \cup next
    /\ UNCHANGED <<form, lost, shared>>

\* It posts the next command ...
Go(c, next) ==
    /\ Follow(c, {next})
    /\ UNCHANGED <<counters, loader, attached, failed>>

\* ... or finds an error, or nothing left to do, and hides the loader.
Halt(c, error) ==
    /\ Follow(c, {})
    /\ loader' = FALSE
    /\ failed' = (failed \/ error)
    /\ UNCHANGED <<counters, attached>>

\* (2) nodeadd is silent when it succeeds.
NodeaddAnswered(rsp) ==
    IF HasText(rsp) THEN Halt(Cmd("nodeadd"), TRUE) ELSE Go(Cmd("nodeadd"), Cmd("mkvm"))

\* (3)
MkvmAnswered(rsp) ==
    IF ContainErrors(rsp) THEN Halt(Cmd("mkvm"), TRUE)
    ELSE Go(Cmd("mkvm"), Cmd("makehosts"))

\* (4) Only where DNS is ours.
MakehostsAnswered(rsp) ==
    /\ ~builtin
    /\ IF HasText(rsp) THEN Halt(Cmd("makehosts"), TRUE)
       ELSE Go(Cmd("makehosts"), Cmd("makedns"))

\* A fault: the loader is hidden while the rows are added.
AddDisksAnswered_LoaderHidden(rsp) ==
    LET c    == Cmd(IF builtin THEN "makehosts" ELSE "makedns")
        rows == {Disk(i) : i \in 1..disks} \cup {Zfcp(i) : i \in 1..zfcp}
    IN IF HasText(rsp) THEN Halt(c, TRUE)
       ELSE /\ Follow(c, rows)
            /\ disks2add' = disks
            /\ zfcp2add' = zfcp
            /\ loader' = FALSE
            /\ UNCHANGED <<attached, failed>>

\* (5) For the rows of the tables as they are now: the cookies are set to their
\* number and one chvm is posted for each; without rows the chain is finished.
AddDisksAnswered(rsp) ==
    LET c    == Cmd(IF builtin THEN "makehosts" ELSE "makedns")
        rows == {Disk(i) : i \in 1..disks} \cup {Zfcp(i) : i \in 1..zfcp}
    IN IF HasText(rsp) THEN Halt(c, TRUE)
       ELSE /\ Follow(c, rows)
            /\ disks2add' = disks
            /\ zfcp2add' = zfcp
            /\ loader' = (rows # {})
            /\ UNCHANGED <<attached, failed>>

\* A fault: the cookie is decremented at zero as well.
OneLess_Always(n) == n - 1

\* One less in the cookie, but never below zero.
OneLess(n) == IF n > 0 THEN n - 1 ELSE n

\* A fault: it goes on when either table has no row left.
RowAnswered_OneTable(row, rsp) ==
    IF ContainErrors(rsp) THEN Halt(row, TRUE)
    ELSE /\ disks2add' = IF row.cmd = "chvm-disk" THEN OneLess(disks2add) ELSE disks2add
         /\ zfcp2add' = IF row.cmd = "chvm-zfcp" THEN OneLess(zfcp2add) ELSE zfcp2add
         /\ attached' = attached \cup {row}
         /\ IF zfcp2add' < 1 \/ disks2add' < 1
            THEN /\ Follow(row, IF os THEN {Cmd("noderes")} ELSE {})
                 /\ loader' = (os /\ loader)
            ELSE Follow(row, {}) /\ UNCHANGED loader
         /\ UNCHANGED failed

\* A fault: a row is counted off before the answer is looked at.
RowAnswered_ErrorCounted(row, rsp) ==
    /\ disks2add' = IF row.cmd = "chvm-disk" THEN OneLess(disks2add) ELSE disks2add
    /\ zfcp2add' = IF row.cmd = "chvm-zfcp" THEN OneLess(zfcp2add) ELSE zfcp2add
    /\ failed' = (failed \/ ContainErrors(rsp))
    /\ IF ContainErrors(rsp)
       THEN Follow(row, {}) /\ loader' = FALSE /\ UNCHANGED attached
       ELSE /\ attached' = attached \cup {row}
            /\ IF zfcp2add' < 1 /\ disks2add' < 1
               THEN /\ Follow(row, IF os THEN {Cmd("noderes")} ELSE {})
                    /\ loader' = (os /\ loader)
               ELSE Follow(row, {}) /\ UNCHANGED loader

\* (6) A row is done: its cookie is decremented, and when none is left the
\* operating system is set, if an image was selected.
RowAnswered(row, rsp) ==
    IF ContainErrors(rsp) THEN Halt(row, TRUE)
    ELSE /\ disks2add' = IF row.cmd = "chvm-disk" THEN OneLess(disks2add) ELSE disks2add
         /\ zfcp2add' = IF row.cmd = "chvm-zfcp" THEN OneLess(zfcp2add) ELSE zfcp2add
         /\ attached' = attached \cup {row}
         /\ IF zfcp2add' < 1 /\ disks2add' < 1
            THEN /\ Follow(row, IF os THEN {Cmd("noderes")} ELSE {})
                 /\ loader' = (os /\ loader)
            ELSE Follow(row, {}) /\ UNCHANGED loader
         /\ UNCHANGED failed

\* (7) Only where DHCP is ours.
NoderesAnswered(rsp) ==
    /\ ~builtin
    /\ IF HasText(rsp) THEN Halt(Cmd("noderes"), TRUE)
       ELSE Go(Cmd("noderes"), Cmd("makedhcp"))

\* (8)
PrepareAnswered(rsp) ==
    LET c == Cmd(IF builtin THEN "noderes" ELSE "makedhcp")
    IN IF HasText(rsp) THEN Halt(c, TRUE) ELSE Go(c, Cmd("nodeset"))

\* (9)
NodesetAnswered(rsp) ==
    IF ContainErrors(rsp) THEN Halt(Cmd("nodeset"), TRUE)
    ELSE Go(Cmd("nodeset"), Cmd("rnetboot"))

\* (10)
RnetbootAnswered(rsp) == Halt(Cmd("rnetboot"), ContainErrors(rsp))

\* The HTTP exchange of a request fails: its callback is never called.
Lose(c) ==
    /\ c \in calls
    /\ calls' = calls \ {c}
    /\ lost' = TRUE
    /\ UNCHANGED <<form, counters, loader, asked, attached, failed, shared>>

\* Another window has a tab with the same number and writes the counts of its own
\* rows. It can at any time; it matters, and is modelled, while rows are in flight.
OtherWindow ==
    /\ ~shared /\ calls \cap Rows # {}
    /\ shared' = TRUE
    /\ disks2add' \in 0..MaxDisks
    /\ zfcp2add' \in 0..MaxZfcp
    /\ UNCHANGED <<form, calls, loader, asked, attached, failed, lost>>

---------------------------------------------------------------------------------
User ==
    \/ SelectOs
    \/ AddDisk
    \/ AddZfcp
    \/ RemoveRow
    \/ ClickProvision
    \/ Confirm
    \/ Cancel

Answer ==
    \E rsp \in Answers :
        \/ NodeaddAnswered(rsp)
        \/ MkvmAnswered(rsp)
        \/ MakehostsAnswered(rsp)
        \/ AddDisksAnswered(rsp)
        \/ \E row \in Rows : RowAnswered(row, rsp)
        \/ NoderesAnswered(rsp)
        \/ PrepareAnswered(rsp)
        \/ NodesetAnswered(rsp)
        \/ RnetbootAnswered(rsp)

Next == User \/ Answer \/ (\E c \in Chain : Lose(c)) \/ OtherWindow

\* The server answers; nothing makes the user, the network or another window act.
Spec == Init /\ [][Next]_vars /\ WF_vars(Answer)

---------------------------------------------------------------------------------
TypeOK ==
    /\ builtin \in BOOLEAN /\ stage \in {"edit", "confirm", "run"} /\ os \in BOOLEAN
    /\ disks \in 0..MaxDisks /\ zfcp \in 0..MaxZfcp
    /\ frozen \in [disks : 0..MaxDisks, zfcp : 0..MaxZfcp]
    /\ calls \subseteq Chain
    /\ disks2add \in 0..MaxDisks /\ zfcp2add \in 0..MaxZfcp
    /\ loader \in BOOLEAN
    /\ asked \subseteq Chain /\ attached \subseteq Rows
    /\ failed \in BOOLEAN /\ lost \in BOOLEAN /\ shared \in BOOLEAN

\* The operating system is set once, and only when every row a chvm was posted
\* for has been added, as long as no other window writes the cookies.
OsStep ==
    Cmd("noderes") \in calls' \ calls /\ ~shared =>
        asked \cap Rows \subseteq attached' /\ Cmd("noderes") \notin asked
OsAfterDisks == [][OsStep]_vars

\* The node is booted only if no step before has failed or got lost, as long as
\* no other window writes the cookies: one disk of several that fails stops all.
BootStep == Cmd("rnetboot") \in calls' \ calls /\ ~shared => ~failed' /\ ~lost'
BootOnlyIfAllSucceeded == [][BootStep]_vars

\* Once the loader is hidden the page asks nothing more of the server, unless
\* another window writes the cookies: the disks still in flight start nothing.
QuietStep == stage = "run" /\ ~loader /\ ~shared => calls' \subseteq calls
QuietWhenHidden == [][QuietStep]_vars

\* The loader is hidden in the end, if every request is answered and no other
\* window writes the cookies.
Waiting == stage = "run" /\ loader
Excused == lost \/ shared
LoaderHidden == Waiting ~> ~Waiting \/ Excused
=================================================================================
