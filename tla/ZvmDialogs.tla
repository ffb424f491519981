------------------------------- MODULE ZvmDialogs -------------------------------
(* The dialogs of the z/VM resource page of the web interface (zvmUtils.js, the    *)
(* functions open...Dialog, and updateResourceDialog). A dialog is modal and is    *)
(* removed when it is closed; until its first request it can be submitted, then    *)
(* its buttons are replaced by one that closes it. The answer is shown in the      *)
(* dialog that has the right id when it comes, if there is one: also in one that   *)
(* was opened later, for another resource.                                         *)
EXTENDS Ajax, Integers

CONSTANTS
    Systems,    \* z/VM systems a request can be sent to
    MaxOpen     \* bound on the dialogs opened, and so on the requests

VARIABLES
    dialog,     \* the dialog that is open, or NoDialog
    opened,     \* how many have been opened
    calls,      \* requests in flight
    shown,      \* answers shown in the dialog
    hasty       \* a dialog was closed before its answer came

vars == <<dialog, opened, calls, shown, hasty>>

\* The two dialogs that add to a pool have the same id.
DialogId(kind) == IF kind = "AddZfcp2Pool" THEN "AddDisk2Pool" ELSE kind

\* The network dialog that removes has no id: its answers open windows.
Kinds == {"AddEckd2System", "AddVolume2System", "RemoveVolumeFromSystem", "AddPageSpool",
          "ShareDisk", "AddScsi2System", "RemoveScsi", "AddVswitchVlan", "RemoveDiskFromPool",
          "AddDisk2Pool", "RemoveZfcpFromPool", "AddZfcp2Pool"}
Confirm == "RemoveVswitchVlan"

NoDialog == [kind |-> "none", number |-> 0, submit |-> FALSE]
Request(kind, number, system) == [kind |-> kind, number |-> number, system |-> system]

Init ==
    /\ dialog = NoDialog
    /\ opened = 0
    /\ calls = {}
    /\ shown = {}
    /\ hasty = FALSE

---------------------------------------------------------------------------------
\* A menu opens a dialog; it is modal.
Open(kind) ==
    /\ dialog = NoDialog /\ opened < MaxOpen
    /\ opened' = opened + 1
    /\ dialog' = [kind |-> kind, number |-> opened + 1, submit |-> TRUE]
    /\ UNCHANGED <<calls, shown, hasty>>

\* A fault: the dialog is closed, which hides it, and not removed.
Close_Hides ==
    /\ dialog # NoDialog
    /\ dialog' = NoDialog
    /\ hasty' = (hasty \/ \E c \in calls : c.kind # Confirm)
    /\ UNCHANGED <<opened, calls, shown>>

\* "Cancel", "Close", or the cross in its corner: the dialog is removed.
Close ==
    /\ dialog # NoDialog
    /\ dialog' = NoDialog /\ shown' = {}
    /\ hasty' = (hasty \/ \E c \in calls : c.kind # Confirm)
    /\ UNCHANGED <<opened, calls>>

\* "Ok" with every required value: the buttons are replaced, one request posted.
\* With a value missing it warns and changes nothing.
Submit(kind, system) ==
    /\ dialog.kind = kind /\ dialog.submit
    /\ dialog' = [dialog EXCEPT !.submit = FALSE]
    /\ calls' = calls \cup {Request(kind, dialog.number, system)}
    /\ UNCHANGED <<opened, shown, hasty>>

AddEckd2System(system) == Submit("AddEckd2System", system)
AddVolume2System(system) == Submit("AddVolume2System", system)
RemoveVolumeFromSystem(system) == Submit("RemoveVolumeFromSystem", system)
AddPageSpool(system) == Submit("AddPageSpool", system)
ShareDisk(system) == Submit("ShareDisk", system)
AddScsi2System(system) == Submit("AddScsi2System", system)
RemoveScsi(system) == Submit("RemoveScsi", system)
RemoveDiskFromPool(system) == Submit("RemoveDiskFromPool", system)
AddDisk2Pool(system) == Submit("AddDisk2Pool", system)
RemoveZfcpFromPool(system) == Submit("RemoveZfcpFromPool", system)
AddZfcp2Pool(system) == Submit("AddZfcp2Pool", system)

\* A VLAN on Ethernet HiperSockets is refused; for no network type "Ok" does
\* nothing.
AddVswitchVlan(system, networkType, ethernet) ==
    /\ networkType = "vswitch" \/ (networkType = "vlan" /\ ~ethernet)
    /\ Submit("AddVswitchVlan", system)

\* Every network that is checked is removed by a request of its own, and the
\* dialog is closed with the click.
RemoveVswitchVlan(systems) ==
    LET new == {Request(Confirm, dialog.number, s) : s \in systems}
    IN /\ dialog.kind = Confirm /\ dialog.submit
       /\ dialog' = NoDialog
       /\ calls' = calls \cup new
       /\ UNCHANGED <<opened, shown, hasty>>

\* The answer is shown in the dialog with the id, whichever that is now.
updateResourceDialog(c) ==
    /\ c \in calls /\ c.kind # Confirm
    /\ calls' = calls \ {c}
    /\ shown' = IF dialog # NoDialog /\ DialogId(dialog.kind) = DialogId(c.kind)
                THEN shown \cup {c} ELSE shown
    /\ UNCHANGED <<dialog, opened, hasty>>

\* The answer to a removed network opens a window of its own.
NetworkRemoved(c) ==
    /\ c \in calls /\ c.kind = Confirm
    /\ calls' = calls \ {c}
    /\ UNCHANGED <<dialog, opened, shown, hasty>>

Lose(c) ==
    /\ c \in calls
    /\ calls' = calls \ {c}
    /\ UNCHANGED <<dialog, opened, shown, hasty>>

Next ==
    \/ \E kind \in Kinds \cup {Confirm} : Open(kind)
    \/ Close
    \/ \E system \in Systems :
        \/ AddEckd2System(system)
        \/ AddVolume2System(system)
        \/ RemoveVolumeFromSystem(system)
        \/ AddPageSpool(system)
        \/ ShareDisk(system)
        \/ AddScsi2System(system)
        \/ RemoveScsi(system)
        \/ RemoveDiskFromPool(system)
        \/ AddDisk2Pool(system)
        \/ RemoveZfcpFromPool(system)
        \/ AddZfcp2Pool(system)
        \/ \E networkType \in {"", "vswitch", "vlan"}, ethernet \in BOOLEAN :
            AddVswitchVlan(system, networkType, ethernet)
    \/ \E systems \in SUBSET Systems : RemoveVswitchVlan(systems)
    \/ \E c \in calls : updateResourceDialog(c) \/ NetworkRemoved(c) \/ Lose(c)

Spec == Init /\ [][Next]_vars

---------------------------------------------------------------------------------
TypeOK ==
    /\ dialog \in [kind : Kinds \cup {Confirm, "none"}, number : 0..MaxOpen, submit : BOOLEAN]
    /\ opened \in 0..MaxOpen
    /\ calls \cup shown \subseteq
        [kind : Kinds \cup {Confirm}, number : 1..MaxOpen, system : Systems]
    /\ hasty \in BOOLEAN

\* What a dialog shows was asked by this very dialog, not by one for another
\* resource that has its id, as long as none was closed before its answer came.
OwnAnswers == ~hasty => \A c \in shown : c.number = dialog.number
=================================================================================
