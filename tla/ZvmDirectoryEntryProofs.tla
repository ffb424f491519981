------------------------- MODULE ZvmDirectoryEntryProofs -------------------------
(* What ZvmDirectoryEntry keeps for any set of user IDs: from a click on the       *)
(* advanced tab to mkvm, nothing that writes the textarea writes another user's    *)
(* entry. The handlers of ajaxStop cannot: nodeadd itself is in flight.            *)
EXTENDS ZvmDirectoryEntry, TLAPS

Sent == DOMAIN sent = {"user", "entry", "advanced"}

\* The request and its stage come and go together.
InFlight == "nodeadd" \in calls <=> stage = "nodeadd"

Confirming == stage = "confirm" /\ advanced => entry = user

Registered == stage = "nodeadd" /\ sent.advanced => sent.user = user /\ entry = user

IInv == Sent /\ InFlight /\ Confirming /\ Registered /\ AdvancedEntryForUser

LEMMA InitInv == Init => IInv
  BY DEF Init, IInv, Sent, InFlight, Confirming, Registered, AdvancedEntryForUser

\* On the advanced tab, or with a request in flight, the handlers write nothing.
LEMMA StopQuiet ==
    ASSUME NEW open, NEW text, advanced \/ open # {}
    PROVE  AjaxStop(open, text) = text
  BY DEF AjaxStop

\* Until the form is frozen the stages concerned are not reached.
LEMMA EditInv ==
    ASSUME IInv, stage = "edit", stage' = "edit", UNCHANGED sent,
           "nodeadd" \in calls' => "nodeadd" \in calls
    PROVE  IInv'
  BY DEF IInv, Sent, InFlight, Confirming, Registered, AdvancedEntryForUser

\* After that the inputs stay as they are, and what the text becomes is the same or
\* for the same user; the tab matters only to a confirmation.
LEMMA FrozenInv ==
    ASSUME IInv, UNCHANGED <<stage, user, sent>>,
           stage = "confirm" => UNCHANGED advanced,
           "nodeadd" \in calls' <=> "nodeadd" \in calls,
           \/ entry' = entry \/ entry' = user
           \/ stage = "confirm" /\ ~advanced
           \/ stage \notin {"confirm", "nodeadd"}
    PROVE  IInv'
  BY DEF IInv, Sent, InFlight, Confirming, Registered, AdvancedEntryForUser

\* A request other than nodeadd ends: the handlers run if it was the last.
LEMMA EndedInv ==
    ASSUME IInv, NEW c, c # "nodeadd", calls' = calls \ {c}, NEW text, text \in {entry, user},
           entry' = AjaxStop(calls \ {c}, text), UNCHANGED <<stage, user, advanced, sent>>
    PROVE  IInv'
<1>1. CASE stage = "nodeadd"
  <2>1. calls \ {c} # {}
    BY <1>1 DEF IInv, InFlight
  <2>2. entry' = text
    BY <2>1, StopQuiet
  <2>. QED  BY <2>2, FrozenInv
<1>2. CASE stage # "nodeadd" /\ advanced
  <2>1. entry' = text
    BY <1>2, StopQuiet
  <2>. QED  BY <2>1, FrozenInv
<1>3. CASE stage # "nodeadd" /\ ~advanced
  BY <1>3, FrozenInv
<1>. QED  BY <1>1, <1>2, <1>3

\* nodeadd is posted with the values of the inputs.
LEMMA RegisterInv ==
    ASSUME IInv, Register, stage' = "nodeadd", "nodeadd" \in calls',
           advanced => entry' = user, UNCHANGED user
    PROVE  IInv'
<1>1. sent'.user = user /\ sent'.advanced = advanced /\ DOMAIN sent' = DOMAIN sent
  BY DEF Register, IInv, Sent
<1>. QED
  BY <1>1 DEF IInv, Sent, InFlight, Confirming, Registered, AdvancedEntryForUser

LEMMA ClickInv ==
    ASSUME IInv, ClickProvision
    PROVE  IInv'
<1>1. stage = "edit" /\ UNCHANGED <<user, advanced>> /\ (advanced => entry' = user)
  BY DEF ClickProvision, Ready, form
<1>2. CASE os
  <2>1. stage' = "nodeadd" /\ Register /\ "nodeadd" \in calls'
    BY <1>2 DEF ClickProvision, updateUserEntry
  <2>. QED  BY <1>1, <2>1, RegisterInv
<1>3. CASE ~os
  <2>1. stage' = "confirm" /\ UNCHANGED sent /\ ("nodeadd" \in calls' <=> "nodeadd" \in calls)
    BY <1>3 DEF ClickProvision, updateUserEntry
  <2>. QED
    BY <1>1, <2>1 DEF IInv, Sent, InFlight, Confirming, Registered, AdvancedEntryForUser
<1>. QED  BY <1>2, <1>3

\* The answer of nodeadd posts mkvm with the text, before the handlers run.
LEMMA NodeaddInv ==
    ASSUME IInv, NEW rsp \in Answers, NodeaddAnswered(rsp)
    PROVE  IInv'
<1>1. stage = "nodeadd" /\ "nodeadd" \notin calls'
  BY DEF NodeaddAnswered, IInv, InFlight
<1>2. CASE HasText(rsp)
  BY <1>1, <1>2 DEF NodeaddAnswered, IInv, Sent, InFlight, Confirming, Registered,
                    AdvancedEntryForUser
<1>3. CASE ~HasText(rsp)
  <2>1. stage' = "mkvm" /\ sent' = [sent EXCEPT !.entry = entry]
    BY <1>3 DEF NodeaddAnswered
  <2>2. /\ sent'.entry = entry /\ sent'.user = sent.user /\ sent'.advanced = sent.advanced
        /\ DOMAIN sent' = DOMAIN sent
    BY <2>1 DEF IInv, Sent
  <2>. QED
    BY <1>1, <2>1, <2>2 DEF IInv, Sent, InFlight, Confirming, Registered, AdvancedEntryForUser
<1>. QED  BY <1>2, <1>3

LEMMA StepInv == IInv /\ [Next]_vars => IInv'
<1> SUFFICES ASSUME IInv, [Next]_vars PROVE IInv'
  OBVIOUS
<1>1. CASE \/ \E v \in BOOLEAN : ChangeInput(v)
           \/ \E u \in Users : TypeUserId(u)
           \/ \E u \in Users \cup {NoUser} : TypeEntry(u)
           \/ SelectOs \/ AskDefaultEntry
  BY <1>1, EditInv DEF ChangeInput, TypeUserId, TypeEntry, SelectOs, AskDefaultEntry, updateUserEntry
<1>2. CASE SelectTab
  BY <1>2, FrozenInv DEF SelectTab, form
<1>3. CASE DefaultEntryAnswered
  BY <1>3, EndedInv DEF DefaultEntryAnswered, form
<1>4. ASSUME NEW rsp \in Answers, NetworkDetailsAnswered(rsp) PROVE IInv'
  BY <1>4, EndedInv DEF NetworkDetailsAnswered, form
<1>5. CASE ClickProvision
  BY <1>5, ClickInv
<1>6. CASE Confirm
  BY <1>6, RegisterInv DEF Confirm, form, IInv, Confirming
<1>7. CASE Cancel
  BY <1>7 DEF Cancel, form, IInv, Sent, InFlight, Confirming, Registered, AdvancedEntryForUser
<1>8. ASSUME NEW rsp \in Answers, NodeaddAnswered(rsp) PROVE IInv'
  BY <1>8, NodeaddInv
<1>9. ASSUME NEW c \in Requests \ {"mkvm"}, Lose(c) PROVE IInv'
  <2>1. CASE c = "nodeadd"
    BY <1>9, <2>1 DEF Lose, IInv, Sent, InFlight, Confirming, Registered, AdvancedEntryForUser
  <2>2. CASE c # "nodeadd"
    <3>1. /\ calls' = calls \ {c} /\ entry' = AjaxStop(calls \ {c}, entry)
          /\ UNCHANGED <<stage, user, advanced, sent>>
      BY <1>9, <2>2 DEF Lose, form
    <3>. QED  BY <2>2, <3>1, EndedInv
  <2>. QED  BY <2>1, <2>2
<1>10. CASE UNCHANGED vars
  BY <1>10 DEF vars, form, IInv, Sent, InFlight, Confirming, Registered, AdvancedEntryForUser
<1>. QED
  BY <1>1, <1>2, <1>3, <1>4, <1>5, <1>6, <1>7, <1>8, <1>9, <1>10 DEF Next

\* createZProvisionNew and updateZProvisionNewStatus send an entry of the advanced
\* tab for the user ID they registered, whatever is answered in between.
THEOREM EntryAdvanced == Spec => []AdvancedEntryForUser
<1>1. IInv => AdvancedEntryForUser
  BY DEF IInv
<1>. QED  BY InitInv, StepInv, <1>1, PTL DEF Spec

---------------------------------------------------------------------------------
(* The types *)

LEMMA InitTypes == Init => TypeOK
<1>1. Init => sent \in [user : Users \cup {NoUser}, entry : Users \cup {NoUser},
                        advanced : BOOLEAN]
  BY DEF Init
<1>2. Init => os \in BOOLEAN /\ vswitch \in BOOLEAN /\ advanced \in BOOLEAN /\ hash \in BOOLEAN
  BY Zenon DEF Init
<1>. QED  BY <1>1, <1>2 DEF Init, TypeOK

LEMMA EntryTyped ==
    ASSUME TypeOK, NEW open, NEW text \in Users \cup {NoUser}
    PROVE  AjaxStop(open, text) \in Users \cup {NoUser}
  BY DEF TypeOK, AjaxStop

LEMMA StepTypes == TypeOK /\ [Next]_vars => TypeOK'
<1> SUFFICES ASSUME TypeOK, [Next]_vars PROVE TypeOK'
  OBVIOUS
<1>. USE DEF TypeOK, form
<1>1. ASSUME NEW v \in BOOLEAN, ChangeInput(v) PROVE TypeOK'
  BY <1>1 DEF ChangeInput, updateUserEntry, Requests
<1>2. CASE \/ \E u \in Users : TypeUserId(u)
           \/ \E u \in Users \cup {NoUser} : TypeEntry(u)
           \/ AskDefaultEntry \/ Cancel
  BY <1>2 DEF TypeUserId, TypeEntry, AskDefaultEntry, Cancel, Requests
<1>3. CASE SelectOs \/ SelectTab
  <2>1. os' \in BOOLEAN /\ advanced' \in BOOLEAN
    BY <1>3, Zenon DEF SelectOs, SelectTab
  <2>. QED  BY <1>3, <2>1 DEF SelectOs, SelectTab
<1>4. CASE DefaultEntryAnswered
  <2>1. entry' \in Users \cup {NoUser}
    BY <1>4, EntryTyped DEF DefaultEntryAnswered
  <2>. QED  BY <1>4, <2>1 DEF DefaultEntryAnswered
<1>5. ASSUME NEW rsp \in Answers, NetworkDetailsAnswered(rsp) PROVE TypeOK'
  <2>1. entry' \in Users \cup {NoUser}
    BY <1>5, EntryTyped DEF NetworkDetailsAnswered
  <2>2. hash' \in BOOLEAN
    BY <1>5, Zenon DEF NetworkDetailsAnswered
  <2>. QED  BY <1>5, <2>1, <2>2 DEF NetworkDetailsAnswered
<1>6. CASE ClickProvision
  <2>1. /\ calls' \subseteq Requests /\ entry' \in Users \cup {NoUser}
        /\ stop' \in Users \cup {NoUser}
    BY <1>6 DEF ClickProvision, updateUserEntry, Requests
  <2>. QED  BY <1>6, <2>1 DEF ClickProvision, Register
<1>7. CASE Confirm
  BY <1>7 DEF Confirm, Register, Requests
<1>8. ASSUME NEW rsp \in Answers, NodeaddAnswered(rsp) PROVE TypeOK'
  <2>1. entry' \in Users \cup {NoUser}
    BY <1>8, EntryTyped DEF NodeaddAnswered
  <2>2. calls' \subseteq Requests
    BY <1>8 DEF NodeaddAnswered, Requests
  <2>3. sent' \in [user : Users \cup {NoUser}, entry : Users \cup {NoUser}, advanced : BOOLEAN]
    BY <1>8 DEF NodeaddAnswered
  <2>. QED  BY <1>8, <2>1, <2>2, <2>3 DEF NodeaddAnswered
<1>9. ASSUME NEW c \in Requests \ {"mkvm"}, Lose(c) PROVE TypeOK'
  <2>1. entry' \in Users \cup {NoUser}
    BY <1>9, EntryTyped DEF Lose
  <2>. QED  BY <1>9, <2>1 DEF Lose
<1>10. CASE UNCHANGED vars
  BY <1>10 DEF vars
<1>. QED
  BY <1>1, <1>2, <1>3, <1>4, <1>5, <1>6, <1>7, <1>8, <1>9, <1>10 DEF Next
=================================================================================
