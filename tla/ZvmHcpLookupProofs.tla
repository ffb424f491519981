--------------------------- MODULE ZvmHcpLookupProofs ---------------------------
(* What ZvmHcpLookup keeps for any number of control points and of lookups: as     *)
(* long as none failed or was overtaken, the hidden field has the name that was    *)
(* entered last, or the answer that will write it is still to come.                *)
EXTENDS ZvmHcpLookup, TLAPS

Lookup  == [hcp : HCPs, waiting : SUBSET Kinds]
Lookups == Seq(Lookup)

\* The two requests of a lookup that lead to the hidden field, one after the other.
Leads(c) == c.what \notin Kinds
Pending(l) == \E c \in calls : Leads(c) /\ c.l = l

Last == Len(lookups)

Entered == hcpNode # NoHcp => Last > 0 /\ lookups[Last].hcp = hcpNode

\* One of them at a time.
Single ==
    /\ \A c \in calls : c.l \in 1..Last
    /\ \A c, d \in calls : Leads(c) /\ Leads(d) /\ c.l = d.l => c = d

\* When the last lookup is through, so are the others, and the name is its own.
Settled ==
    ~upset /\ ~lost /\ Last > 0 =>
        \/ Pending(Last)
        \/ (\A c \in calls : ~Leads(c)) /\ hcp = lookups[Last].hcp

IInv == lookups \in Lookups /\ Entered /\ Single /\ Settled

LEMMA InitInv == Init => IInv
<1> SUFFICES ASSUME Init PROVE IInv
  OBVIOUS
<1>1. lookups = << >> /\ Len(lookups) = 0 /\ lookups \in Lookups
  BY DEF Init, Lookups
<1>. QED  BY <1>1 DEF Init, IInv, Entered, Single, Settled, Last

\* What a lookup waits for is written without touching its name.
LEMMA WaitingKept ==
    ASSUME lookups \in Lookups, NEW l \in DOMAIN lookups, NEW waiting \in SUBSET Kinds,
           checkProvisionCallsDone(l, waiting)
    PROVE  /\ lookups' \in Lookups /\ Last' = Last
           /\ \A k \in 1..Last : lookups'[k].hcp = lookups[k].hcp
<1>1. lookups' = [lookups EXCEPT ![l].waiting = waiting]
  BY DEF checkProvisionCallsDone
<1>2. lookups[l] \in Lookup /\ l \in 1..Len(lookups) /\ Len(lookups) \in Nat
  BY DEF Lookups
<1>3. /\ [lookups[l] EXCEPT !.waiting = waiting] \in Lookup
      /\ [lookups[l] EXCEPT !.waiting = waiting].hcp = lookups[l].hcp
  BY <1>2 DEF Lookup
<1>4. lookups' = [lookups EXCEPT ![l] = [lookups[l] EXCEPT !.waiting = waiting]]
  BY <1>1
<1>5. lookups' \in Lookups /\ Len(lookups') = Len(lookups)
  BY <1>2, <1>3, <1>4 DEF Lookups
<1>6. ASSUME NEW k \in 1..Len(lookups) PROVE lookups'[k].hcp = lookups[k].hcp
  <2>1. CASE k = l
    BY <1>2, <1>3, <1>4, <2>1 DEF Lookups
  <2>2. CASE k # l
    BY <1>2, <1>4, <2>2 DEF Lookups
  <2>. QED  BY <2>1, <2>2
<1>. QED  BY <1>5, <1>6 DEF Last

\* A step that leaves the names and the two requests of every lookup alone.
LEMMA KeepInv ==
    ASSUME IInv, UNCHANGED <<hcpNode, hcp>>, lookups' \in Lookups, Last' = Last,
           \A k \in 1..Last : lookups'[k].hcp = lookups[k].hcp,
           calls' \subseteq calls, \A c \in calls : Leads(c) => c \in calls',
           upset => upset', lost => lost'
    PROVE  IInv'
<1>1. Last \in Nat
  BY DEF IInv, Lookups, Last
<1>2. Entered' /\ Single'
  BY <1>1 DEF IInv, Entered, Single, Leads
<1>3. Pending(Last) => Pending(Last)'
  BY DEF Pending, Leads
<1>4. Settled'
  <2>1. ASSUME ~upset', ~lost', Last > 0, ~Pending(Last)
        PROVE  (\A c \in calls' : ~Leads(c)) /\ hcp' = lookups'[Last].hcp
    BY <1>1, <2>1 DEF IInv, Settled
  <2>. QED  BY <1>3, <2>1 DEF Settled, Leads
<1>. QED  BY <1>2, <1>4 DEF IInv

\* Entering a name starts a lookup, which is now the last.
LEMMA BlurInv ==
    ASSUME IInv, NEW h \in HCPs \cup {NoHcp}, Blur(h)
    PROVE  IInv'
<1>1. CASE h = NoHcp
  BY <1>1 DEF Blur, IInv, Entered, Single, Settled, Pending, Leads, Last
<1>2. CASE h # NoHcp
  <2> DEFINE l == Len(lookups) + 1
             n == [hcp |-> h, waiting |-> Kinds]
             c == Call(l, h, "networks")
  <2>1. /\ lookups' = Append(lookups, n) /\ calls' = calls \cup {c}
        /\ hcpNode' = h /\ UNCHANGED <<hcp, upset, lost>>
    BY <1>2 DEF Blur
  <2>2. n \in Lookup
    BY <1>2 DEF Lookup
  <2>3. /\ lookups' \in Lookups /\ Last' = l /\ l \in Nat /\ Last = l - 1 /\ lookups'[l] = n
        /\ \A k \in 1..Last : lookups'[k] = lookups[k]
    <3>1. lookups \in Seq(Lookup)
      BY DEF IInv, Lookups
    <3> HIDE DEF n
    <3>. QED  BY <2>1, <2>2, <3>1 DEF Lookups, Last
  <2>4. c.l = l /\ Leads(c)
    BY DEF Call, Leads, Kinds
  <2>5. Entered'
    BY <2>1, <2>3 DEF Entered
  <2>6. Single'
    <3>1. \A d \in calls : d.l \in 1..Last /\ d.l # l
      BY <2>3 DEF IInv, Single
    <3>. QED  BY <2>1, <2>3, <2>4, <3>1 DEF IInv, Single, Leads
  <2>7. Pending(Last)'
    BY <2>1, <2>3, <2>4 DEF Pending, Leads
  <2>. QED  BY <2>3, <2>5, <2>6, <2>7 DEF IInv, Settled
<1>. QED  BY <1>1, <1>2

\* The networks are followed by the definition.
LEMMA NetworksInv ==
    ASSUME IInv, NEW l \in 1..MaxLookups, NEW rsp \in Answers, NetworksAnswered(l, rsp)
    PROVE  IInv'
<1> DEFINE h    == lookups[l].hcp
           c    == Call(l, h, "networks")
           d    == Call(l, h, "definition")
           open == {k \in Kinds : <<h, k>> \notin cookies}
           new  == {Call(l, h, k) : k \in open \cup {"definition"}}
<1>1. l \in DOMAIN lookups /\ c \in calls /\ UNCHANGED <<hcpNode, hcp, lost>>
  BY DEF NetworksAnswered
<1>2. c.l = l /\ Leads(c) /\ d.l = l /\ Leads(d) /\ d \in new
  BY DEF Call, Leads, Kinds
<1>3. ASSUME NEW e \in new PROVE e.l = l /\ (Leads(e) => e = d)
  <2>1. PICK k \in open \cup {"definition"} : e = Call(l, h, k)
    OBVIOUS
  <2>2. e.l = l /\ e.what = k
    BY <2>1 DEF Call
  <2>3. k \in Kinds \/ k = "definition"
    OBVIOUS
  <2>. QED  BY <2>1, <2>2, <2>3 DEF Leads
<1>4. CASE ContainErrors(rsp)
  <2>1. upset' /\ calls' = calls \ {c} /\ lookups' = lookups
    BY <1>4 DEF NetworksAnswered
  <2>. QED  BY <1>1, <2>1 DEF IInv, Entered, Single, Settled, Last, Leads
<1>5. CASE ~ContainErrors(rsp)
  <2>1. /\ calls' = (calls \ {c}) \cup new
        /\ checkProvisionCallsDone(l, open)
        /\ upset' = upset
    BY <1>5 DEF NetworksAnswered
  <2>2. /\ lookups' \in Lookups /\ Last' = Last
        /\ \A k \in 1..Last : lookups'[k].hcp = lookups[k].hcp
    BY <1>1, <2>1, WaitingKept DEF IInv
  <2>3. Last \in Nat /\ l \in 1..Last
    BY <1>1 DEF IInv, Lookups, Last
  <2> HIDE DEF h, c, d, open, new
  <2>4. Entered'
    BY <1>1, <2>2, <2>3 DEF IInv, Entered
  <2>5. Single'
    <3>1. \A e \in calls' : e.l \in 1..Last
      BY <1>3, <2>1, <2>3 DEF IInv, Single
    <3>2. \A e \in calls \ {c} : Leads(e) => e.l # l
      BY <1>1, <1>2 DEF IInv, Single
    <3>3. \A e, f \in calls' : Leads(e) /\ Leads(f) /\ e.l = f.l => e = f
      BY <1>2, <1>3, <2>1, <3>2 DEF IInv, Single
    <3>. QED  BY <2>2, <3>1, <3>3 DEF Single, Leads
  <2>6. ASSUME ~upset', ~lost' PROVE Pending(Last)'
    <3>1. Pending(Last)
      BY <1>1, <1>2, <2>1, <2>3, <2>6 DEF IInv, Settled
    <3>2. PICK e \in calls : Leads(e) /\ e.l = Last
      BY <3>1 DEF Pending
    <3>3. CASE e = c
      BY <1>2, <2>1, <2>2, <3>2, <3>3 DEF Pending, Leads
    <3>4. CASE e # c
      BY <2>1, <2>2, <3>2, <3>4 DEF Pending, Leads
    <3>. QED  BY <3>3, <3>4
  <2>. QED  BY <2>2, <2>4, <2>5, <2>6 DEF IInv, Settled
<1>. QED  BY <1>4, <1>5

\* The definition writes the hidden field, and ends what a lookup does to it.
LEMMA DefinitionInv ==
    ASSUME IInv, NEW l \in 1..MaxLookups, NEW rsp \in Answers, DefinitionAnswered(l, rsp)
    PROVE  IInv'
<1> DEFINE h == lookups[l].hcp
           c == Call(l, h, "definition")
<1>1. /\ l \in DOMAIN lookups /\ c \in calls /\ calls' = calls \ {c}
      /\ UNCHANGED <<hcpNode, lookups, lost>>
  BY DEF DefinitionAnswered
<1>2. c.l = l /\ Leads(c)
  BY DEF Call, Leads, Kinds
<1>3. Last \in Nat /\ l \in 1..Last
  BY <1>1 DEF IInv, Lookups, Last
<1>4. Entered' /\ Single'
  BY <1>1 DEF IInv, Entered, Single, Last, Leads
<1>5. ASSUME ~upset', ~lost'
      PROVE  \/ Pending(Last)'
             \/ (\A e \in calls' : ~Leads(e)) /\ hcp' = h /\ l = Last
  <2>1. /\ ~upset /\ rsp = "text"
        /\ \A e \in calls : e.l < l => e.what \in Kinds
    <3>1. upset' = (upset \/ rsp # "text" \/ \E e \in calls : e.l < l /\ e.what \notin Kinds)
      BY DEF DefinitionAnswered
    <3>. QED  BY <1>5, <3>1, Zenon
  <2>2. Pending(Last)
    BY <1>1, <1>2, <1>3, <1>5, <2>1 DEF IInv, Settled
  <2>3. CASE l = Last
    <3>1. hcp' = h
      BY <2>1 DEF DefinitionAnswered, ContainErrors, HasText
    <3>2. \A e \in calls' : ~Leads(e)
      <4>1. \A e \in calls : e.l \in 1..Last
        BY DEF IInv, Single
      <4>2. \A e \in calls : Leads(e) => e.l = l
        BY <1>3, <2>1, <2>3, <4>1 DEF Leads
      <4>. QED  BY <1>1, <1>2, <4>2 DEF IInv, Single
    <3>. QED  BY <2>3, <3>1, <3>2
  <2>4. CASE l # Last
    <3>1. PICK e \in calls : Leads(e) /\ e.l = Last
      BY <2>2 DEF Pending
    <3>2. e \in calls'
      BY <1>1, <1>2, <2>4, <3>1
    <3>. QED  BY <1>1, <3>1, <3>2 DEF Pending, Leads, Last
  <2>. QED  BY <2>3, <2>4
<1>6. Settled'
  <2>1. Last' = Last /\ lookups'[l].hcp = h
    BY <1>1 DEF Last
  <2>. QED  BY <1>5, <2>1 DEF Settled, Leads
<1>. QED  BY <1>1, <1>4, <1>6 DEF IInv

LEMMA StepInv == IInv /\ [Next]_vars => IInv'
<1> SUFFICES ASSUME IInv, [Next]_vars PROVE IInv'
  OBVIOUS
<1>1. ASSUME NEW h \in HCPs \cup {NoHcp}, Blur(h) PROVE IInv'
  BY <1>1, BlurInv
<1>2. CASE ClickProvision
  BY <1>2 DEF ClickProvision, IInv, Entered, Single, Settled, Pending, Leads, Last
<1>3. ASSUME NEW c \in calls, Lose(c) PROVE IInv'
  <2>1. /\ lost' /\ calls' = calls \ {c} /\ UNCHANGED <<hcpNode, hcp, upset>>
    BY <1>3 DEF Lose
  <2>2. /\ lookups' \in Lookups /\ Last' = Last
        /\ \A k \in 1..Last : lookups'[k].hcp = lookups[k].hcp
    <3>1. CASE c.what \in Kinds
      <4>1. c.l \in DOMAIN lookups
        BY DEF IInv, Single, Last, Lookups
      <4>2. lookups[c.l] \in Lookup
        BY <4>1 DEF IInv, Lookups
      <4>3. lookups[c.l].waiting \ {c.what} \in SUBSET Kinds
        BY <4>2 DEF Lookup
      <4>. QED  BY <1>3, <3>1, <4>1, <4>3, WaitingKept DEF Lose, IInv
    <3>2. CASE c.what \notin Kinds
      BY <1>3, <3>2 DEF Lose, IInv, Last
    <3>. QED  BY <3>1, <3>2
  <2>3. Last \in Nat
    BY DEF IInv, Lookups, Last
  <2>. QED  BY <2>1, <2>2, <2>3 DEF IInv, Entered, Single, Settled, Leads
<1>4. ASSUME NEW l \in 1..MaxLookups, NEW rsp \in Answers,
             NetworksAnswered(l, rsp) \/ DefinitionAnswered(l, rsp)
      PROVE  IInv'
  BY <1>4, NetworksInv, DefinitionInv
<1>5. ASSUME NEW l \in 1..MaxLookups, NEW k \in Kinds, NEW rsp \in Answers,
             PoolsAnswered(l, k, rsp)
      PROVE  IInv'
  <2> DEFINE c == Call(l, lookups[l].hcp, k)
  <2>1. /\ l \in DOMAIN lookups /\ calls' = calls \ {c} /\ UNCHANGED <<hcpNode, hcp, upset, lost>>
        /\ checkProvisionCallsDone(l, lookups[l].waiting \ {k})
    BY <1>5 DEF PoolsAnswered
  <2>2. lookups[l] \in Lookup
    BY <2>1 DEF IInv, Lookups
  <2>3. lookups[l].waiting \ {k} \in SUBSET Kinds
    BY <2>2 DEF Lookup
  <2>4. ~Leads(c)
    BY DEF Call, Leads
  <2>5. /\ lookups' \in Lookups /\ Last' = Last
        /\ \A i \in 1..Last : lookups'[i].hcp = lookups[i].hcp
    BY <2>1, <2>3, WaitingKept DEF IInv
  <2> HIDE DEF c
  <2>. QED  BY <2>1, <2>4, <2>5, KeepInv
<1>6. CASE UNCHANGED vars
  BY <1>6 DEF vars, IInv, Entered, Single, Settled, Pending, Leads, Last
<1>. QED  BY <1>1, <1>2, <1>3, <1>4, <1>5, <1>6 DEF Next, Answer

LEMMA RegisterInv == IInv /\ [Next]_vars => RegisterStep
<1> SUFFICES ASSUME IInv, [Next]_vars, sent' # sent, calls = {}, ~upset, ~lost
             PROVE  sent' = hcpNode
  BY DEF RegisterStep
<1>1. ClickProvision
  BY DEF Next, Answer, Blur, NetworksAnswered, DefinitionAnswered, PoolsAnswered, Lose, vars
<1>2. sent' = hcp /\ Last > 0 /\ lookups[Last].hcp = hcpNode
  BY <1>1 DEF ClickProvision, IInv, Entered
<1>3. ~Pending(Last)
  BY DEF Pending
<1>. QED  BY <1>2, <1>3 DEF IInv, Settled

\* createZProvisionNew registers the node with the control point the user reads in
\* the field, for any number of lookups, if none failed or was overtaken.
THEOREM LookupHcp == Spec => HcpAsEntered
<1>. QED  BY InitInv, StepInv, RegisterInv, PTL DEF Spec, HcpAsEntered

---------------------------------------------------------------------------------
(* The types, where the lookups are the sequence above. *)

LEMMA InitTypes == ASSUME MaxLookups \in Nat PROVE Init => TypeOK
<1> SUFFICES ASSUME Init PROVE TypeOK
  OBVIOUS
<1>1. /\ loading \in BOOLEAN /\ upset \in BOOLEAN /\ blank \in BOOLEAN /\ lost \in BOOLEAN
  BY Zenon DEF Init
<1>2. Len(lookups) <= MaxLookups /\ DOMAIN lookups = {}
  BY DEF Init
<1>. QED  BY <1>1, <1>2 DEF Init, TypeOK

\* A lookup waits for less.
LEMMA WaitingTypes ==
    ASSUME TypeOK, lookups \in Lookups, NEW l \in DOMAIN lookups, NEW waiting \in SUBSET Kinds,
           checkProvisionCallsDone(l, waiting)
    PROVE  /\ Len(lookups') <= MaxLookups /\ loading' \in BOOLEAN
           /\ \A k \in DOMAIN lookups' : lookups'[k] \in Lookup
<1>1. lookups' \in Lookups /\ Last' = Last
  BY WaitingKept
<1>2. loading' \in BOOLEAN
  BY DEF checkProvisionCallsDone, removeProvisionLoadingGif, TypeOK
<1>. QED  BY <1>1, <1>2 DEF Lookups, Last, TypeOK

LEMMA StepTypes ==
    ASSUME MaxLookups \in Nat
    PROVE  IInv /\ TypeOK /\ [Next]_vars => TypeOK'
<1> SUFFICES ASSUME IInv, TypeOK, [Next]_vars PROVE TypeOK'
  OBVIOUS
<1>. lookups \in Lookups /\ Len(lookups) \in Nat
  BY DEF IInv, Lookups
<1>1. ASSUME NEW h \in HCPs \cup {NoHcp}, Blur(h) PROVE TypeOK'
  <2>1. blank' \in BOOLEAN
    BY <1>1, Zenon DEF Blur
  <2>2. CASE h = NoHcp
    BY <1>1, <2>1, <2>2 DEF Blur, TypeOK
  <2>3. CASE h # NoHcp
    <3>1. /\ lookups' = Append(lookups, [hcp |-> h, waiting |-> Kinds]) /\ h \in HCPs
          /\ calls' = calls \cup {Call(Len(lookups) + 1, h, "networks")}
          /\ Len(lookups) < MaxLookups
      BY <1>1, <2>3 DEF Blur
    <3>2. [hcp |-> h, waiting |-> Kinds] \in Lookup
      BY <3>1 DEF Lookup
    <3>3. lookups' \in Lookups /\ Len(lookups') = Len(lookups) + 1
      BY <3>1, <3>2 DEF Lookups
    <3>4. \A l \in DOMAIN lookups' : lookups'[l] \in Lookup
      BY <3>3 DEF Lookups
    <3>5. Call(Len(lookups) + 1, h, "networks") \in Calls
      BY <3>1 DEF Call, Calls
    <3>. QED  BY <1>1, <2>1, <3>1, <3>3, <3>4, <3>5 DEF Blur, TypeOK, Lookup
  <2>. QED  BY <2>2, <2>3
<1>2. CASE ClickProvision
  BY <1>2 DEF ClickProvision, TypeOK
<1>3. ASSUME NEW l \in 1..MaxLookups, NEW rsp \in Answers, NetworksAnswered(l, rsp) PROVE TypeOK'
  <2> DEFINE h    == lookups[l].hcp
             c    == Call(l, h, "networks")
             open == {k \in Kinds : <<h, k>> \notin cookies}
  <2>1. /\ l \in DOMAIN lookups
         /\ c \in calls
         /\ UNCHANGED <<hcpNode, hcp, cookies, sent, blank, lost>>
    BY <1>3 DEF NetworksAnswered
  <2>2. CASE ContainErrors(rsp)
    BY <1>3, <2>1, <2>2 DEF NetworksAnswered, removeProvisionLoadingGif, TypeOK
  <2>3. CASE ~ContainErrors(rsp)
    <3>1. /\ calls' = (calls \ {c}) \cup {Call(l, h, k) : k \in open \cup {"definition"}}
          /\ checkProvisionCallsDone(l, open) /\ UNCHANGED upset
      BY <1>3, <2>3 DEF NetworksAnswered
    <3>2. h \in HCPs
      BY <2>1 DEF TypeOK
    <3>3. calls' \subseteq Calls
      <4>1. \A k \in open \cup {"definition"} : Call(l, h, k) \in Calls
        BY <3>2 DEF Call, Calls
      <4>2. calls \subseteq Calls
        BY DEF TypeOK
      <4>. HIDE DEF h, open, c
      <4>. QED  BY <3>1, <4>1, <4>2
    <3>. QED  BY <2>1, <3>1, <3>3, WaitingTypes DEF TypeOK, Lookup
  <2>. QED  BY <2>2, <2>3
<1>4. ASSUME NEW l \in 1..MaxLookups, NEW rsp \in Answers, DefinitionAnswered(l, rsp)
      PROVE  TypeOK'
  <2>1. /\ l \in DOMAIN lookups /\ calls' \subseteq calls
        /\ UNCHANGED <<hcpNode, cookies, lookups, sent, blank, lost>>
        /\ hcp' = hcp \/ hcp' = lookups[l].hcp
    BY <1>4 DEF DefinitionAnswered
  <2>2. loading' \in BOOLEAN
    BY <1>4 DEF DefinitionAnswered, removeProvisionLoadingGif, TypeOK
  <2>3. upset' \in BOOLEAN
    BY <1>4, Zenon DEF DefinitionAnswered
  <2>. QED  BY <2>1, <2>2, <2>3 DEF TypeOK
<1>5. ASSUME NEW l \in 1..MaxLookups, NEW k \in Kinds, NEW rsp \in Answers,
             PoolsAnswered(l, k, rsp)
      PROVE  TypeOK'
  <2>1. /\ l \in DOMAIN lookups /\ calls' \subseteq calls
        /\ cookies' = cookies \cup SetCookies(lookups[l].hcp, k, rsp)
        /\ checkProvisionCallsDone(l, lookups[l].waiting \ {k})
        /\ UNCHANGED <<hcpNode, hcp, sent, upset, blank, lost>>
    BY <1>5 DEF PoolsAnswered
  <2>2. lookups[l].hcp \in HCPs /\ lookups[l].waiting \subseteq Kinds
    BY <2>1 DEF TypeOK
  <2>3. cookies' \subseteq HCPs \X Kinds
    BY <2>1, <2>2 DEF TypeOK, SetCookies, setDiskPoolCookies, setZfcpPoolCookies, CookieOf, Kinds
  <2>. QED  BY <2>1, <2>2, <2>3, WaitingTypes DEF TypeOK, Lookup
<1>6. ASSUME NEW c \in calls, Lose(c) PROVE TypeOK'
  <2>1. c.l \in DOMAIN lookups
    BY DEF IInv, Single, Last, Lookups
  <2>2. /\ calls' \subseteq calls /\ lost' = TRUE
        /\ UNCHANGED <<hcpNode, hcp, cookies, sent, upset, blank>>
    BY <1>6 DEF Lose
  <2>3. CASE c.what \in Kinds
    <3>1. lookups[c.l].waiting \ {c.what} \in SUBSET Kinds
      BY <2>1 DEF TypeOK
    <3>2. checkProvisionCallsDone(c.l, lookups[c.l].waiting \ {c.what})
      BY <1>6, <2>3 DEF Lose
    <3>. QED  BY <2>1, <2>2, <3>1, <3>2, WaitingTypes DEF TypeOK, Lookup
  <2>4. CASE c.what \notin Kinds
    BY <1>6, <2>2, <2>4 DEF Lose, TypeOK
  <2>. QED  BY <2>3, <2>4
<1>7. CASE UNCHANGED vars
  BY <1>7 DEF vars, TypeOK
<1>. QED  BY <1>1, <1>2, <1>3, <1>4, <1>5, <1>6, <1>7 DEF Next, Answer
=================================================================================
