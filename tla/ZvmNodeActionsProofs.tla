-------------------------- MODULE ZvmNodeActionsProofs --------------------------
(* What ZvmNodeActions keeps whatever the bounds on requests and processes: while  *)
(* no tab of the node is opened over a process the cookie never counts too few,    *)
(* so the loader is not hidden under one; and as long as everything is counted off *)
(* it never counts too many, so the loader does not outlive the last one.          *)
EXTENDS ZvmNodeActions, TLAPS

Counts ==
    /\ procs \in Int /\ others \in Nat
    /\ calls \in [Kinds -> Nat]

\* While every end was counted off, the cookie does not exceed the processes.
NotTooMany == ~lost /\ ~nicFailed /\ ~shared => procs <= Open /\ others = 0

IInv == Counts /\ CookieCounts /\ LoaderWhileBusy /\ NotTooMany /\ LoaderHidden

\* One request more or less is one more or less in the sum.
LEMMA OpenMore ==
    ASSUME calls \in [Kinds -> Nat], NEW k \in Kinds, calls' = [calls EXCEPT ![k] = @ + 1]
    PROVE  calls' \in [Kinds -> Nat] /\ Open \in Nat /\ Open' = Open + 1
  BY DEF Kinds, Open

LEMMA OpenLess ==
    ASSUME calls \in [Kinds -> Nat], NEW k \in Kinds, calls[k] > 0,
           calls' = [calls EXCEPT ![k] = @ - 1]
    PROVE  calls' \in [Kinds -> Nat] /\ Open \in Nat \ {0} /\ Open' = Open - 1
  BY DEF Kinds, Open

\* A request that is followed by another is as many.
LEMMA OpenSame ==
    ASSUME calls \in [Kinds -> Nat], NEW k \in Kinds \ {"chvm"}, calls[k] > 0,
           calls' = [calls EXCEPT ![k] = @ - 1, !["chvm"] = @ + 1]
    PROVE  calls' \in [Kinds -> Nat] /\ Open \in Nat \ {0} /\ Open' = Open
  BY DEF Kinds, Open

\* Whatever the user does is one request, or changes nothing that counts.
LEMMA UserAsks ==
    ASSUME User
    PROVE  (\E k \in Kinds : Ask(k)) \/
           UNCHANGED <<procs, loader, calls, others, reopened, nicFailed, lost, shared>>
  BY DEF User, AddProcessor, AddDisk, AddZfcp, DedicateDevice, AddNic, removeProcessor, removeDisk,
         removeZfcp, removeNic, EditUserEntry, SaveUserEntry, CancelUserEntry, Chvm, Kinds, vars

LEMMA InitInv == Init => IInv
  BY DEF Init, IInv, Counts, CookieCounts, LoaderWhileBusy, NotTooMany, LoaderHidden, Open, Kinds

LEMMA StepInv == IInv /\ [Next]_vars => IInv'
<1> SUFFICES ASSUME IInv, [Next]_vars PROVE IInv'
  OBVIOUS
<1> USE DEF IInv, Counts, CookieCounts, LoaderWhileBusy, NotTooMany, LoaderHidden
<1>0. CASE UNCHANGED <<procs, loader, calls, others, reopened, nicFailed, lost, shared>>
  BY <1>0 DEF Open
<1>1. ASSUME NEW k \in Kinds, Ask(k) PROVE IInv'
  <2>1. calls' \in [Kinds -> Nat] /\ Open \in Nat /\ Open' = Open + 1
    BY <1>1, OpenMore DEF Ask
  <2>. QED  BY <1>1, <2>1 DEF Ask, incrementNodeProcess
<1>2. CASE updateZNodeStatus
  <2>1. calls' \in [Kinds -> Nat] /\ Open \in Nat \ {0} /\ Open' = Open - 1
    BY <1>2, OpenLess DEF updateZNodeStatus, Kinds
  <2>. QED  BY <1>2, <2>1 DEF updateZNodeStatus
<1>3. ASSUME NEW k \in Kinds \ {"chvm"}, NEW rsp \in Answers, Connect(k, rsp) PROVE IInv'
  <2>1. CASE rsp = "text"
    <3>1. calls' \in [Kinds -> Nat] /\ Open \in Nat \ {0} /\ Open' = Open
      BY <1>3, <2>1, OpenSame DEF Connect
    <3>. QED  BY <1>3, <2>1, <3>1 DEF Connect
  <2>2. CASE rsp # "text"
    <3>1. calls' \in [Kinds -> Nat] /\ Open \in Nat \ {0} /\ Open' = Open - 1
      BY <1>3, <2>2, OpenLess DEF Connect
    <3>. QED  BY <1>3, <2>2, <3>1 DEF Connect
  <2>. QED  BY <2>1, <2>2
<1>4. ASSUME NEW k \in Kinds, Lose(k) PROVE IInv'
  <2>1. calls' \in [Kinds -> Nat] /\ Open \in Nat \ {0} /\ Open' = Open - 1
    BY <1>4, OpenLess DEF Lose
  <2>. QED  BY <1>4, <2>1 DEF Lose
<1>5. CASE OtherWindow
  <2>1. Open' = Open /\ Open \in Nat
    BY <1>5 DEF OtherWindow, Open, Kinds
  <2>. QED  BY <1>5, <2>1 DEF OtherWindow
<1>6. CASE Reload
  <2>1. Open \in Nat /\ Open' = 0 /\ calls' \in [Kinds -> Nat]
    BY <1>6 DEF Reload, Open, Kinds
  <2>2. ~reopened' => others = 0
    <3>1. ~reopened' => ~(others > 0)
      BY <1>6, Zenon DEF Reload
    <3>. QED  BY <3>1
  <2>3. ~lost' /\ ~nicFailed' /\ ~shared' => ~lost /\ ~nicFailed /\ ~shared
    BY <1>6 DEF Reload
  <2>4. procs' = 0 /\ others' = others /\ ~loader'
    BY <1>6 DEF Reload
  <2>. QED  BY <2>1, <2>2, <2>3, <2>4
<1>7. CASE OpenTab
  <2>1. Open' = Open /\ Open \in Nat
    BY <1>7 DEF OpenTab, Open, Kinds
  <2>2. ~reopened' => ~reopened /\ Open + others = 0
    <3>1. ~reopened' => ~reopened /\ ~(Open + others > 0)
      BY <1>7, Zenon DEF OpenTab
    <3>. QED  BY <2>1, <3>1
  <2>3. procs' = 0 /\ UNCHANGED <<calls, others, loader, nicFailed, lost, shared>>
    BY <1>7 DEF OpenTab
  <2>. QED  BY <2>1, <2>2, <2>3
<1>8. CASE CloseTab
  <2>1. Open' = Open /\ Open \in Nat
    BY <1>8 DEF CloseTab, Open, Kinds
  <2>2. ~reopened' => ~reopened /\ Open = 0
    <3>1. ~reopened' => ~reopened /\ ~(Open > 0)
      BY <1>8, Zenon DEF CloseTab
    <3>. QED  BY <2>1, <3>1
  <2>3. ~loader' /\ UNCHANGED <<procs, calls, others, nicFailed, lost, shared>>
    BY <1>8 DEF CloseTab
  <2>. QED  BY <2>1, <2>2, <2>3
<1>. QED
  BY <1>0, <1>1, <1>2, <1>3, <1>4, <1>5, <1>6, <1>7, <1>8, UserAsks
     DEF Next, Tabs, Answer, connect2GuestLan, connect2VSwitch, Kinds, vars

LEMMA Invariance == Spec => []IInv
<1>. QED  BY InitInv, StepInv, PTL DEF Spec

\* The cookie counts every process of the node's windows (incrementNodeProcess and
\* updateZNodeStatus), however many there are, until loadInventory clears it over one.
THEOREM NodeActionsCookie == Spec => []CookieCounts
<1>1. IInv => CookieCounts
  BY DEF IInv
<1>. QED  BY Invariance, <1>1, PTL

\* updateZNodeStatus does not hide the loader while a process of the window runs,
\* unless loadInventory cleared the cookie over a process.
THEOREM NodeActionsBusy == Spec => []LoaderWhileBusy
<1>1. IInv => LoaderWhileBusy
  BY DEF IInv
<1>. QED  BY Invariance, <1>1, PTL

\* It hides it with the last one, if all were counted off.
THEOREM NodeActionsIdle == Spec => []LoaderHidden
<1>1. IInv => LoaderHidden
  BY DEF IInv
<1>. QED  BY Invariance, <1>1, PTL

---------------------------------------------------------------------------------
(* The types: with the counts above, two bounds and the flags. *)

Bounded ==
    /\ procs <= MaxProcs /\ Open <= MaxCalls /\ others <= MaxProcs
    /\ procs >= Open + others - (MaxCalls + MaxProcs)
Flags ==
    /\ loader \in BOOLEAN /\ editing \in BOOLEAN /\ nicFailed \in BOOLEAN
    /\ lost \in BOOLEAN /\ shared \in BOOLEAN /\ reopened \in BOOLEAN

LEMMA InitTypes == ASSUME {MaxCalls, MaxProcs} \subseteq Nat PROVE Init => Bounded /\ Flags
<1>1. Init => Flags
  BY Zenon DEF Init, Flags
<1>. QED  BY <1>1 DEF Init, Bounded, Open, Kinds

LEMMA TypesHold ==
    ASSUME {MaxCalls, MaxProcs} \subseteq Nat PROVE IInv /\ Bounded /\ Flags => TypeOK
<1> SUFFICES ASSUME IInv, Bounded, Flags PROVE TypeOK
  OBVIOUS
<1>1. Counts
  BY DEF IInv
<1>2. Open \in Nat /\ \A k \in Kinds : calls[k] \in Nat /\ calls[k] <= Open
  BY <1>1 DEF Counts, Open, Kinds
<1>3. calls \in [Kinds -> 0..MaxCalls]
  BY <1>1, <1>2 DEF Bounded, Counts
<1>4. procs \in -(MaxCalls + MaxProcs)..MaxProcs /\ others \in 0..MaxProcs
  BY <1>1, <1>2 DEF Bounded, Counts
<1>. QED  BY <1>3, <1>4 DEF TypeOK, Bounded, Flags

LEMMA StepTypes ==
    ASSUME {MaxCalls, MaxProcs} \subseteq Nat
    PROVE  IInv /\ Bounded /\ Flags /\ [Next]_vars => Bounded' /\ Flags'
<1> SUFFICES ASSUME IInv, Bounded, Flags, [Next]_vars PROVE Bounded' /\ Flags'
  OBVIOUS
<1>. calls \in [Kinds -> Nat] /\ procs \in Int /\ others \in Nat /\ Open \in Nat
  BY DEF IInv, Counts, Open, Kinds
<1>. USE DEF Bounded, Flags
<1>0. CASE UNCHANGED vars
  BY <1>0 DEF vars, Open
<1>1. ASSUME NEW k \in Kinds, Ask(k), editing' \in BOOLEAN PROVE Bounded' /\ Flags'
  <2>1. Open \in Nat /\ Open' = Open + 1
    BY <1>1, OpenMore DEF Ask
  <2>. QED  BY <1>1, <2>1 DEF Ask, incrementNodeProcess
<1>2. CASE User
  <2>1. editing' \in BOOLEAN
    BY <1>2 DEF User, AddProcessor, AddDisk, AddZfcp, DedicateDevice, AddNic, removeProcessor,
                removeDisk, removeZfcp, removeNic, EditUserEntry, SaveUserEntry, CancelUserEntry,
                Chvm, vars
  <2>2. CASE UNCHANGED <<procs, loader, calls, others, reopened, nicFailed, lost, shared>>
    BY <2>1, <2>2 DEF Open
  <2>. QED  BY <1>1, <1>2, <2>1, <2>2, UserAsks
<1>3. CASE updateZNodeStatus
  <2>1. Open \in Nat \ {0} /\ Open' = Open - 1
    BY <1>3, OpenLess DEF updateZNodeStatus, Kinds
  <2>2. loader' \in BOOLEAN
    BY <1>3 DEF updateZNodeStatus
  <2>3. Flags'
    BY <1>3, <2>2, Zenon DEF updateZNodeStatus
  <2>4. procs' = procs - 1 /\ others' = others
    BY <1>3 DEF updateZNodeStatus
  <2>. QED  BY <2>1, <2>3, <2>4
<1>4. ASSUME NEW k \in Kinds \ {"chvm"}, NEW rsp \in Answers, Connect(k, rsp)
      PROVE  Bounded' /\ Flags'
  <2>1. Open \in Nat \ {0} /\ (Open' = Open \/ Open' = Open - 1)
    BY <1>4, OpenSame, OpenLess DEF Connect
  <2>2. procs' = procs /\ others' = others /\ Flags'
    BY <1>4, Zenon DEF Connect
  <2>. QED  BY <2>1, <2>2
<1>5. ASSUME NEW k \in Kinds, Lose(k) PROVE Bounded' /\ Flags'
  <2>1. Open \in Nat \ {0} /\ Open' = Open - 1
    BY <1>5, OpenLess DEF Lose
  <2>. QED  BY <1>5, <2>1 DEF Lose
<1>6. CASE OtherWindow
  <2>1. Open' = Open
    BY <1>6 DEF OtherWindow, Open
  <2>. QED  BY <1>6, <2>1 DEF OtherWindow
<1>7. CASE Reload
  <2>1. Open' = 0
    BY <1>7 DEF Reload, Open, Kinds
  <2>2. reopened' \in BOOLEAN
    BY <1>7, Zenon DEF Reload
  <2>3. Flags'
    BY <1>7, <2>2, Zenon DEF Reload
  <2>. QED  BY <1>7, <2>1, <2>3 DEF Reload
<1>8. CASE OpenTab
  <2>1. Open' = Open
    BY <1>8 DEF OpenTab, Open
  <2>2. reopened' \in BOOLEAN
    BY <1>8, Zenon DEF OpenTab
  <2>3. Flags'
    BY <1>8, <2>2, Zenon DEF OpenTab
  <2>. QED  BY <1>8, <2>1, <2>3 DEF OpenTab
<1>9. CASE CloseTab
  <2>1. Open' = Open
    BY <1>9 DEF CloseTab, Open
  <2>2. reopened' \in BOOLEAN
    BY <1>9, Zenon DEF CloseTab
  <2>3. Flags'
    BY <1>9, <2>2, Zenon DEF CloseTab
  <2>. QED  BY <1>9, <2>1, <2>3 DEF CloseTab
<1>. QED
  BY <1>0, <1>2, <1>3, <1>4, <1>5, <1>6, <1>7, <1>8, <1>9
     DEF Next, Tabs, Answer, connect2GuestLan, connect2VSwitch, Kinds
=================================================================================
