--------------------------- MODULE RespawnProofs ---------------------------
(***************************************************************************)
(* What Respawn keeps for every set of pids and every setting of the       *)
(* tunables, the zero and the inverted ones included: its pacing stays     *)
(* between its bounds, $pid_MON names the one monitor, only a service loop *)
(* that dies leaves a monitor behind, and the forks keep the pace.         *)
(***************************************************************************)
EXTENDS MCRespawn, WellFoundedInduction, TLAPS

LEMMA Bounds ==
    /\ min_interval \in Nat \ {0} /\ max_interval \in Nat \ {0}
    /\ min_interval <= max_interval
    /\ Healthy \in Nat
  BY ConstantsOK DEF ConstantsOK, min_interval, max_interval

(* The operators of xCAT::RespawnUtils stay within the policy. *)
LEMMA PolicyInRange == policy \in Paces
  BY Bounds DEF policy, Paces

LEMMA ForkedInRange ==
    ASSUME NEW s \in Paces PROVE forked(s) \in Paces
<1> DEFINE t == [s EXCEPT !.started = TRUE]
<1>1. forked(s) = [t EXCEPT !.age = 0]
  BY DEF forked
<1>2. t \in Paces
  BY DEF Paces
<1>3. 0 \in 0 .. Healthy
  BY Bounds
<1>. HIDE DEF t
<1>. QED  BY <1>1, <1>2, <1>3 DEF Paces

LEMMA ExitedInRange ==
    ASSUME NEW s \in Paces PROVE exited(s) \in Paces
<1>1. CASE Served(s)
  BY <1>1, PolicyInRange DEF exited
<1>2. CASE ~Served(s)
  <2> DEFINE d == IF 2 * s.delay > max_interval THEN max_interval ELSE 2 * s.delay
             t1 == [s EXCEPT !.started = FALSE]
             t2 == [t1 EXCEPT !.age = 0]
             t3 == [t2 EXCEPT !.streak = TRUE]
             t4 == [t3 EXCEPT !.wait = s.delay]
  <2>1. s.delay \in min_interval .. max_interval
    BY DEF Paces
  <2>2. d \in min_interval .. max_interval /\ s.delay \in 0 .. max_interval
        /\ 0 \in 0 .. Healthy
    BY <2>1, Bounds
  <2>3. exited(s) = [t4 EXCEPT !.delay = d]
    BY <1>2 DEF exited
  <2> HIDE DEF d
  <2>4. t1 \in Paces
    BY DEF Paces
  <2> HIDE DEF t1
  <2>5. t2 \in Paces
    BY <2>2, <2>4 DEF Paces
  <2> HIDE DEF t2
  <2>6. t3 \in Paces
    BY <2>5 DEF Paces
  <2> HIDE DEF t3
  <2>7. t4 \in Paces
    BY <2>2, <2>6 DEF Paces
  <2>. HIDE DEF t4
  <2>. QED  BY <2>2, <2>3, <2>7 DEF Paces
<1>. QED  BY <1>1, <1>2

LEMMA ReportedInRange ==
    ASSUME NEW s \in Paces PROVE reported(s) \in Paces
  BY DEF reported, Paces

LEMMA LaterInRange ==
    ASSUME NEW s \in Paces PROVE Later(s) \in Paces
<1> DEFINE w == IF s.wait = 0 THEN 0 ELSE s.wait - 1
           a == IF s.started /\ s.age < Healthy THEN s.age + 1 ELSE s.age
           t == [s EXCEPT !.wait = w]
<1>1. Later(s) = [t EXCEPT !.age = a]
  BY DEF Later
<1>2. s.wait \in 0 .. max_interval /\ s.age \in 0 .. Healthy
  BY DEF Paces
<1>3. w \in 0 .. max_interval /\ a \in 0 .. Healthy
  BY <1>2, Bounds
<1>. HIDE DEF w, a
<1>4. t \in Paces
  BY <1>3 DEF Paces
<1>. HIDE DEF t
<1>. QED  BY <1>1, <1>3, <1>4 DEF Paces

(* No fork storm, whatever the environment says of the minimum: a death    *)
(* that did not serve is waited out for the current delay, a second at     *)
(* least, and the next one for twice that or for max_interval.             *)
THEOREM Backoff ==
    ASSUME NEW s \in Paces, ~Served(s)
    PROVE  /\ exited(s).wait = s.delay /\ exited(s).wait >= 1
           /\ ~due(exited(s))
           /\ \/ exited(s).delay = 2 * s.delay
              \/ exited(s).delay = max_interval
<1>1. s.delay \in Nat /\ s.delay >= 1
  BY Bounds DEF Paces
<1>2. exited(s).wait = s.delay
  BY DEF exited, Paces
<1>3. exited(s).delay = IF 2 * s.delay > max_interval THEN max_interval ELSE 2 * s.delay
  BY DEF exited, Paces
<1>. QED  BY <1>1, <1>2, <1>3 DEF due
-----------------------------------------------------------------------------
(* The inductive invariant.  NoOrphan needs that the wait was left with    *)
(* $pid_MON clear or no child at all, MonitorTracked does the rest.        *)
Inv == TypeOK /\ MonitorTracked /\ NoOrphan

(* Steps that leave the monitor's processes and the mask alone. *)
LEMMA SameMonitor ==
    ASSUME MonitorTracked, UNCHANGED <<pid_MON, mon>>, ~Masked, ~Masked'
    PROVE  MonitorTracked'
  BY DEF MonitorTracked, Alive, Zombies

LEMMA InitInv == Init => Inv
<1> SUFFICES ASSUME Init PROVE Inv
  OBVIOUS
<1>1. TypeOK
  BY PolicyInRange DEF Init, TypeOK, Phases
<1>2. Alive = {} /\ Zombies = {}
  BY DEF Init, Alive, Zombies
<1>. QED
  BY <1>1, <1>2 DEF Init, Inv, MonitorTracked, NoOrphan, Masked, Ended

(* One monitor moves from one live state to another, or becomes a zombie.  *)
LEMMA MonitorMoves ==
    ASSUME TypeOK, MonitorTracked, NEW p \in Pids, p \in Alive \cup Zombies,
           UNCHANGED pid_MON, Masked' <=> Masked,
           NEW s \in {"new", "binding", "serving", "stopping", "zombie"},
           mon' = [mon EXCEPT ![p] = s]
    PROVE  MonitorTracked' /\ (Alive = {} => Alive' = {} \/ s # "zombie")
<1>1. (Alive \cup Zombies)' = Alive \cup Zombies
  <2>1. ASSUME NEW q \in Pids
        PROVE  q \in (Alive \cup Zombies)' <=> q \in Alive \cup Zombies
    BY DEF TypeOK, Alive, Zombies
  <2>. QED  BY <2>1 DEF Alive, Zombies
<1>2. Alive = {} => Alive' = {} \/ s # "zombie"
  BY DEF TypeOK, Alive
<1>. QED  BY <1>1, <1>2 DEF MonitorTracked

LEMMA NextInv == Inv /\ [Next]_vars => Inv'
<1> SUFFICES ASSUME Inv, [Next]_vars PROVE Inv'
  OBVIOUS
<1>0. TypeOK /\ MonitorTracked /\ NoOrphan
  BY DEF Inv
<1>1. ASSUME NEW p \in Pids, Fork(p) PROVE Inv'
  <2>1. TypeOK'
    BY <1>0, <1>1, ForkedInRange DEF Fork, TypeOK, Phases
  <2>2. Alive \cup Zombies = {}
    BY <1>0, <1>1 DEF Fork, MonitorTracked, Masked
  <2>3. (Alive \cup Zombies)' = {p}
    BY <1>0, <1>1, <2>2 DEF Fork, TypeOK, Alive, Zombies
  <2>4. MonitorTracked'
    BY <1>1, <2>3 DEF Fork, MonitorTracked, Masked
  <2>. QED  BY <1>1, <2>1, <2>4 DEF Fork, Inv, NoOrphan, Ended
<1>2. ASSUME ForkFails PROVE Inv'
  <2>1. TypeOK'
    BY <1>0, <1>2, ForkedInRange, ExitedInRange DEF ForkFails, TypeOK, Phases
  <2>2. ~Masked /\ ~Masked' /\ UNCHANGED <<pid_MON, mon>>
    BY <1>2 DEF ForkFails, Masked
  <2>3. Alive' = {}
    BY <1>0, <1>2, <2>2 DEF ForkFails, MonitorTracked, Alive, Zombies
  <2>. QED  BY <1>0, <2>1, <2>2, <2>3, SameMonitor DEF Inv, NoOrphan
<1>3. ASSUME Assign PROVE Inv'
  <2>1. PICK p \in Pids : Alive \cup Zombies = {p}
    BY <1>0, <1>3 DEF Assign, MonitorTracked
  <2>2. pid_MON' = p /\ (Alive \cup Zombies)' = {p}
    BY <1>3, <2>1 DEF Assign, Alive, Zombies
  <2>3. TypeOK'
    BY <1>0, <1>3, <2>2 DEF Assign, TypeOK, Phases
  <2>4. ~Masked' /\ ~Ended'
    BY <1>3 DEF Assign, Masked, Ended
  <2>5. p # NoPid
    BY ConstantsOK DEF ConstantsOK
  <2>. QED  BY <2>2, <2>3, <2>4, <2>5 DEF Inv, MonitorTracked, NoOrphan, Ended
<1>4. ASSUME Reap PROVE Inv'
  <2>1. TypeOK'
    <3>1. mon' \in [Pids -> {"none", "new", "binding", "serving", "stopping", "zombie"}]
      BY <1>0, <1>4 DEF Reap, TypeOK
    <3>2. pace' \in Paces /\ pid_MON' \in Pids \cup {NoPid}
      BY <1>0, <1>4, ExitedInRange DEF Reap, TypeOK
    <3>. QED  BY <1>0, <1>4, <3>1, <3>2 DEF Reap, TypeOK
  <2>2. Alive' = Alive /\ Zombies' = {}
    BY <1>0, <1>4 DEF Reap, TypeOK, Alive, Zombies
  <2>3. Alive \cap Zombies = {}
    BY DEF Alive, Zombies
  <2>4. ~Masked /\ ~Masked' /\ ~Ended'
    BY <1>4 DEF Reap, SigchldBlocked, Masked, Ended, HandlerSet
  <2>5. Alive' \cup Zombies' = {pid_MON'} \ {NoPid}
    <3>1. CASE pid_MON \in Zombies
      BY <1>0, <1>4, <2>2, <2>3, <2>4, <3>1 DEF Reap, MonitorTracked
    <3>2. CASE pid_MON \notin Zombies
      BY <1>0, <1>4, <2>2, <2>3, <2>4, <3>2 DEF Reap, MonitorTracked
    <3>. QED  BY <3>1, <3>2
  <2>. QED  BY <2>1, <2>4, <2>5 DEF Inv, MonitorTracked, NoOrphan, Ended
<1>5. ASSUME Start \/ Serve PROVE Inv'
  <2>1. UNCHANGED <<pid_MON, mon, quit, pending, told, held>>
    BY <1>5 DEF Start, Serve, Run, Check, StartMonitoring, EnterLoop, Leave, Attempt,
            NoAttempt, ChooseHop, BeginSelect, SelectExpires, SelectReady, Answer, ServiceDies
  <2>2. ~Masked /\ ~Masked' /\ phase' \in Phases
    BY <1>5 DEF Start, Serve, Run, Check, StartMonitoring, EnterLoop, Leave, Attempt,
            NoAttempt, ChooseHop, BeginSelect, SelectExpires, SelectReady, Answer, ServiceDies, Masked, Phases
  <2>3. pace' \in Paces
    BY <1>0, <1>5, ReportedInRange DEF TypeOK, Start, Serve, Run, Check, StartMonitoring,
            EnterLoop, Leave, Attempt, NoAttempt, ChooseHop, BeginSelect, SelectExpires,
            SelectReady, Answer, ServiceDies
  <2>4. timer' \in Nat
    BY <1>0, <1>5, ConstantsOK DEF ConstantsOK, TypeOK, Start, Serve, Run, Check,
            StartMonitoring, EnterLoop, Leave, Attempt, NoAttempt, ChooseHop, BeginSelect,
            SelectExpires, SelectReady, Answer, ServiceDies, Hop
  <2>5. TypeOK'
    BY <1>0, <2>1, <2>2, <2>3, <2>4 DEF TypeOK
  <2>6. Ended' => pid_MON = NoPid \/ phase' = "crashed"
    BY <1>5 DEF Start, Serve, Run, Check, StartMonitoring, EnterLoop, Leave, Attempt,
            NoAttempt, ChooseHop, BeginSelect, SelectExpires, SelectReady, Answer, ServiceDies, Ended
  <2>7. NoOrphan'
    BY <1>0, <2>1, <2>2, <2>6 DEF NoOrphan, Ended, MonitorTracked, Alive, Zombies
  <2>. QED  BY <1>0, <2>1, <2>2, <2>5, <2>7, SameMonitor DEF Inv
<1>6. ASSUME Quit PROVE Inv'
  <2>1. TypeOK'
    <3>1. mon' \in [Pids -> {"none", "new", "binding", "serving", "stopping", "zombie"}]
      BY <1>0, <1>6 DEF Quit, TypeOK
    <3>2. told' \in SUBSET Pids /\ phase' \in Phases
      BY <1>0, <1>6 DEF Quit, TypeOK, Signalled, Phases
    <3>. QED  BY <1>0, <1>6, <3>1, <3>2 DEF Quit, TypeOK
  <2>2. Alive' = Alive /\ Zombies' = Zombies
    BY <1>0, <1>6 DEF Quit, TypeOK, Alive, Zombies, Signalled
  <2>3. (Masked' <=> Masked) /\ ~Ended'
    BY <1>6 DEF Quit, Masked, Ended
  <2>4. MonitorTracked'
    BY <1>0, <1>6, <2>2, <2>3 DEF MonitorTracked, Quit
  <2>. QED  BY <2>1, <2>3, <2>4 DEF Inv, NoOrphan, Ended
<1>7. ASSUME NEW p \in Pids, QuitKills(p) PROVE Inv'
  <2>1. TypeOK'
    BY <1>0, <1>7 DEF QuitKills, TypeOK, Phases, HandlerSet
  <2>2. (Masked' <=> Masked) /\ ~Ended' /\ p \in Alive
    BY <1>7 DEF QuitKills, Masked, Ended, Alive
  <2>3. MonitorTracked'
    BY <1>0, <1>7, <2>2, MonitorMoves DEF QuitKills
  <2>. QED  BY <2>1, <2>2, <2>3 DEF Inv, NoOrphan, Ended
<1>8. ASSUME NEW p \in Pids, WaitChild(p) PROVE Inv'
  <2>1. TypeOK'
    BY <1>0, <1>8 DEF WaitChild, TypeOK
  <2>2. ~Masked /\ ~Masked' /\ ~Ended'
    BY <1>8 DEF WaitChild, Masked, Ended
  <2>3. p = pid_MON /\ Alive \cup Zombies = {p}
    BY <1>0, <1>8, <2>2 DEF WaitChild, MonitorTracked, Zombies
  <2>4. (Alive \cup Zombies)' = {}
    BY <1>0, <1>8, <2>3 DEF WaitChild, TypeOK, Alive, Zombies
  <2>. QED  BY <1>8, <2>1, <2>2, <2>3, <2>4 DEF WaitChild, Inv, MonitorTracked, NoOrphan
<1>9. ASSUME WaitEnds PROVE Inv'
  <2>1. TypeOK'
    BY <1>0, <1>9 DEF WaitEnds, TypeOK, Phases
  <2>2. ~Masked /\ ~Masked' /\ UNCHANGED <<pid_MON, mon>>
    BY <1>9 DEF WaitEnds, Masked
  <2>3. Alive' = {}
    BY <1>0, <1>9, <2>2 DEF WaitEnds, MonitorTracked, Alive, Zombies
  <2>. QED  BY <1>0, <2>1, <2>2, <2>3, SameMonitor DEF Inv, NoOrphan
<1>10. ASSUME NEW p \in Pids, NEW s \in {"binding", "serving", "stopping", "zombie"},
              p \in Alive, mon' = [mon EXCEPT ![p] = s],
              phase' = phase \/ (phase = "select" /\ phase' = "top"),
              pending' \in BOOLEAN, UNCHANGED <<quit, pid_MON, pace, timer, told, held>>
       PROVE  Inv'
  <2>1. TypeOK'
    BY <1>0, <1>10 DEF TypeOK, Phases
  <2>2. Masked' <=> Masked
    BY <1>10 DEF Masked
  <2>3. MonitorTracked'
    BY <1>0, <1>10, <2>2, MonitorMoves
  <2>4. NoOrphan'
    <3>1. (phase' = "gone" <=> phase = "gone") /\ (phase' = "crashed" <=> phase = "crashed")
          /\ (Ended' <=> Ended)
      BY <1>10 DEF Ended
    <3>2. Alive' \subseteq Alive
      BY <1>0, <1>10 DEF TypeOK, Alive
    <3>. QED  BY <1>0, <1>10, <3>1, <3>2 DEF NoOrphan
  <2>. QED  BY <2>1, <2>3, <2>4 DEF Inv
<1>11. ASSUME NEW p \in Pids,
              InstallHandlers(p) \/ Bind(p) \/ NoBind(p) \/ Stopped(p) \/ Killed(p)
       PROVE  Inv'
  <2>1. CASE InstallHandlers(p)
    BY <1>0, <1>10, <2>1 DEF InstallHandlers, main, Alive, TypeOK
  <2>2. CASE Bind(p)
    BY <1>0, <1>10, <2>2 DEF Bind, main, Alive, TypeOK
  <2>3. CASE NoBind(p) \/ Stopped(p) \/ Killed(p)
    BY <1>0, <1>10, <2>3 DEF NoBind, Stopped, Killed, Dies, Alive, TypeOK, HandlerSet
  <2>. QED  BY <1>11, <2>1, <2>2, <2>3
<1>12. ASSUME OtherChildExits \/ PortMoves \/ Tick \/ UNCHANGED vars PROVE Inv'
  <2>1. UNCHANGED <<quit, pid_MON, mon, told>> /\ (Masked' <=> Masked) /\ (Ended' <=> Ended)
    BY <1>12 DEF OtherChildExits, PortMoves, Tick, vars, main, Masked, Ended
  <2>2. phase' \in Phases /\ pending' \in BOOLEAN /\ held' \in BOOLEAN
    BY <1>0, <1>12 DEF OtherChildExits, PortMoves, Tick, vars, main, TypeOK, Phases, HandlerSet
  <2>3. pace' \in Paces
    BY <1>0, <1>12, LaterInRange DEF OtherChildExits, PortMoves, Tick, vars, main, TypeOK
  <2>4. timer' \in Nat
    BY <1>0, <1>12 DEF OtherChildExits, PortMoves, Tick, vars, main, TypeOK
  <2>5. TypeOK'
    BY <1>0, <2>1, <2>2, <2>3, <2>4 DEF TypeOK
  <2>6. (phase' = "gone" <=> phase = "gone") /\ (phase' = "crashed" <=> phase = "crashed")
          /\ (Ended' <=> Ended)
    BY <1>12 DEF OtherChildExits, PortMoves, Tick, vars, main, Ended
  <2>7. NoOrphan'
    BY <1>0, <2>1, <2>6 DEF NoOrphan, Alive
  <2>. QED  BY <1>0, <2>1, <2>5, <2>7 DEF Inv, MonitorTracked, Alive, Zombies
<1>13. ASSUME ListenFails PROVE Inv'
  <2>1. PICK heirs \in SUBSET {p \in {pid_MON} \cap Pids : mon[p] = "new"} :
            /\ told' = told \cup heirs
            /\ mon' = [p \in Pids |-> IF p = pid_MON /\ p \in Alive \ heirs
                                     THEN "zombie" ELSE mon[p]]
    BY <1>13 DEF ListenFails
  <2>2. mon' \in [Pids -> {"none", "new", "binding", "serving", "stopping", "zombie"}]
    BY <1>0, <2>1 DEF TypeOK
  <2>3. TypeOK'
    BY <1>0, <1>13, <2>1, <2>2 DEF ListenFails, TypeOK, Phases
  <2>4. ~Masked /\ ~Masked' /\ phase' = "died" /\ pid_MON' = pid_MON
    BY <1>13 DEF ListenFails, Masked
  <2>5. Alive \cup Zombies = {pid_MON} \ {NoPid}
    BY <1>0, <2>4 DEF MonitorTracked
  <2>6. ASSUME NEW q \in Pids
        PROVE  /\ q \in Alive' \cup Zombies' <=> q \in Alive \cup Zombies
               /\ q \in Alive' => q \in told'
    BY <1>0, <2>1, <2>5, <2>6 DEF TypeOK, Alive, Zombies
  <2>7. Alive' \cup Zombies' = Alive \cup Zombies /\ Alive' \subseteq told'
    BY <2>6 DEF Alive, Zombies
  <2>. QED  BY <2>3, <2>4, <2>5, <2>7 DEF Inv, MonitorTracked, NoOrphan
<1>. QED
  BY <1>1, <1>2, <1>3, <1>4, <1>5, <1>6, <1>7, <1>8, <1>9, <1>11, <1>12, <1>13
     DEF Next, Supervise, Stop, Monitor, Outside
-----------------------------------------------------------------------------
(* The pacing keeps within its intervals, and the processes to their states. *)
THEOREM TypeCorrect == Spec => []TypeOK
<1>. QED  BY InitInv, NextInv, PTL DEF Spec, Inv

(* $pid_MON names the one monitor there is, between any two statements     *)
(* outside supervise and whatever reaps, dies or is told to stop.          *)
THEOREM Tracked == Spec => []MonitorTracked
<1>. QED  BY InitInv, NextInv, PTL DEF Spec, Inv

(* The main process leaves no monitor on xcatiport when it ends, and when  *)
(* it dies at its start none that was not told to stop: only a service     *)
(* loop that dies of a failed fork leaves one running and untold.          *)
THEOREM Orphanless == Spec => []NoOrphan
<1>. QED  BY InitInv, NextInv, PTL DEF Spec, Inv
-----------------------------------------------------------------------------
(* Induction over the naturals, for a set instead of a predicate.          *)
Before == {ss \in Nat \X Nat : ss[1] < ss[2]}

LEMMA LeastNumber ==
    ASSUME NEW T, T \subseteq Nat, T # {}
    PROVE  \E x \in T : \A y \in T : x <= y
<1>1. IsWellFoundedOn(Before, Nat)
  BY NatLessThanWellFounded DEF Before, OpToRel
<1>2. \E x \in T : \A y \in T : <<y, x>> \notin Before
  BY <1>1, WFMin
<1>3. \A x, y \in T : <<y, x>> \notin Before => x <= y
  BY DEF Before
<1>. QED  BY <1>2, <1>3

LEMMA Induction ==
    ASSUME NEW S, 0 \in S, \A n \in Nat : n \in S => n + 1 \in S
    PROVE  Nat \subseteq S
<1> SUFFICES ASSUME Nat \ S # {} PROVE FALSE
  OBVIOUS
<1>1. PICK x \in Nat \ S : \A y \in Nat \ S : x <= y
  BY LeastNumber
<1>2. x # 0 /\ x - 1 \in Nat /\ x - 1 \in S
  BY <1>1
<1>. QED  BY <1>1, <1>2

(* What the recursion gives up to n, and that two such agree.              *)
Doublings(n) ==
    {h \in [0 .. n -> Nat \ {0}] : h[0] = 1 /\ \A i \in 1 .. n : h[i] = 2 * h[i - 1]}

LEMMA DoublingsExist == \A n \in Nat : Doublings(n) # {}
<1> DEFINE S == {n \in Nat : Doublings(n) # {}}
<1>1. 0 \in S
  <2>1. [i \in 0 .. 0 |-> 1] \in Doublings(0)
    BY DEF Doublings
  <2>. QED  BY <2>1
<1>2. ASSUME NEW n \in Nat, n \in S PROVE n + 1 \in S
  <2>1. PICK h : h \in Doublings(n)
    BY <1>2
  <2> DEFINE g == [i \in 0 .. n + 1 |-> IF i <= n THEN h[i] ELSE 2 * h[n]]
  <2>2. h \in [0 .. n -> Nat \ {0}] /\ h[0] = 1 /\ \A i \in 1 .. n : h[i] = 2 * h[i - 1]
    BY <2>1 DEF Doublings
  <2>3. g \in [0 .. n + 1 -> Nat \ {0}] /\ g[0] = 1
    BY <2>2
  <2>4. ASSUME NEW i \in 1 .. n + 1 PROVE g[i] = 2 * g[i - 1]
    BY <2>2
  <2>5. g \in Doublings(n + 1)
    BY <2>3, <2>4 DEF Doublings
  <2>. QED  BY <2>5
<1>. HIDE DEF S
<1>3. Nat \subseteq S
  BY <1>1, <1>2, Induction
<1>. QED  BY <1>3 DEF S

LEMMA DoublingsAgree ==
    ASSUME NEW n \in Nat, NEW m \in Nat, n <= m,
           NEW h \in Doublings(n), NEW g \in Doublings(m)
    PROVE  \A i \in 0 .. n : h[i] = g[i]
<1> DEFINE S == {i \in Nat : i <= n => h[i] = g[i]}
<1>1. 0 \in S
  BY DEF Doublings
<1>2. ASSUME NEW i \in Nat, i \in S PROVE i + 1 \in S
  <2> SUFFICES ASSUME i + 1 <= n PROVE h[i + 1] = g[i + 1]
    OBVIOUS
  <2>1. h[i] = g[i] /\ i + 1 \in 1 .. n /\ i + 1 \in 1 .. m /\ (i + 1) - 1 = i
    BY <1>2
  <2>. QED  BY <2>1 DEF Doublings
<1>. HIDE DEF S
<1>3. Nat \subseteq S
  BY <1>1, <1>2, Induction
<1>. QED  BY <1>3 DEF S

LEMMA TwiceIs ==
    /\ Twice \in [Nat -> Nat \ {0}] /\ Twice[0] = 1
    /\ \A n \in Nat : Twice[n + 1] = 2 * Twice[n]
<1> DEFINE G == [n \in Nat |-> (CHOOSE h \in Doublings(n) : TRUE)[n]]
<1>1. ASSUME NEW n \in Nat PROVE \E h \in Doublings(n) : G[n] = h[n]
  BY DoublingsExist
<1>. HIDE DEF G
<1>3. G[0] = 1
  BY <1>1 DEF Doublings
<1>4. ASSUME NEW n \in Nat \ {0} PROVE G[n] = 2 * G[n - 1]
  <2>1. PICK h \in Doublings(n) : G[n] = h[n]
    BY <1>1
  <2>2. n - 1 \in Nat /\ n - 1 <= n /\ n - 1 \in 0 .. n - 1
    OBVIOUS
  <2>3. PICK g \in Doublings(n - 1) : G[n - 1] = g[n - 1]
    BY <1>1, <2>2
  <2>4. g[n - 1] = h[n - 1]
    BY <2>2, DoublingsAgree
  <2>5. h[n] = 2 * h[n - 1]
    BY DEF Doublings
  <2>. QED  BY <2>1, <2>3, <2>4, <2>5
<1>5. G = [n \in Nat |-> IF n = 0 THEN 1 ELSE 2 * G[n - 1]]
  <2>1. \A n \in Nat : G[n] = IF n = 0 THEN 1 ELSE 2 * G[n - 1]
    BY <1>3, <1>4
  <2>2. G = [n \in Nat |-> G[n]]
    BY DEF G
  <2>. QED  BY <2>1, <2>2
<1>6. Twice = [n \in Nat |-> IF n = 0 THEN 1 ELSE 2 * Twice[n - 1]]
  BY <1>5 DEF Twice
<1>7. Twice \in [Nat -> Nat \ {0}]
  <2> DEFINE S == {n \in Nat : Twice[n] \in Nat \ {0}}
  <2>1. 0 \in S
    BY <1>6
  <2>2. ASSUME NEW n \in Nat, n \in S PROVE n + 1 \in S
    BY <1>6, <2>2
  <2>. HIDE DEF S
  <2>3. Nat \subseteq S
    BY <2>1, <2>2, Induction
  <2>. QED  BY <1>6, <2>3 DEF S
<1>. QED  BY <1>6, <1>7

-----------------------------------------------------------------------------
(* The delay after k failures in a row, and what is owed after them.       *)
DelayAfter(k) ==
    LET d == min_interval * Twice[k] IN IF d > max_interval THEN max_interval ELSE d

Owe(k) == IF k = 0 THEN 0 ELSE DelayAfter(k - 1)

Doubled(d) == IF 2 * d > max_interval THEN max_interval ELSE 2 * d

LEMMA DelayDoubles ==
    /\ DelayAfter(0) = min_interval
    /\ \A k \in Nat : /\ DelayAfter(k) \in min_interval .. max_interval
                      /\ DelayAfter(k + 1) = Doubled(DelayAfter(k))
    /\ DelayAfter(MaxFails - 1) = max_interval
<1>1. DelayAfter(0) = min_interval
  BY Bounds, TwiceIs DEF DelayAfter
<1>2. ASSUME NEW k \in Nat
      PROVE  /\ DelayAfter(k) \in min_interval .. max_interval
             /\ DelayAfter(k + 1) = Doubled(DelayAfter(k))
  <2>1. PICK m \in Nat \ {0} : m = min_interval
    BY Bounds
  <2>2. PICK t \in Nat \ {0} : t = Twice[k] /\ Twice[k + 1] = 2 * t
    BY TwiceIs
  <2>3. m * t \in Nat /\ m * t >= m
    BY <2>1, <2>2
  <2>4. m * (2 * t) = 2 * (m * t)
    BY <2>1, <2>2
  <2>5. DelayAfter(k) = IF m * t > max_interval THEN max_interval ELSE m * t
    BY <2>1, <2>2 DEF DelayAfter
  <2>6. DelayAfter(k + 1) = IF 2 * (m * t) > max_interval THEN max_interval ELSE 2 * (m * t)
    BY <2>1, <2>2, <2>4 DEF DelayAfter
  <2>7. PICK x \in Nat : x = m * t
    BY <2>3
  <2>. QED  BY <2>1, <2>3, <2>5, <2>6, <2>7, Bounds DEF Doubled
<1>3. DelayAfter(MaxFails - 1) = max_interval
  <2>1. PICK d \in Nat : d = min_interval * Twice[MaxFails - 1]
    BY Bounds, TwiceIs, MaxFailsOK
  <2>. QED  BY <2>1, Bounds, MaxFailsOK DEF DelayAfter
<1>. QED  BY <1>1, <1>2, <1>3

(* Counting one failure more, up to MaxFails. *)
LEMMA OneMoreFailure ==
    ASSUME NEW f \in 0 .. MaxFails
    PROVE  /\ UpTo(f, MaxFails) \in 0 .. MaxFails
           /\ DelayAfter(UpTo(f, MaxFails)) = Doubled(DelayAfter(f))
           /\ Owe(UpTo(f, MaxFails)) = DelayAfter(f)
<1>0. MaxFails \in Nat \ {0} /\ f \in Nat
  BY MaxFailsOK
<1>1. CASE f < MaxFails
  <2>1. UpTo(f, MaxFails) = f + 1 /\ (f + 1) - 1 = f
    BY <1>0, <1>1 DEF UpTo
  <2>. QED  BY <1>0, <1>1, <2>1, DelayDoubles DEF Owe
<1>2. CASE f = MaxFails
  <2>1. UpTo(f, MaxFails) = f /\ (f - 1) + 1 = f /\ f - 1 \in Nat
    BY <1>0, <1>2 DEF UpTo
  <2>2. DelayAfter(f - 1) = max_interval /\ DelayAfter(f) = Doubled(max_interval)
    BY <1>2, <2>1, DelayDoubles
  <2>3. Doubled(max_interval) = max_interval
    BY Bounds DEF Doubled
  <2>. QED  BY <1>0, <1>2, <2>1, <2>2, <2>3 DEF Owe
<1>. QED  BY <1>0, <1>1, <1>2
-----------------------------------------------------------------------------
(* The fields the operators of xCAT::RespawnUtils change. *)
LEMMA FieldTypes ==
    ASSUME NEW s \in Paces
    PROVE  /\ s.delay \in Nat /\ s.delay >= 1 /\ s.delay <= max_interval
           /\ s.wait \in 0 .. max_interval /\ s.age \in 0 .. Healthy
           /\ s.started \in BOOLEAN
  BY Bounds DEF Paces

LEMMA PolicyFields ==
    policy.delay = min_interval /\ policy.wait = 0 /\ policy.started = FALSE
  BY DEF policy

LEMMA ForkedFields ==
    ASSUME NEW s \in Paces
    PROVE  /\ forked(s).delay = s.delay /\ forked(s).wait = s.wait
           /\ forked(s).started = TRUE /\ forked(s).age = 0
  BY DEF forked, Paces

LEMMA YoungDeath ==
    ASSUME NEW s \in Paces, ~Served(s)
    PROVE  /\ exited(s).delay = Doubled(s.delay) /\ exited(s).wait = s.delay
           /\ exited(s).started = FALSE
  BY DEF exited, Paces, Doubled

LEMMA LaterFields ==
    ASSUME NEW s \in Paces
    PROVE  /\ Later(s).delay = s.delay /\ Later(s).started = s.started
           /\ Later(s).wait = IF s.wait = 0 THEN 0 ELSE s.wait - 1
           /\ Later(s).age = IF s.started /\ s.age < Healthy THEN s.age + 1 ELSE s.age
  BY DEF Later, Paces

LEMMA ReportedFields ==
    ASSUME NEW s \in Paces
    PROVE  /\ reported(s).delay = s.delay /\ reported(s).wait = s.wait
           /\ reported(s).started = s.started /\ reported(s).age = s.age
  BY DEF reported, Paces
-----------------------------------------------------------------------------
(* The inductive invariant of the pacing, as long as a fork may still come. *)
Leaving == phase \in {"wait", "gone", "died", "crashed"}
Starting == phase \in {"start", "startfork", "check", "setup", "deaf"}
Down    == pid_MON = NoPid /\ ~Masked

HistoryOK == /\ fails \in 0 .. MaxFails /\ gap \in 0 .. max_interval
             /\ idle \in 0 .. MaxIdle /\ lived \in 0 .. Healthy

(* The delay is that of the failures in a row; a monitor that served at    *)
(* once (healthy 0) keeps it at the minimum.                               *)
DelayTold == /\ pace.delay <= DelayAfter(fails)
             /\ Healthy # 0 => pace.delay = DelayAfter(fails)

(* The state knows how long the monitor lived.                             *)
AgeTold == /\ pace.started => pace.age = lived
           /\ Down \/ pace.started

(* What is left of the wait is what is owed and has not passed; an attempt *)
(* is made when nothing is left.                                           *)
WaitTold == /\ Down /\ pace.wait > 0 => idle + pace.wait <= Owe(fails)
            /\ Down /\ Healthy # 0 => gap + pace.wait >= Owe(fails)
            /\ phase \in {"start", "startfork"} => fails = 0
            /\ phase \in {"start", "attempt"} => Down /\ pace.wait = 0

(* Idle for the longer of the two bounds, the running select included.     *)
Within(n) == n <= LongHop \/ n <= Owe(fails) + ShortHop

IdleTold == /\ Starting => idle = 0
            /\ phase = "hop" => timer \in {ShortHop, LongHop}
            /\ InService /\ pid_MON = NoPid =>
                /\ Within(idle)
                /\ phase = "poll" => idle <= Owe(fails)
                /\ phase \in {"hop", "select"} => Within(idle + timer)

PaceInv == /\ HistoryOK
           /\ ~Leaving => DelayTold /\ AgeTold /\ WaitTold /\ IdleTold

LEMMA HopBounds ==
    /\ ShortHop \in Nat \ {0} /\ LongHop \in Nat \ {0}
    /\ MaxIdle \in Nat /\ MaxIdle >= 1
  BY Bounds, ConstantsOK DEF ConstantsOK, MaxIdle

LEMMA HistoryStep == HistoryOK /\ [MCNext]_<<vars, history>> => HistoryOK'
<1> SUFFICES ASSUME HistoryOK, [MCNext]_<<vars, history>> PROVE HistoryOK'
  OBVIOUS
<1>0. /\ MaxFails \in Nat \ {0} /\ max_interval \in Nat \ {0} /\ MaxIdle \in Nat /\ MaxIdle >= 1
      /\ Healthy \in Nat
  BY MaxFailsOK, Bounds, HopBounds
<1>1. ASSUME NEW m \in Nat, NEW n \in 0 .. m PROVE UpTo(n, m) \in 0 .. m /\ 0 \in 0 .. m
  BY DEF UpTo
<1>2. CASE UNCHANGED history
  BY <1>2 DEF history, HistoryOK
<1>3. CASE MCNext
  <2>1. fails' \in {0, fails, UpTo(fails, MaxFails)}
    BY <1>3 DEF MCNext
  <2>2. gap' \in {0, gap, UpTo(gap, max_interval)}
    BY <1>3 DEF MCNext
  <2>3. idle' \in {0, idle, UpTo(idle, MaxIdle)}
    BY <1>3 DEF MCNext
  <2>4. lived' \in {0, lived, UpTo(lived, Healthy)}
    BY <1>3 DEF MCNext
  <2>. QED  BY <1>0, <1>1, <2>1, <2>2, <2>3, <2>4 DEF HistoryOK
<1>. QED  BY <1>2, <1>3

(* A failure is counted: by the pacing and by the history alike.           *)
LEMMA FailureCounted ==
    ASSUME pace \in Paces, HistoryOK, DelayTold, NEW s \in Paces,
           s.delay = pace.delay, ~Served(s), pace' = exited(s),
           fails' = UpTo(fails, MaxFails), gap' = 0, idle' = 0
    PROVE  /\ DelayTold' /\ pace'.wait = pace.delay
           /\ idle' + pace'.wait <= Owe(fails')
           /\ Healthy # 0 => gap' + pace'.wait >= Owe(fails')
<1>1. PICK f \in 0 .. MaxFails : f = fails
  BY DEF HistoryOK
<1>2. DelayAfter(f) \in Nat /\ DelayAfter(f) <= max_interval
  BY <1>1, DelayDoubles, Bounds, MaxFailsOK
<1>3. DelayAfter(fails') = Doubled(DelayAfter(f)) /\ Owe(fails') = DelayAfter(f)
  BY <1>1, OneMoreFailure
<1>4. pace'.delay = Doubled(pace.delay) /\ pace'.wait = pace.delay
  BY YoungDeath
<1>5. PICK d \in Nat : d = pace.delay
  BY FieldTypes
<1>6. d <= DelayAfter(f) /\ (Healthy # 0 => d = DelayAfter(f))
  BY <1>1, <1>5 DEF DelayTold
<1>7. Doubled(d) <= Doubled(DelayAfter(f))
  BY <1>2, <1>5, <1>6, Bounds DEF Doubled
<1>8. DelayTold'
  BY <1>3, <1>4, <1>5, <1>6, <1>7 DEF DelayTold
<1>. QED  BY <1>2, <1>3, <1>4, <1>5, <1>6, <1>8

LEMMA PaceInit == MCInit => PaceInv
<1> SUFFICES ASSUME MCInit PROVE PaceInv
  OBVIOUS
<1>1. HistoryOK
  BY MaxFailsOK, Bounds, HopBounds DEF MCInit, HistoryOK
<1>2. DelayTold
  BY PolicyFields, DelayDoubles, Bounds DEF MCInit, Init, DelayTold
<1>3. AgeTold /\ WaitTold /\ IdleTold
  BY PolicyFields DEF MCInit, Init, AgeTold, WaitTold, IdleTold, Down, Masked, Owe, InService
<1>. QED  BY <1>1, <1>2, <1>3 DEF PaceInv

(* A second passes. *)
LEMMA TickKeepsPace ==
    ASSUME TypeOK, PaceInv, MCNext, Tick, ~Leaving
    PROVE  DelayTold' /\ AgeTold' /\ WaitTold' /\ IdleTold'
<1>0. /\ ~Leaving /\ DelayTold /\ AgeTold /\ WaitTold /\ IdleTold /\ HistoryOK
  BY DEF Tick, PaceInv, Leaving
<1>1. /\ UNCHANGED <<phase, quit, pid_MON>> /\ phase \in {"setup", "deaf", "select"}
      /\ phase = "select" => timer > 0
      /\ timer' = IF timer = 0 THEN 0 ELSE timer - 1
      /\ pace' = Later(pace) /\ pace \in Paces /\ timer \in Nat
  BY <1>0 DEF Tick, Leaving, TypeOK
<1>2. ~Failed /\ ~Noticed /\ ~Forked
  BY <1>1 DEF Failed, Noticed, Forked
<1>3. /\ fails' = fails
      /\ gap' = IF pid_MON = NoPid THEN UpTo(gap, max_interval) ELSE gap
      /\ idle' = IF pid_MON = NoPid /\ InService THEN UpTo(idle, MaxIdle) ELSE idle
      /\ lived' = UpTo(lived, Healthy)
  BY <1>2 DEF MCNext
<1>4. PICK f \in 0 .. MaxFails : f = fails
  BY <1>0 DEF HistoryOK
<1>5. PICK o \in 0 .. max_interval : o = Owe(f)
  BY <1>4, DelayDoubles, Bounds, MaxFailsOK DEF Owe
<1>6. PICK w \in 0 .. max_interval : w = pace.wait /\ pace'.wait = IF w = 0 THEN 0 ELSE w - 1
  BY <1>1, FieldTypes, LaterFields
<1>7. DelayTold'
  BY <1>0, <1>1, <1>3, LaterFields DEF DelayTold
<1>8. AgeTold'
  <2>1. pace'.started = pace.started /\ (Down' <=> Down)
    BY <1>1, LaterFields DEF Down, Masked
  <2>2. pace.started => pace'.age = lived'
    <3>1. lived \in Nat /\ Healthy \in Nat
      BY <1>0, Bounds DEF HistoryOK
    <3>. QED  BY <1>0, <1>1, <1>3, <3>1, LaterFields DEF AgeTold, UpTo
  <2>. QED  BY <1>0, <2>1, <2>2 DEF AgeTold
<1>9. PICK g \in 0 .. max_interval, i \in Nat : g = gap /\ i = idle /\ i <= MaxIdle
  BY <1>0, HopBounds DEF HistoryOK
<1>10. WaitTold'
  <2>1. pid_MON = NoPid => gap' \in Nat /\ (gap' = g + 1 \/ gap' = max_interval)
    BY <1>3, <1>9, Bounds DEF UpTo
  <2>2. idle' \in Nat /\ idle' <= i + 1
    BY <1>3, <1>9, HopBounds DEF UpTo
  <2>3. Down' <=> Down
    BY <1>1 DEF Down, Masked
  <2>4. Down /\ pace'.wait > 0 => idle' + pace'.wait <= Owe(fails')
    BY <1>0, <1>3, <1>4, <1>5, <1>6, <1>9, <2>2 DEF WaitTold
  <2>5. Down /\ Healthy # 0 => gap' + pace'.wait >= Owe(fails')
    BY <1>0, <1>3, <1>4, <1>5, <1>6, <1>9, <2>1, Bounds DEF WaitTold, Down
  <2>. QED  BY <1>1, <2>3, <2>4, <2>5 DEF WaitTold
<1>11. IdleTold'
  <2>1. CASE phase \in {"setup", "deaf"}
    BY <1>0, <1>1, <1>3, <2>1 DEF IdleTold, Starting, InService
  <2>2. CASE phase = "select" /\ InService /\ pid_MON = NoPid
    <3>1. idle' \in Nat /\ idle' <= i + 1 /\ timer' = timer - 1 /\ timer' \in Nat
      BY <1>1, <1>3, <1>9, <2>2, HopBounds DEF UpTo
    <3>2. Within(i + timer)
      BY <1>0, <1>9, <2>2 DEF IdleTold
    <3>3. i + timer <= LongHop \/ i + timer <= o + ShortHop
      BY <1>4, <1>5, <3>2 DEF Within
    <3>4. /\ idle' + timer' <= LongHop \/ idle' + timer' <= o + ShortHop
          /\ idle' <= LongHop \/ idle' <= o + ShortHop
      <4>1. PICK n \in Nat, t \in Nat, u \in Nat : n = idle' /\ t = timer' /\ u = timer
        BY <1>1, <3>1
      <4>2. n <= i + 1 /\ t = u - 1
        BY <3>1, <4>1
      <4>3. n + t <= i + u
        BY <4>2
      <4>4. PICK b \in Nat : (b = LongHop \/ b = o + ShortHop) /\ i + u <= b
        BY <3>3, <4>1, HopBounds, Bounds
      <4>5. n + t <= b /\ n <= b
        BY <4>3, <4>4
      <4>. QED  BY <4>1, <4>4, <4>5
    <3>5. Within(idle)' /\ Within(idle + timer)'
      BY <1>3, <1>4, <1>5, <3>4 DEF Within
    <3>. QED  BY <1>1, <2>2, <3>5 DEF IdleTold, Starting
  <2>3. CASE phase = "select" /\ ~(InService /\ pid_MON = NoPid)
    BY <1>1, <2>3 DEF IdleTold, Starting, InService
  <2>. QED  BY <1>1, <2>1, <2>2, <2>3
<1>. QED  BY <1>7, <1>8, <1>10, <1>11

(* A step that changes neither what the pacing says nor the history: the   *)
(* main process moves on, or something else happens.                       *)
SamePace == /\ UNCHANGED <<pid_MON, history>>
            /\ pace'.delay = pace.delay /\ pace'.wait = pace.wait
            /\ pace'.started = pace.started /\ pace'.age = pace.age

LEMMA QuietKeepsPace ==
    ASSUME HistoryOK, DelayTold, AgeTold, WaitTold, IdleTold, SamePace,
           Masked' <=> Masked, phase' \in {"start", "startfork"} => phase' = phase,
           phase' = "attempt" => phase = "attempt" \/ (Down /\ pace.wait = 0),
           Starting' => Starting,
           phase' = "hop" => (phase = "hop" /\ UNCHANGED timer) \/ timer' \in {ShortHop, LongHop},
           InService' => InService \/ Starting,
           pid_MON = NoPid /\ InService' =>
               /\ phase' = "poll" => phase = "poll" \/ (phase = "top" /\ pace.wait # 0)
               /\ phase' = "hop" =>
                    \/ phase = "hop" /\ UNCHANGED timer
                    \/ phase = "poll" /\ timer' = ShortHop
               /\ phase' = "select" => phase \in {"hop", "select"} /\ UNCHANGED timer,
           pace \in Paces
    PROVE  DelayTold' /\ AgeTold' /\ WaitTold' /\ IdleTold'
<1>0. /\ UNCHANGED <<fails, gap, idle, lived, pid_MON>>
      /\ pace'.delay = pace.delay /\ pace'.wait = pace.wait
      /\ pace'.started = pace.started /\ pace'.age = pace.age
      /\ Down' <=> Down
  BY DEF SamePace, history, Down
<1>1. DelayTold' /\ AgeTold'
  BY <1>0 DEF DelayTold, AgeTold
<1>2. WaitTold'
  BY <1>0 DEF WaitTold
<1>3. PICK f \in 0 .. MaxFails, i \in 0 .. MaxIdle : f = fails /\ i = idle
  BY DEF HistoryOK
<1>4. PICK o \in 0 .. max_interval : o = Owe(f)
  BY <1>3, DelayDoubles, Bounds, MaxFailsOK DEF Owe
<1>5. ASSUME InService', pid_MON = NoPid
      PROVE  /\ Within(idle)'
             /\ phase' = "poll" => idle' <= Owe(fails')
             /\ phase' \in {"hop", "select"} => Within(idle + timer)'
  <2>1. idle <= LongHop \/ idle <= o + ShortHop
    <3>1. CASE InService
      BY <1>3, <1>4, <1>5, <3>1 DEF IdleTold, Within
    <3>2. CASE Starting
      BY <1>3, <3>2, HopBounds DEF IdleTold
    <3>. QED  BY <1>5, <3>1, <3>2
  <2>2. phase' = "poll" => i <= o
    <3>1. CASE phase = "poll"
      BY <1>3, <1>4, <1>5, <3>1 DEF IdleTold, Starting
    <3>2. CASE phase = "top" /\ pace.wait # 0
      <4>1. PICK w \in 0 .. max_interval : w = pace.wait
        BY FieldTypes
      <4>2. Down
        BY <1>5, <3>2 DEF Down, Masked
      <4>. QED  BY <1>3, <1>4, <3>2, <4>1, <4>2 DEF WaitTold
    <3>. QED  BY <1>5, <3>1, <3>2
  <2>3. ASSUME phase' = "hop", phase = "poll", timer' = ShortHop
        PROVE  Within(idle + timer)'
    <3>1. i <= o
      BY <1>3, <1>4, <1>5, <2>3 DEF IdleTold, Starting
    <3>. QED  BY <1>0, <1>3, <1>4, <2>3, <3>1, HopBounds DEF Within
  <2>4. ASSUME phase' \in {"hop", "select"}, phase \in {"hop", "select"}, UNCHANGED timer
        PROVE  Within(idle + timer)'
    BY <1>0, <1>5, <2>4 DEF IdleTold, Within, Starting
  <2>. QED  BY <1>0, <1>3, <1>4, <1>5, <2>1, <2>2, <2>3, <2>4 DEF Within
<1>6. IdleTold'
  <2>1. phase' = "hop" => timer' \in {ShortHop, LongHop}
    BY DEF IdleTold
  <2>. QED  BY <1>0, <1>5, <2>1 DEF IdleTold
<1>. QED  BY <1>1, <1>2, <1>6

LEMMA HistoryKept ==
    ASSUME MCNext, ~Tick, ~Failed, ~Noticed, ~Forked
    PROVE  UNCHANGED history
  BY DEF MCNext, history

(* supervise forks: nothing is waited for, and the age starts with lived.  *)
LEMMA ForkKeepsPace ==
    ASSUME TypeOK, PaceInv, MCNext, ~Tick, NEW p \in Pids, Fork(p)
    PROVE  DelayTold' /\ AgeTold' /\ WaitTold' /\ IdleTold'
<1>1. /\ phase \in {"start", "attempt"} /\ pid_MON = NoPid /\ pid_MON' = NoPid
      /\ phase' = IF phase = "start" THEN "startfork" ELSE "refork"
      /\ pace' = forked(pace) /\ pace \in Paces /\ UNCHANGED <<quit, timer>>
  BY DEF Fork, TypeOK
<1>2. ~Leaving /\ DelayTold /\ AgeTold /\ WaitTold /\ IdleTold
  BY <1>1 DEF PaceInv, Leaving
<1>3. Forked /\ ~Failed /\ ~Noticed
  BY <1>1 DEF Forked, Failed, Noticed
<1>4. UNCHANGED <<fails, gap, idle>> /\ lived' = 0
  BY <1>3 DEF MCNext
<1>5. /\ pace'.delay = pace.delay /\ pace'.wait = pace.wait
      /\ pace'.started = TRUE /\ pace'.age = 0
  BY <1>1, ForkedFields
<1>6. ~Down' /\ (InService' => InService) /\ (Starting' => Starting)
  BY <1>1 DEF Down, Masked, InService, Starting
<1>. QED
  BY <1>1, <1>2, <1>4, <1>5, <1>6 DEF DelayTold, AgeTold, WaitTold, IdleTold, Within, InService

(* A fork that fails is a death at once: its age is 0.                     *)
LEMMA ForkFailsKeepsPace ==
    ASSUME TypeOK, PaceInv, MCNext, ForkFails, phase' # "died"
    PROVE  DelayTold' /\ AgeTold' /\ WaitTold' /\ IdleTold'
<1>1. /\ phase = "attempt" /\ pid_MON = NoPid /\ pid_MON' = NoPid /\ phase' = "poll"
      /\ pace' = exited(forked(pace)) /\ pace \in Paces
  BY DEF ForkFails, TypeOK
<1>2. DelayTold /\ HistoryOK
  BY <1>1 DEF PaceInv, Leaving
<1>3. fails' = UpTo(fails, MaxFails) /\ gap' = 0 /\ idle' = 0
  <2>1. Failed /\ ~Noticed
    BY <1>1 DEF Failed, Noticed
  <2>. QED  BY <2>1 DEF MCNext
<1>4. PICK f \in 0 .. MaxFails : f = fails
  BY <1>2 DEF HistoryOK
<1>5. /\ fails' \in 0 .. MaxFails /\ DelayAfter(fails') \in min_interval .. max_interval
      /\ Owe(fails') = DelayAfter(f) /\ DelayAfter(f) \in min_interval .. max_interval
  BY <1>3, <1>4, OneMoreFailure, DelayDoubles, MaxFailsOK
<1>6. /\ DelayTold' /\ pace'.started = FALSE
      /\ pace'.wait > 0 => idle' + pace'.wait <= Owe(fails')
      /\ Healthy # 0 => gap' + pace'.wait >= Owe(fails')
  <2>1. CASE Served(forked(pace))
    <3>1. Healthy = 0 /\ pace' = policy
      <4>1. forked(pace).age >= Healthy
        BY <2>1 DEF Served
      <4>2. forked(pace).age = 0
        BY <1>1, ForkedFields
      <4>. HIDE DEF forked
      <4>3. Healthy = 0
        BY <4>1, <4>2, Bounds
      <4>4. pace' = policy
        BY <1>1, <2>1 DEF exited
      <4>. QED  BY <4>3, <4>4
    <3>. QED  BY <1>5, <3>1, PolicyFields, Bounds DEF DelayTold
  <2>2. CASE ~Served(forked(pace))
    <3>1. forked(pace) \in Paces /\ forked(pace).delay = pace.delay
      BY <1>1, ForkedInRange, ForkedFields
    <3>2. /\ DelayTold' /\ idle' + pace'.wait <= Owe(fails')
          /\ Healthy # 0 => gap' + pace'.wait >= Owe(fails')
      BY <1>1, <1>2, <1>3, <2>2, <3>1, FailureCounted
    <3>3. pace'.started = FALSE
      BY <1>1, <2>2, <3>1, YoungDeath
    <3>. QED  BY <3>2, <3>3
  <2>. QED  BY <2>1, <2>2
<1>7. Down' /\ ~Starting'
  BY <1>1 DEF Down, Masked, Starting
<1>8. PICK o \in Nat : o = Owe(fails')
  BY <1>5, Bounds
<1>. QED
  BY <1>1, <1>3, <1>6, <1>7, <1>8, HopBounds DEF AgeTold, WaitTold, IdleTold, Within

(* The death of $pid_MON is noticed and folded into the state.             *)
LEMMA ReapKeepsPace ==
    ASSUME TypeOK, PaceInv, MCNext, ~Tick, Reap, pid_MON \in Zombies, ~Leaving
    PROVE  DelayTold' /\ AgeTold' /\ WaitTold' /\ IdleTold'
<1>1. /\ pid_MON # NoPid /\ pid_MON' = NoPid /\ pace' = exited(pace) /\ pace \in Paces
      /\ ~Masked /\ UNCHANGED <<phase, quit, timer>>
  BY ConstantsOK DEF ConstantsOK, Reap, TypeOK, Zombies, SigchldBlocked
<1>2. DelayTold /\ AgeTold /\ WaitTold /\ IdleTold /\ HistoryOK
  BY DEF PaceInv
<1>3. Noticed /\ ~Failed /\ ~Forked
  BY <1>1 DEF Noticed, Failed, Forked
<1>4. /\ fails' = IF lived >= Healthy THEN 0 ELSE UpTo(fails, MaxFails)
      /\ gap' = 0 /\ idle' = 0
  BY <1>3 DEF MCNext
<1>5. pace.started /\ pace.age = lived /\ lived \in Nat /\ Healthy \in Nat
  BY <1>1, <1>2, Bounds DEF AgeTold, Down, HistoryOK
<1>6. /\ DelayTold' /\ pace'.started = FALSE
      /\ pace'.wait > 0 => idle' + pace'.wait <= Owe(fails')
      /\ Healthy # 0 => gap' + pace'.wait >= Owe(fails')
  <2>1. CASE Served(pace)
    <3>1. lived >= Healthy /\ pace' = policy
      BY <1>1, <1>5, <2>1 DEF Served, exited
    <3>2. fails' = 0 /\ Owe(fails') = 0
      BY <1>4, <3>1 DEF Owe
    <3>. QED  BY <1>4, <3>1, <3>2, PolicyFields, DelayDoubles, Bounds DEF DelayTold
  <2>2. CASE ~Served(pace)
    <3>1. fails' = UpTo(fails, MaxFails)
      BY <1>4, <1>5, <2>2 DEF Served
    <3>. QED  BY <1>1, <1>2, <1>4, <2>2, <3>1, FailureCounted, YoungDeath
  <2>. QED  BY <2>1, <2>2
<1>7. phase \notin {"start", "startfork", "attempt"}
  BY <1>1, <1>2 DEF WaitTold, Down, Masked
<1>8. PICK o \in Nat : o = Owe(fails')
  <2>1. PICK f \in 0 .. MaxFails : f = fails'
    BY <1>2, <1>4, OneMoreFailure, MaxFailsOK DEF HistoryOK
  <2>. QED  BY <2>1, DelayDoubles, Bounds, MaxFailsOK DEF Owe
<1>9. AgeTold' /\ WaitTold'
  BY <1>1, <1>6, <1>7 DEF AgeTold, WaitTold, Down, Masked
<1>10. ASSUME phase \in {"hop", "select"} PROVE Within(idle + timer)'
  <2>1. timer' \in {ShortHop, LongHop}
    BY <1>1, <1>2, <1>10 DEF Reap, IdleTold
  <2>2. PICK t \in Nat : t = timer' /\ (t <= LongHop \/ t <= o + ShortHop)
    BY <2>1, HopBounds
  <2>3. idle' = 0
    BY <1>4
  <2>4. idle' + timer' = t
    <3>1. 0 + t = t
      OBVIOUS
    <3>2. t = timer'
      BY <2>2
    <3>. QED  BY <2>3, <3>1, <3>2, Zenon
  <2>. QED  BY <1>8, <2>2, <2>4 DEF Within
<1>11. Within(idle)' /\ idle' <= Owe(fails')
  BY <1>4, <1>8, HopBounds DEF Within
<1>12. (Starting' => idle' = 0) /\ (phase' = "hop" => timer' \in {ShortHop, LongHop})
  BY <1>1, <1>2, <1>4 DEF IdleTold
<1>13. IdleTold'
  BY <1>1, <1>10, <1>11, <1>12 DEF IdleTold
<1>. QED  BY <1>6, <1>9, <1>13

(* A fork comes when what is owed has passed.                              *)
LEMMA AttemptOwed ==
    ASSUME TypeOK, PaceInv, Healthy # 0, phase \in {"start", "attempt"}
    PROVE  gap >= Owed
<1>1. WaitTold /\ HistoryOK
  BY DEF PaceInv, Leaving
<1>2. gap \in Nat /\ gap + 0 >= Owe(fails)
  BY <1>1, Bounds DEF WaitTold, HistoryOK
<1>3. PICK f \in 0 .. MaxFails : f = fails
  BY <1>1 DEF HistoryOK
<1>4. PICK o \in Nat : o = Owe(fails)
  BY <1>3, DelayDoubles, Bounds, MaxFailsOK DEF Owe
<1>5. Owed = o
  BY <1>4 DEF Owed, Owe, DelayAfter
<1>. QED  BY <1>2, <1>4, <1>5

LEMMA PaceStep == TypeOK /\ PaceInv /\ [MCNext]_<<vars, history>> => PaceInv'
<1> SUFFICES ASSUME TypeOK, PaceInv, [MCNext]_<<vars, history>> PROVE PaceInv'
  OBVIOUS
<1>1. HistoryOK'
  BY HistoryStep DEF PaceInv
<1>2. CASE Leaving'
  BY <1>1, <1>2 DEF PaceInv
<1>3. CASE UNCHANGED <<vars, history>>
  BY <1>3 DEF PaceInv, HistoryOK, Leaving, DelayTold, AgeTold, WaitTold, IdleTold, Starting,
              Down, Masked, InService, Within, vars, main, history
<1> SUFFICES ASSUME ~Leaving', MCNext PROVE DelayTold' /\ AgeTold' /\ WaitTold' /\ IdleTold'
  BY <1>1, <1>2, <1>3 DEF PaceInv
<1>4. ~Leaving /\ Next
  <2>1. Next
    BY DEF MCNext
  <2> SUFFICES ASSUME Leaving, phase' \notin {phase, "gone", "died", "crashed"} PROVE FALSE
    BY <2>1 DEF Leaving
  <2>2. ~Start /\ ~Serve
    BY DEF Start, Check, StartMonitoring, EnterLoop, Serve, Run, Leave, Attempt, NoAttempt,
         ChooseHop, BeginSelect, SelectExpires, SelectReady, Answer, ServiceDies, Leaving
  <2>3. ~Supervise
    BY DEF Supervise, Fork, ForkFails, Assign, Reap, Leaving, Masked
  <2>4. ~Stop
    BY DEF Stop, Quit, QuitKills, WaitChild, WaitEnds, ListenFails, Leaving
  <2>5. ~Monitor /\ ~Outside
    BY DEF Monitor, InstallHandlers, Bind, NoBind, Stopped, Killed, Dies, Outside,
         OtherChildExits, PortMoves, Tick, main, Leaving
  <2>. QED  BY <2>1, <2>2, <2>3, <2>4, <2>5 DEF Next
<1>5. CASE Tick
  BY <1>4, <1>5, TickKeepsPace
<1>6. CASE ~Tick /\ \E p \in Pids : Fork(p)
  BY <1>6, ForkKeepsPace
<1>7. CASE ForkFails
  BY <1>7, ForkFailsKeepsPace DEF Leaving
<1>8. CASE ~Tick /\ Reap /\ pid_MON \in Zombies
  BY <1>4, <1>8, ReapKeepsPace
<1>9. HistoryOK /\ DelayTold /\ AgeTold /\ WaitTold /\ IdleTold /\ pace \in Paces
  BY <1>4 DEF PaceInv, TypeOK
<1>10. CASE ~Tick /\ Assign
  <2>1. pid_MON' \in Pids /\ pid_MON' # NoPid
    BY <1>10, ConstantsOK DEF ConstantsOK, Assign, Alive, Zombies
  <2>2. ~Failed /\ ~Noticed /\ ~Forked /\ Masked
    BY <1>10, <2>1 DEF Assign, Failed, Noticed, Forked, Masked
  <2>3. UNCHANGED history
    BY <1>10, <2>2, HistoryKept
  <2>4. pace.started
    BY <1>9, <2>2 DEF AgeTold, Down
  <2>. QED
    BY <1>9, <1>10, <2>1, <2>3, <2>4 DEF Assign, history, DelayTold, AgeTold, WaitTold, IdleTold,
         Starting, Down, Masked, InService
<1>11. ASSUME ~Tick, UNCHANGED <<pid_MON, pace, timer>>,
              phase' = phase \/ (phase = "select" /\ phase' = "top"), quit' = quit \/ quit'
       PROVE  DelayTold' /\ AgeTold' /\ WaitTold' /\ IdleTold'
  <2>1. ~Failed /\ ~Noticed /\ ~Forked
    BY <1>11 DEF Failed, Noticed, Forked
  <2>2. UNCHANGED history
    BY <1>11, <2>1, HistoryKept
  <2>3. SamePace
    BY <1>11, <2>2 DEF SamePace
  <2>. QED  BY <1>9, <1>11, <2>3, QuietKeepsPace DEF Masked, Starting, InService, Down
<1>12. CASE ~Tick /\ Reap /\ pid_MON \notin Zombies
  BY <1>11, <1>12 DEF Reap
<1>13. CASE ~Tick /\ (Start \/ Serve)
  <2>1. ~Failed /\ ~Noticed /\ ~Forked
    BY <1>13 DEF Start, Check, StartMonitoring, EnterLoop, Serve, Run, Leave, Attempt, NoAttempt,
         ChooseHop, BeginSelect, SelectExpires, SelectReady, Answer, ServiceDies, Failed, Noticed, Forked
  <2>2. UNCHANGED history
    BY <1>13, <2>1, HistoryKept
  <2>3. SamePace
    BY <1>9, <1>13, <2>2, ReportedFields
       DEF SamePace, Start, Check, StartMonitoring, EnterLoop, Serve, Run, Leave, Attempt,
         NoAttempt, ChooseHop, BeginSelect, SelectExpires, SelectReady, Answer, ServiceDies
  <2>4. /\ Masked' <=> Masked
        /\ phase' \notin {"start", "startfork"}
        /\ phase' = "attempt" => Down /\ pace.wait = 0
        /\ Starting' => Starting
        /\ phase' = "hop" => timer' \in {ShortHop, LongHop}
        /\ InService' => InService \/ Starting
    BY <1>13 DEF Start, Check, StartMonitoring, EnterLoop, Serve, Run, Leave, Attempt, NoAttempt,
         ChooseHop, BeginSelect, SelectExpires, SelectReady, Answer, ServiceDies, Masked, Down, due, Starting, Hop,
         InService
  <2>5. pid_MON = NoPid =>
          /\ phase' = "poll" => phase = "top" /\ pace.wait # 0
          /\ phase' = "hop" => phase = "poll" /\ timer' = ShortHop
          /\ phase' = "select" => phase = "hop" /\ UNCHANGED timer
    BY <1>13 DEF Start, Check, StartMonitoring, EnterLoop, Serve, Run, Leave, Attempt, NoAttempt,
         ChooseHop, BeginSelect, SelectExpires, SelectReady, Answer, ServiceDies, due, Hop
  <2>. QED  BY <1>9, <2>3, <2>4, <2>5, QuietKeepsPace
<1>14. CASE ~Tick /\ (\/ Quit \/ (\E p \in Pids : QuitKills(p))
                       \/ Monitor \/ OtherChildExits \/ PortMoves)
  BY <1>11, <1>14 DEF Quit, QuitKills, Monitor, InstallHandlers, Bind, NoBind, Stopped, Killed,
       Dies, OtherChildExits, PortMoves, main
<1>15. ~WaitEnds /\ ~ListenFails /\ \A p \in Pids : ~WaitChild(p)
  BY <1>4 DEF WaitEnds, ListenFails, WaitChild, Leaving
<1>. QED
  BY <1>4, <1>5, <1>6, <1>7, <1>8, <1>10, <1>12, <1>13, <1>14, <1>15
     DEF Next, Supervise, Stop, Outside

LEMMA PaceInvariant == MCSpec => [](Inv /\ PaceInv)
<1>1. MCInit => Inv /\ PaceInv
  BY InitInv, PaceInit DEF MCInit
<1>2. Inv /\ PaceInv /\ [MCNext]_<<vars, history>> => Inv' /\ PaceInv'
  <2>1. [MCNext]_<<vars, history>> => [Next]_vars
    BY DEF MCNext
  <2>. QED  BY <2>1, NextInv, PaceStep DEF Inv
<1>. QED  BY <1>1, <1>2, PTL DEF MCSpec

(* No fork storm, over any number of deaths, failing forks and restarts of *)
(* the streak: unless XCATD_MON_RESPAWN_HEALTHY is 0, a fork comes no      *)
(* earlier than the doubling of the minimum interval says.                 *)
THEOREM Pacing == Healthy # 0 => (MCSpec => Paced)
<1> SUFFICES ASSUME Healthy # 0 PROVE MCSpec => Paced
  OBVIOUS
<1>1. TypeOK /\ PaceInv /\ [MCNext]_<<vars, history>>
        => [Forked \/ Failed => gap >= Owed]_<<vars, history>>
  BY AttemptOwed DEF Forked, Failed
<1>. QED  BY <1>1, PaceInvariant, PTL DEF MCSpec, Paced, Inv

(* Nor does a daemon in service sleep much longer over a monitor that is   *)
(* down than its wait says.                                                *)
THEOREM Promptness == MCSpec => []Prompt
<1>1. Inv /\ PaceInv => Prompt
  <2> SUFFICES ASSUME PaceInv, InService, pid_MON = NoPid
               PROVE  idle <= LongHop \/ idle <= Owed + ShortHop
    BY DEF Prompt
  <2>1. Within(idle)
    BY DEF PaceInv, IdleTold, Leaving, InService
  <2>. QED  BY <2>1 DEF Within, Owed, Owe, DelayAfter
<1>. QED  BY <1>1, PaceInvariant, PTL
=============================================================================
