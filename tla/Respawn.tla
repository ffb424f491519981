------------------------------ MODULE Respawn ------------------------------
(***************************************************************************)
(* How xcatd's main process keeps its install monitor alive: the backoff   *)
(* of xCAT::RespawnUtils, supervise() with SIGCHLD blocked, the reapers,   *)
(* the service loop that re-forks, and the wait at the end.                *)
(*                                                                         *)
(* The clock is relative: pace.wait is next_at minus time(), pace.age is   *)
(* time() minus started_at up to Healthy, beyond which nothing asks.  The  *)
(* main process takes no time except where it blocks.  Perl runs a signal  *)
(* handler before the next statement, so no step of the main process is    *)
(* taken over a pending SIGCHLD, but a select that begins then sleeps      *)
(* through it.                                                             *)
(***************************************************************************)
EXTENDS Naturals

CONSTANTS Pids,      \* process ids the kernel hands out, and reuses
          NoPid,
          EnvMin,    \* XCATD_MON_RESPAWN_MIN_INTERVAL
          EnvMax,    \* XCATD_MON_RESPAWN_MAX_INTERVAL
          Healthy,   \* XCATD_MON_RESPAWN_HEALTHY
          ShortHop,  \* the select bound while the monitor is down
          LongHop    \* the select bound otherwise

ASSUME ConstantsOK ==
    /\ NoPid \notin Pids
    /\ EnvMin \in Nat /\ EnvMax \in Nat /\ Healthy \in Nat
    /\ ShortHop \in Nat \ {0} /\ LongHop \in Nat \ {0}

VARIABLES
    phase,    \* where the main process is
    quit,     \* $quit
    pid_MON,  \* $pid_MON
    pace,     \* $mon_respawn
    timer,    \* what is left of the select bound
    pending,  \* a SIGCHLD whose handler has not run
    mon,      \* the kernel's view of a pid, and how far the monitor in it is
    told,     \* monitors whose own $quit is set
    held      \* another program holds xcatiport

main == <<phase, quit, pid_MON, pace, timer>>
vars == <<main, pending, mon, told, held>>

Phases == {"start", "startfork", "check", "setup", "deaf", "top", "attempt",
           "refork", "poll", "hop", "select", "ready", "wait", "gone", "died", "crashed"}

Alive     == {p \in Pids : mon[p] \in {"new", "binding", "serving", "stopping"}}
Zombies   == {p \in Pids : mon[p] = "zombie"}
Masked    == phase \in {"startfork", "refork"}
Ended     == phase \in {"gone", "died", "crashed"}
InService ==
    ~quit /\ phase \in {"top", "attempt", "refork", "poll", "hop", "select", "ready"}

(* generic_reaper until monitorctrl::start undefines it, ssl_reaper in the *)
(* service loop.                                                           *)
HandlerSet == phase \notin {"deaf", "wait"} /\ ~Ended

-----------------------------------------------------------------------------
(* xCAT::RespawnUtils: the pacing. *)

min_interval == IF EnvMin < 1 THEN 1 ELSE EnvMin
max_interval == IF EnvMax < min_interval THEN min_interval ELSE EnvMax

policy == [delay |-> min_interval, wait |-> 0, started |-> FALSE, age |-> 0,
           streak |-> FALSE, reported |-> FALSE]

(* The bug of giving up at the ceiling. *)
due_GivesUp(state) == state.wait = 0 /\ ~state.reported

due(state) == state.wait = 0

forked(state) == [state EXCEPT !.started = TRUE, !.age = 0]

(* The bug of taking every death for the end of a service. *)
Served_Always(state) == state.started

Served(state) == state.started /\ state.age >= Healthy

(* The bug of doubling without a ceiling. *)
exited_Uncapped(state) ==
    IF Served(state)
    THEN policy
    ELSE [state EXCEPT !.started = FALSE, !.age = 0, !.streak = TRUE,
                       !.wait = state.delay, !.delay = 2 * @]

(* The child served: start over.  It did not: wait, and longer next time. *)
exited(state) ==
    IF Served(state)
    THEN policy
    ELSE [state EXCEPT !.started = FALSE, !.age = 0, !.streak = TRUE,
                       !.wait = state.delay,
                       !.delay = IF 2 * @ > max_interval THEN max_interval ELSE 2 * @]

should_report(state) ==
    ~state.reported /\ state.streak /\ state.delay >= max_interval

reported(state) == [state EXCEPT !.reported = TRUE]

(* A second passes. *)
Later(state) ==
    [state EXCEPT !.wait = IF @ = 0 THEN 0 ELSE @ - 1,
                  !.age = IF state.started /\ @ < Healthy THEN @ + 1 ELSE @]

Paces == [delay : min_interval .. max_interval, wait : 0 .. max_interval,
          started : BOOLEAN, age : 0 .. Healthy,
          streak : BOOLEAN, reported : BOOLEAN]

TypeOK ==
    /\ phase \in Phases
    /\ quit \in BOOLEAN
    /\ pid_MON \in Pids \cup {NoPid}
    /\ pace \in Paces
    /\ timer \in Nat
    /\ pending \in BOOLEAN
    /\ mon \in [Pids -> {"none", "new", "binding", "serving", "stopping", "zombie"}]
    /\ told \in SUBSET Pids
    /\ held \in BOOLEAN

Init ==
    /\ phase = "start"
    /\ quit = FALSE
    /\ pid_MON = NoPid
    /\ pace = policy
    /\ timer = 0
    /\ pending = FALSE
    /\ mon = [p \in Pids |-> "none"]
    /\ told = {}
    /\ held \in BOOLEAN
-----------------------------------------------------------------------------
(* supervise *)

(* The bug of a supervise without sigprocmask. *)
SigchldBlocked_Never == FALSE

SigchldBlocked == Masked

(* SIGCHLD is blocked, the attempt is entered and the child runs.  It      *)
(* inherits $quit.                                                         *)
Fork(p) ==
    /\ phase \in {"start", "attempt"} /\ ~pending
    /\ pid_MON = NoPid
    /\ mon[p] = "none"
    /\ phase' = IF phase = "start" THEN "startfork" ELSE "refork"
    /\ pace' = forked(pace)
    /\ mon' = [mon EXCEPT ![p] = "new"]
    /\ told' = IF quit THEN told \cup {p} ELSE told \ {p}
    /\ UNCHANGED <<quit, pid_MON, timer, pending, held>>

(* The fork fails: it counts as a death, and ends a daemon that starts. *)
ForkFails ==
    /\ phase \in {"start", "attempt"} /\ ~pending
    /\ pid_MON = NoPid
    /\ phase' = IF phase = "start" THEN "died" ELSE "poll"
    /\ pace' = exited(forked(pace))
    /\ UNCHANGED <<quit, pid_MON, timer, pending, mon, told, held>>

(* The parent stores the pid and lets SIGCHLD back in. *)
Assign ==
    /\ Masked
    /\ pid_MON' \in Alive \cup Zombies
    /\ phase' = IF phase = "startfork" THEN "check" ELSE "poll"
    /\ UNCHANGED <<quit, pace, timer, pending, mon, told, held>>

(* generic_reaper and ssl_reaper, with reap_install_monitor: every exited  *)
(* child is collected and the death of $pid_MON folded into the pacing.    *)
Reap ==
    /\ pending /\ HandlerSet /\ ~SigchldBlocked /\ phase # "select"
    /\ pending' = FALSE
    /\ mon' = [p \in Pids |-> IF mon[p] = "zombie" THEN "none" ELSE mon[p]]
    /\ IF pid_MON \in Zombies
       THEN pid_MON' = NoPid /\ pace' = exited(pace)
       ELSE UNCHANGED <<pid_MON, pace>>
    /\ UNCHANGED <<phase, quit, timer, told, held>>
-----------------------------------------------------------------------------
(* From the first fork to the service loop. *)

(* unless ($pid_MON) { ... die; } *)
Check ==
    /\ phase = "check" /\ ~pending
    /\ phase' = IF pid_MON = NoPid THEN "died" ELSE "setup"
    /\ UNCHANGED <<quit, pid_MON, pace, timer, pending, mon, told, held>>

(* xCAT_monitoring::monitorctrl::start undefines $SIG{CHLD}. *)
StartMonitoring ==
    /\ phase = "setup" /\ ~pending
    /\ phase' = "deaf"
    /\ UNCHANGED <<quit, pid_MON, pace, timer, pending, mon, told, held>>

(* The SSL listener is bound, after up to 100 tries. *)
EnterLoop ==
    /\ phase = "deaf"
    /\ phase' = IF quit THEN "wait" ELSE "top"
    /\ UNCHANGED <<quit, pid_MON, pace, timer, pending, mon, told, held>>

(* It is not: the monitor gets INT, which kills it or, before it has its   *)
(* own handlers, runs the inherited one, and the daemon dies.              *)
ListenFails ==
    /\ phase = "deaf"
    /\ phase' = "died"
    /\ \E heirs \in SUBSET {p \in {pid_MON} \cap Pids : mon[p] = "new"} :
        /\ told' = told \cup heirs
        /\ mon' = [p \in Pids |-> IF p = pid_MON /\ p \in Alive \ heirs
                                 THEN "zombie" ELSE mon[p]]
    /\ UNCHANGED <<quit, pid_MON, pace, timer, pending, held>>
-----------------------------------------------------------------------------
(* The service loop. *)

Leave ==
    /\ phase = "top" /\ ~pending /\ quit
    /\ phase' = "wait"
    /\ UNCHANGED <<quit, pid_MON, pace, timer, pending, mon, told, held>>

(* Nothing else re-forks the monitor. *)
Attempt ==
    /\ phase = "top" /\ ~pending /\ ~quit
    /\ pid_MON = NoPid /\ due(pace)
    /\ phase' = "attempt"
    /\ pace' = IF should_report(pace) THEN reported(pace) ELSE pace
    /\ UNCHANGED <<quit, pid_MON, timer, pending, mon, told, held>>

NoAttempt ==
    /\ phase = "top" /\ ~pending /\ ~quit
    /\ pid_MON # NoPid \/ ~due(pace)
    /\ phase' = "poll"
    /\ UNCHANGED <<quit, pid_MON, pace, timer, pending, mon, told, held>>

(* The bug of the long bound while the monitor is down. *)
Hop_Long == LongHop

(* The bound of the select is computed some statements before it begins. *)
Hop == IF pid_MON = NoPid THEN ShortHop ELSE LongHop

ChooseHop ==
    /\ phase = "poll" /\ ~pending
    /\ phase' = "hop"
    /\ timer' = Hop
    /\ UNCHANGED <<quit, pid_MON, pace, pending, mon, told, held>>

BeginSelect ==
    /\ phase = "hop"
    /\ phase' = "select"
    /\ UNCHANGED <<quit, pid_MON, pace, timer, pending, mon, told, held>>

SelectExpires ==
    /\ phase = "select" /\ timer = 0
    /\ phase' = "top"
    /\ UNCHANGED <<quit, pid_MON, pace, timer, pending, mon, told, held>>

(* A client or the UDP process has something to say. *)
SelectReady ==
    /\ phase = "select"
    /\ phase' = "ready"
    /\ UNCHANGED <<quit, pid_MON, pace, timer, pending, mon, told, held>>

(* A worker is forked for the client, or there is none to fork for. *)
Answer ==
    /\ phase = "ready" /\ ~pending
    /\ phase' = "top"
    /\ UNCHANGED <<quit, pid_MON, pace, timer, pending, mon, told, held>>

(* The worker's fork fails and the service loop dies on the spot: it tells *)
(* nobody and waits for nobody.                                            *)
ServiceDies ==
    /\ phase = "ready" /\ ~pending
    /\ phase' = "crashed"
    /\ UNCHANGED <<quit, pid_MON, pace, timer, pending, mon, told, held>>
-----------------------------------------------------------------------------
(* The end: wait() with the default SIGCHLD handler, for $pid_MON. *)

WaitChild(p) ==
    /\ phase = "wait" /\ pid_MON # NoPid
    /\ mon[p] = "zombie"
    /\ mon' = [mon EXCEPT ![p] = "none"]
    /\ pid_MON' = IF p = pid_MON THEN NoPid ELSE pid_MON
    /\ UNCHANGED <<phase, quit, pace, timer, pending, told, held>>

(* The bug of not waiting for the monitor. *)
WaitEnds_AtOnce ==
    /\ phase = "wait"
    /\ phase' = "gone"
    /\ UNCHANGED <<quit, pid_MON, pace, timer, pending, mon, told, held>>

WaitEnds ==
    /\ phase = "wait"
    /\ pid_MON = NoPid \/ Alive \cup Zombies = {}
    /\ phase' = "gone"
    /\ UNCHANGED <<quit, pid_MON, pace, timer, pending, mon, told, held>>

(* TERM or INT: USR2 goes to the pid the main process knows.  A monitor    *)
(* without its socket ignores it; one that has not installed its handler   *)
(* dies of it or takes the inherited one, which sets $quit.                *)
Signalled == {p \in {pid_MON} \cap Pids : mon[p] \in {"new", "serving"}}

Quit ==
    /\ ~Ended
    /\ quit' = TRUE
    /\ told' = told \cup Signalled
    /\ mon' = [p \in Pids |-> IF p \in Signalled /\ mon[p] = "serving"
                             THEN "stopping" ELSE mon[p]]
    /\ phase' = IF phase = "select" THEN "top" ELSE phase
    /\ UNCHANGED <<pid_MON, pace, timer, pending, held>>

QuitKills(p) ==
    /\ ~Ended
    /\ quit' = TRUE
    /\ p = pid_MON /\ mon[p] = "new"
    /\ mon' = [mon EXCEPT ![p] = "zombie"]
    /\ pending' = (pending \/ HandlerSet)
    /\ phase' = IF phase = "select" THEN "top" ELSE phase
    /\ UNCHANGED <<pid_MON, pace, timer, told, held>>
-----------------------------------------------------------------------------
(* The monitor, as far as its parent is concerned: do_installm_service     *)
(* installs its handlers, takes the port or dies without it, serves, and   *)
(* may be killed at any time.                                              *)

Dies(p) ==
    /\ mon' = [mon EXCEPT ![p] = "zombie"]
    /\ pending' = (pending \/ HandlerSet)
    /\ phase' = IF phase = "select" THEN "top" ELSE phase
    /\ UNCHANGED <<quit, pid_MON, pace, timer, told, held>>

InstallHandlers(p) ==
    /\ mon[p] = "new"
    /\ mon' = [mon EXCEPT ![p] = "binding"]
    /\ UNCHANGED <<main, pending, told, held>>

(* The bug of a monitor that resets $quit when it begins. *)
Bind_Resets(p) ==
    /\ mon[p] = "binding" /\ ~held
    /\ mon' = [mon EXCEPT ![p] = "serving"]
    /\ UNCHANGED <<main, pending, told, held>>

Bind(p) ==
    /\ mon[p] = "binding" /\ ~held
    /\ mon' = [mon EXCEPT ![p] = IF p \in told THEN "stopping" ELSE "serving"]
    /\ UNCHANGED <<main, pending, told, held>>

NoBind(p)  == mon[p] = "binding" /\ held /\ Dies(p)
Stopped(p) == mon[p] = "stopping" /\ Dies(p)
Killed(p)  == p \in Alive /\ Dies(p)

(* Another child of the main process exits: a client's worker, say. *)
OtherChildExits ==
    /\ ~Ended
    /\ pending' = (pending \/ HandlerSet)
    /\ phase' = IF phase = "select" THEN "top" ELSE phase
    /\ UNCHANGED <<quit, pid_MON, pace, timer, mon, told, held>>

(* Another program takes the free port, or lets go of it. *)
PortMoves ==
    /\ \A p \in Pids : mon[p] # "serving"
    /\ held' = ~held
    /\ UNCHANGED <<main, pending, mon, told>>

(* A second passes while the main process blocks or starts. *)
Tick ==
    /\ \/ phase = "setup" /\ ~pending
       \/ phase \in {"deaf", "wait"}
       \/ phase = "select" /\ timer > 0
    /\ pace' = Later(pace)
    /\ timer' = IF timer = 0 THEN 0 ELSE timer - 1
    /\ UNCHANGED <<phase, quit, pid_MON, pending, mon, told, held>>
-----------------------------------------------------------------------------
Supervise == (\E p \in Pids : Fork(p)) \/ ForkFails \/ Assign \/ Reap
Start     == Check \/ StartMonitoring \/ EnterLoop
Run       == Leave \/ Attempt \/ NoAttempt \/ ChooseHop \/ BeginSelect
             \/ SelectExpires \/ Answer
Serve     == Run \/ SelectReady \/ ServiceDies
Stop      == \/ Quit \/ WaitEnds \/ ListenFails
             \/ \E p \in Pids : QuitKills(p) \/ WaitChild(p)
Monitor   == \E p \in Pids : \/ InstallHandlers(p) \/ Bind(p) \/ NoBind(p)
                             \/ Stopped(p) \/ Killed(p)
Outside   == OtherChildExits \/ PortMoves \/ Tick

Next == Supervise \/ Start \/ Serve \/ Stop \/ Monitor \/ Outside

Spec == Init /\ [][Next]_vars

(* The main process runs and is not interrupted before every statement;    *)
(* time passes; a fork is not refused for ever; a monitor gets on.         *)
Fairness ==
    /\ WF_vars(Assign \/ Reap)
    /\ SF_vars(\E p \in Pids : Fork(p))
    /\ SF_vars(Start) /\ SF_vars(Run)
    /\ WF_vars(\E p \in Pids : WaitChild(p)) /\ WF_vars(WaitEnds)
    /\ SF_vars(Tick)
    /\ \A p \in Pids : WF_vars(InstallHandlers(p) \/ Bind(p) \/ NoBind(p) \/ Stopped(p))

FairSpec == Spec /\ Fairness

(* A daemon that has clients: a worker exits now and then. *)
BusySpec == FairSpec /\ WF_vars(OtherChildExits)
-----------------------------------------------------------------------------
(* $pid_MON names the one monitor there is: no second one is forked while  *)
(* one runs, and no reaped pid stays in $pid_MON, which would stop the     *)
(* re-forking for good.  The code holds SIGCHLD back over the fork for it. *)
MonitorTracked ==
    /\ ~Masked => Alive \cup Zombies = {pid_MON} \ {NoPid}
    /\ Masked => pid_MON = NoPid /\ \E p \in Pids : Alive \cup Zombies = {p}

(* The main process ends only after the monitor it forked, and dies at its *)
(* start only after it told it to stop.  What stays on xcatiport without a *)
(* parent and untold is left there by a service loop that died because a   *)
(* client's worker could not be forked, and by nothing else.               *)
NoOrphan ==
    /\ phase = "gone" => Alive = {}
    /\ Ended /\ ~(Alive \subseteq told) => phase = "crashed"

MonitorUp == \E p \in Pids : mon[p] \in {"new", "binding", "serving"}

(* However long the monitor has been failing, a daemon in service forks    *)
(* another one.                                                            *)
ComesBack == InService /\ ~MonitorUp ~> MonitorUp \/ ~InService

(* A monitor that was told to stop, by USR2 or by the $quit it inherited,  *)
(* ends, and the main process that waits for it ends after it.             *)
ToldEnds == phase = "wait" /\ pid_MON \in told \cup {NoPid} ~> Ended

(* A daemon told to stop ends. *)
StopEnds == quit ~> Ended
=============================================================================
