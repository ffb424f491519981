---------------------------- MODULE SSLListener ----------------------------
(***************************************************************************)
(* The service loop of xcatd's main process as far as its clients go: it   *)
(* accepts, throttles and forks a worker per client, ssl_reaper counts the *)
(* workers that exit, and the UDP process asks it how many clients there   *)
(* are before it lets nodes call (grant_tcrequests).  At the end the main  *)
(* process waits for its workers and for the UDP process.                  *)
(*                                                                         *)
(* Clients have no identity here: a worker is a pid, what waits is a       *)
(* number.  ssl_reaper may run between any two statements, so the fork,    *)
(* the entry in %immediatechildren and the count are steps of their own.   *)
(***************************************************************************)
EXTENDS Integers, FiniteSets

CONSTANTS Pids,        \* process ids of workers; the kernel reuses them
          NoPid,
          MaxClients,  \* $maxsslclients, site.xcatmaxconnections
          Batch,       \* $batchclients, site.xcatmaxbatchconnections
          MaxBacklog,  \* clients that connect and are not accepted, at most
          MaxPending,  \* bound on @pendingconnections
          MaxRequests  \* nodes that ask for a slot, at most

ASSUME ConstantsOK ==
    /\ IsFiniteSet(Pids) /\ NoPid \notin Pids
    /\ MaxClients \in Nat \ {0} /\ Batch \in Nat
    /\ MaxBacklog \in Nat \ {0} /\ MaxPending \in Nat \ {0} /\ MaxRequests \in Nat

VARIABLES
    pc,        \* where the main process is
    quit,      \* $quit
    backlog,   \* clients the kernel completed and nobody accepted
    pendingconnections,
    immediatechildren,
    sslclients,
    sslfudgefactor,
    child,     \* what fork returned, while it is not counted
    worker,    \* the kernel's view of a pid: none, live, zombie
    udp,       \* the UDP process: idle, asked, granting, setting, dead
    udpquit,   \* its own $quit, set by USR2
    seen,      \* the answer it computes with: fudge factor and client count
    requests   \* nodes whose resourcerequest it keeps

clients == <<backlog, pendingconnections, immediatechildren, sslclients, child, worker>>
control == <<udp, udpquit, seen, requests>>
vars == <<pc, quit, clients, sslfudgefactor, control>>

Running == {p \in Pids : worker[p] # "none"}
Zombies == {p \in Pids : worker[p] = "zombie"}
Serving == pc \in {"top", "listen", "admit", "forked", "recorded"}

NoAnswer == [fudge |-> 0, clients |-> 0]

TypeOK ==
    /\ pc \in {"top", "listen", "admit", "forked", "recorded", "wait", "gone", "died"}
    /\ quit \in BOOLEAN /\ udpquit \in BOOLEAN
    /\ backlog \in 0 .. MaxBacklog
    /\ pendingconnections \in 0 .. MaxPending
    /\ immediatechildren \in SUBSET Pids
    /\ sslclients \in Int /\ sslfudgefactor \in Nat
    /\ child \in Pids \cup {NoPid}
    /\ worker \in [Pids -> {"none", "live", "zombie"}]
    /\ udp \in {"idle", "asked", "granting", "setting", "dead"}
    /\ seen \in [fudge : Nat, clients : Int]
    /\ requests \in 0 .. MaxRequests

Init ==
    /\ pc = "top" /\ quit = FALSE
    /\ backlog = 0 /\ pendingconnections = 0
    /\ immediatechildren = {} /\ sslclients = 0 /\ sslfudgefactor = 0
    /\ child = NoPid
    /\ worker = [p \in Pids |-> "none"]
    /\ udp = "idle" /\ udpquit = FALSE
    /\ seen = NoAnswer
    /\ requests = 0
-----------------------------------------------------------------------------
(* ssl_reaper: only a child that is entered is uncounted. *)
Reaped == Zombies \cap immediatechildren

ssl_reaper ==
    /\ Serving /\ Zombies # {}
    /\ worker' = [p \in Pids |-> IF worker[p] = "zombie" THEN "none" ELSE worker[p]]
    /\ immediatechildren' = immediatechildren \ Reaped
    /\ sslclients' = sslclients - Cardinality(Reaped)
    /\ UNCHANGED <<pc, quit, backlog, pendingconnections, child, sslfudgefactor, control>>

(* The broker: an answer to the UDP process. *)
GetClientCount ==
    /\ pc = "top" /\ ~quit /\ udp = "asked"
    /\ udp' = "granting"
    /\ seen' = [fudge |-> sslfudgefactor, clients |-> sslclients]
    /\ UNCHANGED <<pc, quit, clients, sslfudgefactor, udpquit, requests>>

SetFudgeFactor ==
    /\ pc = "top" /\ ~quit /\ udp = "setting"
    /\ udp' = "idle"
    /\ sslfudgefactor' = seen.fudge
    /\ seen' = NoAnswer
    /\ UNCHANGED <<pc, quit, clients, udpquit, requests>>

Leave ==
    /\ pc = "top" /\ quit
    /\ pc' = "wait"
    /\ UNCHANGED <<quit, clients, sslfudgefactor, control>>

(* The bug of serving clients before the UDP process is answered. *)
Listen_Deaf ==
    /\ pc = "top" /\ ~quit
    /\ pc' = "listen"
    /\ UNCHANGED <<quit, clients, sslfudgefactor, control>>

Listen ==
    /\ pc = "top" /\ ~quit /\ udp \notin {"asked", "setting"}
    /\ pc' = "listen"
    /\ UNCHANGED <<quit, clients, sslfudgefactor, control>>

(* With clients on hand everything is accepted without waiting; without    *)
(* any the loop waits, and accepts one or starts over.                     *)
AcceptAll ==
    /\ pc = "listen" /\ pendingconnections > 0
    /\ \E n \in 0 .. backlog :
        /\ pendingconnections + n <= MaxPending
        /\ n = backlog \/ pendingconnections + n = MaxPending
        /\ pendingconnections' = pendingconnections + n
        /\ backlog' = backlog - n
    /\ pc' = "admit"
    /\ UNCHANGED <<quit, immediatechildren, sslclients, child, worker, sslfudgefactor, control>>

AcceptOne ==
    /\ pc = "listen" /\ pendingconnections = 0 /\ backlog > 0
    /\ backlog' = backlog - 1
    /\ pendingconnections' = 1
    /\ pc' = "admit"
    /\ UNCHANGED <<quit, immediatechildren, sslclients, child, worker, sslfudgefactor, control>>

NothingToAccept ==
    /\ pc = "listen" /\ pendingconnections = 0 /\ backlog = 0
    /\ pc' = "top"
    /\ UNCHANGED <<quit, clients, sslfudgefactor, control>>

(* The bug of counting the waiting clients against the limit, and that of  *)
(* taking those that are only forecast for workers.                        *)
Full_Waiting == sslclients + pendingconnections > MaxClients
Full_Forecast == sslclients - sslfudgefactor > MaxClients

Full == sslclients > MaxClients

Throttle ==
    /\ pc = "admit" /\ Full
    /\ pc' = "top"
    /\ UNCHANGED <<quit, clients, sslfudgefactor, control>>

Fork(p) ==
    /\ pc = "admit" /\ ~Full
    /\ worker[p] = "none"
    /\ pendingconnections' = pendingconnections - 1
    /\ worker' = [worker EXCEPT ![p] = "live"]
    /\ child' = p
    /\ pc' = "forked"
    /\ UNCHANGED <<quit, backlog, immediatechildren, sslclients, sslfudgefactor, control>>

(* A fork that fails ends the daemon. *)
ForkFails ==
    /\ pc = "admit" /\ ~Full
    /\ pendingconnections' = pendingconnections - 1
    /\ pc' = "died"
    /\ UNCHANGED <<quit, backlog, immediatechildren, sslclients, child, worker, sslfudgefactor,
                   control>>

(* $immediatechildren{$child} = 1 *)
Record ==
    /\ pc = "forked"
    /\ immediatechildren' = immediatechildren \cup {child}
    /\ pc' = "recorded"
    /\ UNCHANGED <<quit, backlog, pendingconnections, sslclients, child, worker,
                   sslfudgefactor, control>>

(* The bug of a forecast that goes below zero. *)
PaidBack_Negative == sslfudgefactor - 1

PaidBack == IF sslfudgefactor = 0 THEN 0 ELSE sslfudgefactor - 1

(* The bug of counting a client that was forecast in the forecast only. *)
Counted_Forecast == IF sslfudgefactor > 0 THEN sslclients ELSE sslclients + 1

Counted == sslclients + 1

(* $sslfudgefactor -= 1; $sslclients++ *)
Count ==
    /\ pc = "recorded"
    /\ sslfudgefactor' = PaidBack
    /\ sslclients' = Counted
    /\ pc' = "top" /\ child' = NoPid
    /\ UNCHANGED <<quit, backlog, pendingconnections, immediatechildren, worker, control>>
-----------------------------------------------------------------------------
(* The UDP process. *)

Request ==
    /\ udp = "idle" /\ requests < MaxRequests
    /\ requests' = requests + 1
    /\ UNCHANGED <<pc, quit, clients, sslfudgefactor, udp, udpquit, seen>>

(* grant_tcrequests asks and waits for the answer. *)
Ask ==
    /\ udp = "idle" /\ ~udpquit /\ requests > 0
    /\ udp' = "asked"
    /\ UNCHANGED <<pc, quit, clients, sslfudgefactor, udpquit, seen, requests>>

(* The bug of granting without the forecast. *)
Slots_NoForecast == Batch - seen.clients

Slots == Batch - seen.fudge - seen.clients

(* Requests older than three minutes are dropped, the others granted as    *)
(* long as there are slots; then the forecast is sent back.                *)
Grant ==
    /\ udp = "granting"
    /\ \E old \in 0 .. requests :
        LET fresh == requests - old
            n == IF Slots <= 0 THEN 0 ELSE IF fresh < Slots THEN fresh ELSE Slots
        IN /\ requests' = fresh - n
           /\ seen' = [fudge |-> seen.fudge + n, clients |-> 0]
    /\ udp' = "setting"
    /\ UNCHANGED <<pc, quit, clients, sslfudgefactor, udpquit>>

UdpLeaves ==
    /\ udp = "idle" /\ udpquit
    /\ udp' = "dead"
    /\ UNCHANGED <<pc, quit, clients, sslfudgefactor, udpquit, seen, requests>>
-----------------------------------------------------------------------------
(* Clients and workers. *)

Connect ==
    /\ pc \notin {"gone", "died"} /\ backlog < MaxBacklog
    /\ backlog' = backlog + 1
    /\ UNCHANGED <<pc, quit, pendingconnections, immediatechildren, sslclients, child, worker,
                   sslfudgefactor, control>>

WorkerExits(p) ==
    /\ worker[p] = "live"
    /\ worker' = [worker EXCEPT ![p] = "zombie"]
    /\ UNCHANGED <<pc, quit, backlog, pendingconnections, immediatechildren, sslclients, child,
                   sslfudgefactor, control>>

(* TERM or INT: USR2 to the UDP process. *)
Quit ==
    /\ ~quit
    /\ quit' = TRUE
    /\ udpquit' = TRUE
    /\ UNCHANGED <<pc, clients, sslfudgefactor, udp, seen, requests>>

(* The bug of waiting for the UDP process only. *)
Remains_NoWorkers == udp # "dead"

(* wait() with the default handler, while a worker is entered or the UDP   *)
(* process runs; the database worker keeps wait() from failing.            *)
Remains == immediatechildren # {} \/ udp # "dead"

WaitChild(p) ==
    /\ pc = "wait" /\ Remains
    /\ worker[p] = "zombie"
    /\ worker' = [worker EXCEPT ![p] = "none"]
    /\ immediatechildren' = immediatechildren \ {p}
    /\ UNCHANGED <<pc, quit, backlog, pendingconnections, sslclients, child, sslfudgefactor, control>>

WaitEnds ==
    /\ pc = "wait" /\ ~Remains
    /\ pc' = "gone"
    /\ UNCHANGED <<quit, clients, sslfudgefactor, control>>
-----------------------------------------------------------------------------
Broker == GetClientCount \/ SetFudgeFactor
Loop   == \/ Leave \/ Listen \/ AcceptAll \/ AcceptOne \/ NothingToAccept \/ Throttle
          \/ Record \/ Count \/ ForkFails
          \/ \E p \in Pids : Fork(p)
Udp    == Request \/ Ask \/ Grant \/ UdpLeaves
End    == Quit \/ WaitEnds \/ \E p \in Pids : WaitChild(p)
World  == Connect \/ \E p \in Pids : WorkerExits(p)

Next == ssl_reaper \/ Broker \/ Loop \/ Udp \/ End \/ World

Spec == Init /\ [][Next]_vars

(* The main process and the UDP process run, the latter does not ask again *)
(* every time before the main process has looked elsewhere, and a worker   *)
(* ends: its handshake is under alarm(2) and its plugins terminate.        *)
Fairness ==
    /\ WF_vars(ssl_reaper) /\ WF_vars(Broker \/ Loop) /\ SF_vars(Listen)
    /\ WF_vars(Ask \/ Grant \/ UdpLeaves)
    /\ WF_vars(WaitEnds) /\ WF_vars(\E p \in Pids : WaitChild(p))
    /\ \A p \in Pids : WF_vars(WorkerExits(p))

FairSpec == Spec /\ Fairness
-----------------------------------------------------------------------------
(* The worker that is forked and not counted yet. *)
InFlight == IF pc \in {"forked", "recorded"} THEN 1 ELSE 0

(* $sslclients is never below the workers there are, so the limit it is    *)
(* compared with holds, whatever is reaped between the fork and the count  *)
(* and however pids are reused.                                            *)
NeverUndercounted == Cardinality(Running) <= sslclients + InFlight

(* The limit: > and not >= lets one more in.                               *)
WorkerLimit == Cardinality(Running) <= MaxClients + 1

(* A daemon that is told to stop ends only after every worker it forked:   *)
(* its exit cuts no command short.                                         *)
WaitCovers == pc = "gone" => Running = {}

(* The forecast that is read by the UDP process, added to and written back *)
(* over what the main process did meanwhile stays within the batch: the    *)
(* slots never go so far below zero that clients cannot pay them back.     *)
ForecastBounded == sslfudgefactor <= Batch /\ seen.fudge <= Batch

(* Every worker that was reaped before it was entered leaves its count     *)
(* behind.                                                                 *)
Leaked == sslclients + InFlight > Cardinality(Running)

(* An accepted client gets a worker unless the count has leaked or the     *)
(* daemon ends.                                                            *)
Ends == quit \/ pc = "died"

ClientServed ==
    pendingconnections > 0 ~> pc = "forked" \/ Ends \/ (Leaked /\ Full)

(* The UDP process gets its answers while the main process serves.         *)
UdpAnswered == udp \in {"asked", "setting"} ~> udp \in {"granting", "idle"} \/ Ends

(* site.xcatmaxconnections: the number of concurrent requests before       *)
(* requests begin queueing.                                                *)
QueuesOnlyWhenFull == [][Throttle => Cardinality(Running) >= MaxClients]_vars
=============================================================================
