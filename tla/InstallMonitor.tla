--------------------------- MODULE InstallMonitor ---------------------------
(***************************************************************************)
(* The install monitor of xcatd: do_installm_service and its helpers       *)
(* reap_installm_kids, dequeue_installm_request and                        *)
(* wait_for_installm_connection (src/xCAT-server/sbin/xcatd).  One process *)
(* accepts the connections of installing nodes and gives each a forked     *)
(* handler; a node with a handler has its later connections queued.  What  *)
(* a handler says on its connection is not modelled here: a handler lives  *)
(* and exits.                                                              *)
(*                                                                         *)
(* The parent's Perl runs between signals, so a step is what it does       *)
(* between two points where another process can change what it reads: the  *)
(* set of exited children, the listen backlog, and $quit.                  *)
(***************************************************************************)
EXTENDS Naturals, Sequences, FiniteSets

CONSTANTS Nodes,     \* nodes that connect
          Conns,     \* connections; one that was closed may come again
          NodeOf,    \* connection -> the node its peer address names
          Pids,      \* process ids the kernel hands out, and reuses
          MaxKids,   \* $installm_maxkids
          ForkMayFail, \* may fork fail?
          NoNode, NoConn, NoPid

ASSUME ConstantsOK ==
    /\ NodeOf \in [Conns -> Nodes]
    /\ IsFiniteSet(Pids)
    /\ MaxKids \in Nat \ {0}
    /\ ForkMayFail \in BOOLEAN
    /\ NoNode \notin Nodes
    /\ NoConn \notin Conns
    /\ NoPid \notin Pids

VARIABLES
    pc,       \* where the monitor is
    quit,     \* $quit: USR2 arrived, the listening socket is closed
    sigchld,  \* what $SIG{CHLD} does: nothing, reap every child, or no handler
    oldchld,  \* plugin_command's $old_sig_chld
    backlog,  \* connections the kernel completed and nobody accepted
    cur,      \* $conn, the connection the monitor has in hand
    queue,    \* %installm_queue; the code keeps no empty entry
    kids,     \* %installm_kids: pid -> node
    busy,     \* %installm_busy: node -> pid
    stage,    \* the kernel's view of a pid: none, live handler, zombie
    serves,   \* the connection a live or zombie handler was given
    stray     \* a child that is no handler: a nodeset, or one a command left

local == <<cur, queue, kids, busy>>
procs == <<stage, serves, stray>>
vars == <<pc, quit, sigchld, oldchld, backlog, local, procs>>

Zombies == {p \in Pids : stage[p] = "zombie"}
Live    == {p \in Pids : stage[p] = "live"}
Tracked == {p \in Pids : kids[p] # NoNode}
Queued  == {n \in Nodes : queue[n] # <<>>}

InHand == pc \in {"cap", "inline", "command", "xexit"}

(* What is in hand, tracked, busy or running. *)
ControlOK ==
    /\ pc \in {"top", "poll", "wait", "cap", "inline", "command", "xexit",
              "drain", "gone"}
    /\ quit \in BOOLEAN
    /\ sigchld \in {"noop", "reap", "default"}
    /\ oldchld \in {"noop", "reap", "default"}
    /\ cur \in Conns \cup {NoConn}
    /\ kids \in [Pids -> Nodes \cup {NoNode}]
    /\ busy \in [Nodes -> Pids \cup {NoPid}]
    /\ stage \in [Pids -> {"none", "live", "zombie"}]
    /\ serves \in [Pids -> Conns \cup {NoConn}]
    /\ stray \in BOOLEAN
    /\ InHand <=> cur # NoConn
    /\ \A p \in Pids : stage[p] # "none" <=> serves[p] # NoConn

(* What waits: a queue holds connections of its own node only. *)
QueuesOK ==
    /\ backlog \in Seq(Conns)
    /\ queue \in [Nodes -> Seq(Conns)]
    /\ \A n \in Nodes : queue[n] \in Seq({c \in Conns : NodeOf[c] = n})

TypeOK == ControlOK /\ QueuesOK

(* The monitor holds the socket and its SIGCHLD handler does nothing. *)
Init ==
    /\ pc = "top"
    /\ quit = FALSE
    /\ sigchld = "noop"
    /\ oldchld = "noop"
    /\ backlog = <<>>
    /\ cur = NoConn
    /\ queue = [n \in Nodes |-> <<>>]
    /\ kids = [p \in Pids |-> NoNode]
    /\ busy = [n \in Nodes |-> NoPid]
    /\ stage = [p \in Pids |-> "none"]
    /\ serves = [p \in Pids |-> NoConn]
    /\ stray = FALSE
-----------------------------------------------------------------------------
(* reap_installm_kids: collect every exited child; a node is free again    *)
(* only when the handler %installm_busy names is the one collected.  When  *)
(* no child is left (ECHILD) both tables are cleared.                      *)

NoChildLeft == Live = {} /\ ~stray

(* The bug of taking every -1 of waitpid for ECHILD. *)
KidsReaped_Interrupted ==
    [p \in Pids |-> IF Zombies = {} \/ stage[p] = "zombie" THEN NoNode ELSE kids[p]]

KidsReaped ==
    [p \in Pids |-> IF NoChildLeft \/ stage[p] = "zombie" THEN NoNode ELSE kids[p]]

Collected(n) == \E p \in Zombies : kids[p] = n /\ busy[n] = p

BusyReaped ==
    [n \in Nodes |-> IF NoChildLeft \/ Collected(n) THEN NoPid ELSE busy[n]]

ZombiesGone ==
    /\ stage' = [p \in Pids |-> IF stage[p] = "zombie" THEN "none" ELSE stage[p]]
    /\ serves' = [p \in Pids |-> IF stage[p] = "zombie" THEN NoConn ELSE serves[p]]
    /\ UNCHANGED stray

reap_installm_kids ==
    /\ kids' = KidsReaped
    /\ busy' = BusyReaped
    /\ ZombiesGone

(* dequeue_installm_request, after the reap: the hash order of the nodes   *)
(* is arbitrary.                                                           *)
(* The bug of looking for a free node before the reap.                     *)
Dequeueable_TooEarly == {n \in Queued : busy[n] = NoPid}

Dequeueable == {n \in Queued : BusyReaped[n] = NoPid}

(* The bug of pop for shift. *)
dequeue_Newest(n) ==
    /\ n \in Dequeueable
    /\ cur' = queue[n][Len(queue[n])]
    /\ queue' = [queue EXCEPT ![n] = SubSeq(@, 1, Len(@) - 1)]

dequeue_installm_request(n) ==
    /\ n \in Dequeueable
    /\ cur' = Head(queue[n])
    /\ queue' = [queue EXCEPT ![n] = Tail(@)]
-----------------------------------------------------------------------------
(* The top of the loop: reap, then take a queued connection or go to wait. *)
Loop ==
    /\ pc = "top" /\ ~quit
    /\ reap_installm_kids
    /\ \/ \E n \in Nodes : dequeue_installm_request(n) /\ pc' = "cap"
       \/ Dequeueable = {} /\ pc' = "poll" /\ UNCHANGED <<cur, queue>>
    /\ UNCHANGED <<quit, sigchld, oldchld, backlog>>

(* The bug of a wait that does not look whether the socket is still open. *)
StartWait_Deaf ==
    /\ pc = "poll"
    /\ pc' = "wait"
    /\ UNCHANGED <<quit, sigchld, oldchld, backlog, local, procs>>

(* wait_for_installm_connection starts its select, unless USR2 closed the   *)
(* socket.  A SIGCHLD before this point interrupts nothing.                *)
StartWait ==
    /\ pc = "poll"
    /\ pc' = IF quit THEN "top" ELSE "wait"
    /\ UNCHANGED <<quit, sigchld, oldchld, backlog, local, procs>>

(* The bug of a wait without a bound. *)
WaitExpires_Never == FALSE

(* wait_for_installm_connection runs into its bound, which it has only     *)
(* while connections are queued.                                           *)
WaitExpires ==
    /\ pc = "wait" /\ Queued # {} /\ backlog = <<>>
    /\ pc' = "top"
    /\ UNCHANGED <<quit, sigchld, oldchld, backlog, local, procs>>

(* The bug of queueing under the peer of another connection. *)
Accept_StaleNode ==
    /\ pc = "wait" /\ backlog # <<>>
    /\ backlog' = Tail(backlog)
    /\ \E n \in Nodes : queue' = [queue EXCEPT ![n] = Append(@, Head(backlog))]
    /\ pc' = "top"
    /\ UNCHANGED <<quit, sigchld, oldchld, cur, kids, busy, procs>>

(* A connection is accepted and its peer resolved.  The peer of no known   *)
(* node is closed; that of a busy node is queued.                          *)
Accept ==
    /\ pc = "wait" /\ backlog # <<>>
    /\ backlog' = Tail(backlog)
    /\ LET c == Head(backlog) IN
       \/ pc' = "top" /\ UNCHANGED <<cur, queue>>
       \/ /\ busy[NodeOf[c]] # NoPid
          /\ queue' = [queue EXCEPT ![NodeOf[c]] = Append(@, c)]
          /\ pc' = "top" /\ UNCHANGED cur
       \/ /\ busy[NodeOf[c]] = NoPid
          /\ cur' = c
          /\ pc' = "cap" /\ UNCHANGED queue
    /\ UNCHANGED <<quit, sigchld, oldchld, kids, busy, procs>>

(* The bug of comparing with <=. *)
BelowLimit_OneMore == Cardinality(Tracked) <= MaxKids

BelowLimit == Cardinality(Tracked) < MaxKids

(* At the limit the monitor blocks in waitpid until a child exits. *)
WaitForHandler ==
    /\ pc = "cap" /\ ~BelowLimit
    /\ Zombies # {} \/ NoChildLeft
    /\ reap_installm_kids
    /\ UNCHANGED <<pc, quit, sigchld, oldchld, backlog, cur, queue>>

(* xfork succeeds: the handler owns the connection. *)
Fork(p) ==
    /\ pc = "cap" /\ BelowLimit
    /\ stage[p] = "none"
    /\ stage' = [stage EXCEPT ![p] = "live"]
    /\ serves' = [serves EXCEPT ![p] = cur]
    /\ kids' = [kids EXCEPT ![p] = NodeOf[cur]]
    /\ busy' = [busy EXCEPT ![NodeOf[cur]] = p]
    /\ pc' = "top" /\ cur' = NoConn
    /\ UNCHANGED <<quit, sigchld, oldchld, backlog, queue, stray>>

(* xfork fails: the monitor answers the node itself. *)
ForkFails ==
    /\ ForkMayFail
    /\ pc = "cap" /\ BelowLimit
    /\ pc' = "inline"
    /\ UNCHANGED <<quit, sigchld, oldchld, backlog, local, procs>>
-----------------------------------------------------------------------------
(* Serving in line.  plugin_command and dispatch_request install their own *)
(* SIGCHLD handlers, which reap every child of the process.                *)

(* The process ends and the kernel closes every connection it holds. *)
EndProcess ==
    /\ pc' = "gone"
    /\ quit' = TRUE
    /\ backlog' = <<>>
    /\ cur' = NoConn
    /\ queue' = [n \in Nodes |-> <<>>]

(* plugin_command saves the handler and installs plugin_reaper. *)
Command ==
    /\ pc = "inline"
    /\ pc' = "command"
    /\ oldchld' = sigchld
    /\ sigchld' = "reap"
    /\ UNCHANGED <<quit, backlog, local, procs>>

(* dispatch_request: the default handler for preprocess_request and for a  *)
(* local request, dispatch_reaper while it relays from its children.       *)
Dispatch ==
    /\ pc = "command"
    /\ sigchld' \in {"default", "reap"}
    /\ UNCHANGED <<pc, quit, oldchld, backlog, local, procs>>

(* plugin_command returns and restores the handler.  A child whose socket  *)
(* is drained may still run.                                               *)
CommandReturns ==
    /\ pc = "command"
    /\ pc' = "inline"
    /\ sigchld' = oldchld /\ oldchld' = "noop"
    /\ stray' \in {stray, TRUE}
    /\ UNCHANGED <<quit, backlog, local, stage, serves>>

(* A plugin dies: the eval around the service catches it and nothing       *)
(* restores the handler.                                                   *)
CommandDies ==
    /\ pc = "command"
    /\ pc' = "top" /\ cur' = NoConn /\ oldchld' = "noop"
    /\ stray' \in {stray, TRUE}
    /\ UNCHANGED <<quit, sigchld, backlog, queue, kids, busy, stage, serves>>

(* A plugin of the command calls exit, which ends the monitor. *)
CommandExits ==
    /\ pc = "command"
    /\ EndProcess
    /\ UNCHANGED <<sigchld, oldchld, kids, busy, procs>>

(* A second fork fails, and the monitor runs the child's code to its end:  *)
(* xexit, which waits for every child first.                               *)
ChildForkFails ==
    /\ ForkMayFail
    /\ pc = "command"
    /\ pc' = "xexit"
    /\ UNCHANGED <<quit, sigchld, oldchld, backlog, local, procs>>

XExit ==
    /\ pc = "xexit" /\ NoChildLeft
    /\ EndProcess
    /\ UNCHANGED <<sigchld, oldchld, kids, busy, procs>>

(* setiscsiparms forks its nodeset and does not wait for it. *)
InlineForksNodeset ==
    /\ pc = "inline"
    /\ stray' = TRUE
    /\ UNCHANGED <<pc, quit, sigchld, oldchld, backlog, local, stage, serves>>

(* The node is answered, hangs up or lets the alarm expire. *)
InlineEnds ==
    /\ pc = "inline"
    /\ pc' = "top" /\ cur' = NoConn
    /\ UNCHANGED <<quit, sigchld, oldchld, backlog, queue, kids, busy, procs>>

(* plugin_reaper or dispatch_reaper runs in the monitor: it collects the   *)
(* handlers too, and knows none of them.                                   *)
PluginReaper ==
    /\ sigchld = "reap" /\ pc # "gone"
    /\ Zombies # {}
    /\ ZombiesGone
    /\ UNCHANGED <<pc, quit, sigchld, oldchld, backlog, local>>
-----------------------------------------------------------------------------
(* USR2: the handler closes the socket, and the kernel resets the backlog. *)
StandDown ==
    /\ ~quit
    /\ quit' = TRUE
    /\ backlog' = <<>>
    /\ pc' = IF pc = "wait" THEN "top" ELSE pc
    /\ UNCHANGED <<sigchld, oldchld, local, procs>>

(* Out of the loop: the queued connections are closed, then the handlers   *)
(* get $installm_drain_seconds.                                            *)
StopServing ==
    /\ pc = "top" /\ quit
    /\ queue' = [n \in Nodes |-> <<>>]
    /\ pc' = "drain"
    /\ UNCHANGED <<quit, sigchld, oldchld, backlog, cur, kids, busy, procs>>

Drain ==
    /\ pc = "drain" /\ Tracked # {}
    /\ reap_installm_kids
    /\ UNCHANGED <<pc, quit, sigchld, oldchld, backlog, cur, queue>>

(* The bug of draining the queue and not the handlers. *)
DrainEnds_QueueOnly ==
    /\ pc = "drain" /\ Queued = {}
    /\ pc' = "gone"
    /\ UNCHANGED <<quit, sigchld, oldchld, backlog, local, procs>>

DrainEnds ==
    /\ pc = "drain" /\ Tracked = {}
    /\ pc' = "gone"
    /\ UNCHANGED <<quit, sigchld, oldchld, backlog, local, procs>>

DrainExpires ==
    /\ pc = "drain" /\ Tracked # {}
    /\ pc' = "gone"
    /\ UNCHANGED <<quit, sigchld, oldchld, backlog, local, procs>>
-----------------------------------------------------------------------------
(* Nodes and handlers. *)

Open(c) == \/ c \in {backlog[i] : i \in DOMAIN backlog}
           \/ \E n \in Nodes : c \in {queue[n][i] : i \in DOMAIN queue[n]}
           \/ c = cur
           \/ \E p \in Live : serves[p] = c

Connect(c) ==
    /\ ~quit /\ ~Open(c)
    /\ backlog' = Append(backlog, c)
    /\ UNCHANGED <<pc, quit, sigchld, oldchld, local, procs>>

(* A handler exits: served, abandoned by its node, or dead.  The SIGCHLD   *)
(* interrupts a wait that is running, and only if a handler is installed.  *)
HandlerExits(p) ==
    /\ stage[p] = "live"
    /\ stage' = [stage EXCEPT ![p] = "zombie"]
    /\ pc' = IF pc = "wait" /\ sigchld # "default" THEN "top" ELSE pc
    /\ UNCHANGED <<quit, sigchld, oldchld, backlog, local, serves, stray>>

StrayExits ==
    /\ stray
    /\ stray' = FALSE
    /\ pc' = IF pc = "wait" /\ sigchld # "default" THEN "top" ELSE pc
    /\ UNCHANGED <<quit, sigchld, oldchld, backlog, local, stage, serves>>
-----------------------------------------------------------------------------
Serve   == Loop \/ StartWait \/ WaitExpires \/ Accept \/ WaitForHandler \/ ForkFails
           \/ \E p \in Pids : Fork(p)
Inline  == \/ Command \/ Dispatch \/ CommandReturns \/ CommandDies
           \/ CommandExits \/ ChildForkFails \/ XExit \/ InlineForksNodeset \/ InlineEnds
           \/ PluginReaper
Stop    == StandDown \/ StopServing \/ Drain \/ DrainEnds \/ DrainExpires
Outside == \/ \E c \in Conns : Connect(c)
           \/ \E p \in Pids : HandlerExits(p)
           \/ StrayExits

Next == Serve \/ Inline \/ Stop \/ Outside

Spec == Init /\ [][Next]_vars

(* The monitor runs, a command returns, the drain has a bound, and every   *)
(* handler ends: its reads are under alarm(2) and its plugins terminate.   *)
(* A node does not send requests on one connection for ever.               *)
Fairness ==
    /\ WF_vars(Serve)
    /\ WF_vars(CommandReturns)
    /\ SF_vars(InlineEnds)
    /\ WF_vars(XExit)
    /\ WF_vars(StopServing) /\ WF_vars(Drain \/ DrainEnds)
    /\ \A p \in Pids : WF_vars(HandlerExits(p))
    /\ WF_vars(StrayExits)

FairSpec == Spec /\ Fairness
-----------------------------------------------------------------------------
(* Every handler the monitor forked and has not collected is in            *)
(* %installm_kids under its node, and holds that node busy: no handler is  *)
(* forgotten, whatever was reaped behind the monitor's back and however    *)
(* pids are reused.  The stand-down drain and the per-node order rest on   *)
(* it.                                                                     *)
EveryHandlerKnown ==
    \A p \in Live \cup Zombies :
        /\ kids[p] = NodeOf[serves[p]]
        /\ busy[kids[p]] = p

(* A thousand nodes netbooting do not become a thousand handlers. *)
HandlerLimit == Cardinality(Live \cup Zombies) <= MaxKids

(* The handlers of a node that no reaper collected; and a node that        *)
(* %installm_busy keeps busy for a handler a plugin's reaper did collect:  *)
(* its pid is free, or another node's handler has it.                      *)
Uncollected(n) == {p \in Live \cup Zombies : NodeOf[serves[p]] = n}

Stale(n) == busy[n] # NoPid /\ (stage[busy[n]] = "none" \/ kids[busy[n]] # n)

(* The monitor goes to wait for a connection only when each queued one has *)
(* a handler of its node ahead of it, which runs or has just exited.  Only *)
(* a failed fork, after which a plugin reaps in the monitor, can make it   *)
(* wait behind a handler that is gone.                                     *)
NoneLeftBehind ==
    pc \in {"poll", "wait"} =>
        \A n \in Queued : Uncollected(n) # {} \/ (ForkMayFail /\ Stale(n))

(* The monitor that leaves its drain before the bound leaves no handler    *)
(* behind for systemd to kill after its "done" was on the wire.            *)
DrainWaits == [][pc = "drain" /\ DrainEnds => Live = {}]_vars

(* The connections of one node are answered one at a time in the order     *)
(* they were accepted: the monitor implements NodeService.                 *)
Pending ==
    [n \in Nodes |->
        IF pc = "cap" /\ NodeOf[cur] = n THEN <<cur>> \o queue[n] ELSE queue[n]]

Inlined(n) == pc \in {"inline", "command", "xexit"} /\ NodeOf[cur] = n

HandlersOf(n) == {p \in Live : NodeOf[serves[p]] = n}

Serving ==
    [n \in Nodes |-> CASE Inlined(n) -> cur
                       [] ~Inlined(n) /\ HandlersOf(n) # {}
                              -> serves[CHOOSE p \in HandlersOf(n) : TRUE]
                       [] OTHER -> NoConn]

Service == INSTANCE NodeService WITH pending <- Pending, serving <- Serving

PerNodeOrder == Service!Spec

(* A handler was reaped by a plugin's SIGCHLD handler, so the monitor still *)
(* thinks it runs.                                                         *)
Lost == \/ \E p \in Tracked : stage[p] = "none"
        \/ \E n \in Nodes : busy[n] # NoPid /\ kids[busy[n]] # n

(* A connection that waits, in the backlog or in its node's queue, is      *)
(* taken up or closed, however busy the other nodes are, unless the        *)
(* monitor lost track of a handler.                                        *)
Waiting(c) == \/ c \in {backlog[i] : i \in DOMAIN backlog}
              \/ \E n \in Nodes : c \in {queue[n][i] : i \in DOMAIN queue[n]}
              \/ pc = "cap" /\ cur = c

NobodyStarves == \A c \in Conns : Waiting(c) ~> ~Waiting(c) \/ Lost

(* A monitor told to stand down ends, also one that is at its limit, in    *)
(* the middle of a request it serves itself, or missing a reaped handler.  *)
StandDownEnds == quit ~> pc = "gone"

(* The comment on the monitor's SIGCHLD handler: the monitor accounts for  *)
(* its own handlers, so nothing else reaps them.                           *)
MonitorAccounts == ~Lost
=============================================================================
