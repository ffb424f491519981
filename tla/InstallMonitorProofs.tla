------------------------ MODULE InstallMonitorProofs ------------------------
(***************************************************************************)
(* Proofs about InstallMonitor for every set of nodes, connections and     *)
(* pids, every limit, and with forks that fail.                            *)
(***************************************************************************)
EXTENDS InstallMonitor, FiniteSetTheorems, SequenceTheorems, TLAPS

USE DEF Live, Zombies, InHand, BelowLimit

(* The connection in hand is of a node without a handler. *)
InHandFree == InHand => busy[NodeOf[cur]] = NoPid

-----------------------------------------------------------------------------
(* The connections of a node, which are what its queue may hold. *)
ConnsOf(n) == {c \in Conns : NodeOf[c] = n}

LEMMA QueueOfNode ==
    ASSUME QueuesOK, NEW n \in Nodes
    PROVE  queue[n] \in Seq(ConnsOf(n)) /\ queue[n] \in Seq(Conns)
  BY DEF QueuesOK, ConnsOf

(* Replacing a node's queue by connections of that node keeps QueuesOK. *)
LEMMA QueueReplaced ==
    ASSUME QueuesOK, NEW n \in Nodes,
           NEW s \in Seq(ConnsOf(n)), s \in Seq(Conns),
           queue' = [queue EXCEPT ![n] = s], backlog' \in Seq(Conns)
    PROVE  QueuesOK'
<1>1. queue' \in [Nodes -> Seq(Conns)]
  BY DEF QueuesOK
<1>2. ASSUME NEW m \in Nodes PROVE queue'[m] \in Seq(ConnsOf(m))
  <2>1. CASE m = n
    BY <2>1 DEF QueuesOK
  <2>2. CASE m # n
    <3>1. queue'[m] = queue[m]
      BY <2>2 DEF QueuesOK
    <3>. QED  BY <3>1, QueueOfNode
  <2>. QED  BY <2>1, <2>2
<1>. QED  BY <1>1, <1>2 DEF QueuesOK, ConnsOf

(* The head of a queue is a connection of its node, and the rest is one    *)
(* of its queues.                                                          *)
LEMMA QueueHead ==
    ASSUME QueuesOK, NEW n \in Nodes, queue[n] # <<>>
    PROVE  /\ Head(queue[n]) \in Conns /\ NodeOf[Head(queue[n])] = n
           /\ Tail(queue[n]) \in Seq(ConnsOf(n)) /\ Tail(queue[n]) \in Seq(Conns)
<1>1. Head(queue[n]) \in ConnsOf(n) /\ Tail(queue[n]) \in Seq(ConnsOf(n))
  BY QueueOfNode, HeadTailProperties
<1>2. Tail(queue[n]) \in Seq(Conns)
  BY QueueOfNode, HeadTailProperties
<1>. QED  BY <1>1, <1>2 DEF ConnsOf

(* A connection goes behind the queue of its node. *)
LEMMA QueueAppend ==
    ASSUME QueuesOK, NEW c \in Conns, NodeOf[c] \in Nodes
    PROVE  /\ Append(queue[NodeOf[c]], c) \in Seq(ConnsOf(NodeOf[c]))
           /\ Append(queue[NodeOf[c]], c) \in Seq(Conns)
<1>1. c \in ConnsOf(NodeOf[c])
  BY DEF ConnsOf
<1>. QED  BY <1>1, QueueOfNode, AppendProperties

(* Emptying the queues, or leaving them alone. *)
LEMMA QueuesEmptied ==
    ASSUME queue' = [n \in Nodes |-> <<>>], backlog' \in Seq(Conns)
    PROVE  QueuesOK'
  BY DEF QueuesOK

LEMMA QueuesKept ==
    ASSUME QueuesOK, UNCHANGED queue, backlog' \in Seq(Conns)
    PROVE  QueuesOK'
  BY DEF QueuesOK
-----------------------------------------------------------------------------
LEMMA QueuesInvariant == QueuesOK /\ [Next]_vars => QueuesOK'
<1> SUFFICES ASSUME QueuesOK, [Next]_vars PROVE QueuesOK'
  OBVIOUS
<1>0. backlog \in Seq(Conns)
  BY DEF QueuesOK
<1>1. ASSUME NEW n \in Nodes, dequeue_installm_request(n), UNCHANGED backlog
      PROVE  QueuesOK'
  BY <1>0, <1>1, QueueHead, QueueReplaced DEF dequeue_installm_request, Dequeueable, Queued
<1>2. CASE Loop
  BY <1>0, <1>1, <1>2, QueuesKept DEF Loop
<1>3. CASE Accept
  <2> DEFINE c == Head(backlog)
  <2>1. backlog' \in Seq(Conns) /\ c \in Conns /\ NodeOf[c] \in Nodes
    BY <1>0, <1>3, HeadTailProperties, ConstantsOK DEF ConstantsOK, Accept
  <2>2. CASE UNCHANGED queue
    BY <2>1, <2>2, QueuesKept
  <2>3. CASE queue' = [queue EXCEPT ![NodeOf[c]] = Append(@, c)]
    <3>1. queue' = [queue EXCEPT ![NodeOf[c]] = Append(queue[NodeOf[c]], c)]
      BY <2>3
    <3>. QED  BY <2>1, <3>1, QueueAppend, QueueReplaced
  <2>. QED  BY <1>3, <2>2, <2>3 DEF Accept
<1>4. CASE CommandExits \/ XExit \/ StopServing
  <2>1. <<>> \in Seq(Conns)
    OBVIOUS
  <2>2. queue' = [n \in Nodes |-> <<>>] /\ backlog' \in Seq(Conns)
    BY <1>0, <1>4, <2>1 DEF CommandExits, XExit, EndProcess, StopServing
  <2>. QED  BY <2>2, QueuesEmptied
<1>5. ASSUME NEW c \in Conns, Connect(c) PROVE QueuesOK'
  BY <1>0, <1>5, AppendProperties, QueuesKept DEF Connect, local
<1>6. CASE StandDown
  BY <1>6, QueuesKept DEF StandDown, local
<1>7. CASE UNCHANGED <<queue, backlog>>
  BY <1>0, <1>7, QueuesKept
<1>8. CASE Serve
  <2>1. CASE StartWait \/ WaitExpires \/ WaitForHandler \/ ForkFails \/ \E p \in Pids : Fork(p)
    BY <1>7, <2>1 DEF StartWait, WaitExpires, WaitForHandler, ForkFails, Fork, local
  <2>. QED  BY <1>2, <1>3, <1>8, <2>1 DEF Serve
<1>9. CASE Inline
  BY <1>4, <1>7, <1>9 DEF Inline, Command, Dispatch, CommandReturns, CommandDies,
                          ChildForkFails, InlineForksNodeset, InlineEnds, PluginReaper, local
<1>10. CASE Stop
  BY <1>4, <1>6, <1>7, <1>10 DEF Stop, Drain, DrainEnds, DrainExpires, local
<1>11. CASE Outside
  BY <1>5, <1>7, <1>11 DEF Outside, HandlerExits, StrayExits, local
<1>. QED  BY <1>7, <1>8, <1>9, <1>10, <1>11 DEF Next, vars, local

LEMMA ControlInvariant == TypeOK /\ [Next]_vars => ControlOK'
<1> SUFFICES ASSUME TypeOK, [Next]_vars PROVE ControlOK'
  OBVIOUS
<1> USE ConstantsOK DEF ConstantsOK, ControlOK
<1>1. CASE Loop
  <2>1. \A n \in Nodes : dequeue_installm_request(n) => cur' \in Conns
    BY QueueHead DEF dequeue_installm_request, Dequeueable, Queued, TypeOK
  <2>2. NoConn \notin Conns /\ ControlOK
    BY DEF TypeOK
  <2>. QED
    BY <1>1, <2>1, <2>2 DEF Loop, reap_installm_kids, KidsReaped, BusyReaped, ZombiesGone
<1>2. CASE Accept
  <2>1. backlog # <<>> => Head(backlog) \in Conns
    BY HeadTailProperties DEF TypeOK, QueuesOK
  <2>. QED  BY <1>2, <2>1 DEF Accept, local, procs, TypeOK
<1> ControlOK
  BY DEF TypeOK
<1>3. CASE StartWait \/ WaitExpires \/ ForkFails
  BY <1>3 DEF StartWait, WaitExpires, ForkFails, local, procs
<1>4. CASE WaitForHandler
  BY <1>4 DEF WaitForHandler, reap_installm_kids, KidsReaped, BusyReaped, ZombiesGone
<1>5. ASSUME NEW p \in Pids, Fork(p) PROVE ControlOK'
  BY <1>5 DEF Fork
<1>6. CASE \/ Command \/ Dispatch \/ CommandReturns \/ CommandDies
           \/ ChildForkFails \/ InlineForksNodeset \/ InlineEnds
  BY <1>6 DEF Command, Dispatch, CommandReturns, CommandDies, ChildForkFails, InlineForksNodeset,
              InlineEnds, local, procs
<1>7. CASE CommandExits \/ XExit
  BY <1>7 DEF CommandExits, XExit, EndProcess, procs
<1>8. CASE PluginReaper
  BY <1>8 DEF PluginReaper, ZombiesGone, local
<1>9. CASE StandDown \/ StopServing \/ DrainEnds \/ DrainExpires
  BY <1>9 DEF StandDown, StopServing, DrainEnds, DrainExpires, local, procs
<1>10. CASE Drain
  BY <1>10 DEF Drain, reap_installm_kids, KidsReaped, BusyReaped, ZombiesGone
<1>11. ASSUME NEW c \in Conns, Connect(c) PROVE ControlOK'
  BY <1>11 DEF Connect, local, procs
<1>12. ASSUME NEW p \in Pids, HandlerExits(p) PROVE ControlOK'
  BY <1>12 DEF HandlerExits, local
<1>13. CASE StrayExits
  BY <1>13 DEF StrayExits, local
<1>14. CASE UNCHANGED vars
  BY <1>14 DEF vars, local, procs
<1>. QED
  BY <1>1, <1>2, <1>3, <1>4, <1>5, <1>6, <1>7, <1>8, <1>9, <1>10, <1>11, <1>12,
     <1>13, <1>14 DEF Next, Serve, Inline, Stop, Outside

(* The monitor's tables keep their types, a connection is in hand exactly  *)
(* in the phases that use one, and a queue never holds a connection of     *)
(* another node.                                                           *)
THEOREM TypeCorrect == Spec => []TypeOK
<1>1. Init => TypeOK
  <2>1. Init => ControlOK
    BY DEF Init, ControlOK
  <2>2. Init => QueuesOK
    BY DEF Init, QueuesOK
  <2>. QED  BY <2>1, <2>2 DEF TypeOK
<1>2. TypeOK /\ [Next]_vars => TypeOK'
  BY QueuesInvariant, ControlInvariant DEF TypeOK
<1>. QED  BY <1>1, <1>2, PTL DEF Spec
-----------------------------------------------------------------------------
(* What the reap does to a node whose handler is still alive: nothing, and *)
(* it forgets no handler that is.                                          *)
LEMMA ReapKeepsLive ==
    ASSUME TypeOK, EveryHandlerKnown, NEW p \in Live
    PROVE  /\ KidsReaped[p] = kids[p]
           /\ BusyReaped[kids[p]] = p
<1>1. kids[p] \in Nodes /\ busy[kids[p]] = p /\ stage[p] = "live" /\ ~NoChildLeft
  BY ConstantsOK DEF ConstantsOK, EveryHandlerKnown, TypeOK, ControlOK, NoChildLeft
<1>2. ~Collected(kids[p])
  BY <1>1 DEF Collected
<1>. QED  BY <1>1, <1>2 DEF KidsReaped, BusyReaped

LEMMA ReapKnown ==
    ASSUME TypeOK, EveryHandlerKnown, reap_installm_kids
    PROVE  EveryHandlerKnown'
<1> SUFFICES ASSUME NEW p \in (Live \cup Zombies)'
             PROVE  kids'[p] = NodeOf[serves'[p]] /\ busy'[kids'[p]] = p
  BY DEF EveryHandlerKnown
<1>1. p \in Live /\ serves'[p] = serves[p]
  BY DEF reap_installm_kids, ZombiesGone, TypeOK, ControlOK
<1>2. kids'[p] = kids[p] /\ busy'[kids[p]] = p
  BY <1>1, ReapKeepsLive DEF reap_installm_kids
<1>. QED  BY <1>1, <1>2 DEF EveryHandlerKnown

(* The reap makes no node busy. *)
LEMMA ReapFrees ==
    ASSUME TypeOK, reap_installm_kids, NEW n \in Nodes, busy[n] = NoPid
    PROVE  busy'[n] = NoPid
  BY DEF reap_installm_kids, BusyReaped

(* A connection is in hand only if no handler serves its node, so the one  *)
(* forked for it is the node's only handler.                               *)
LEMMA HandInvariant ==
    TypeOK /\ InHandFree /\ [Next]_vars => InHandFree'
<1> SUFFICES ASSUME TypeOK, InHandFree, [Next]_vars, InHand'
             PROVE  busy'[NodeOf[cur']] = NoPid
  BY DEF InHandFree
<1> USE DEF InHandFree
<1>1. ASSUME NEW n \in Nodes, Loop, dequeue_installm_request(n)
      PROVE  busy'[NodeOf[cur']] = NoPid
  BY <1>1, QueueHead DEF dequeue_installm_request, Dequeueable, Queued, Loop,
                         reap_installm_kids, TypeOK
<1>2. CASE Accept
  BY <1>2 DEF Accept
<1>3. CASE WaitForHandler
  <2>1. InHand /\ NodeOf[cur] \in Nodes /\ cur' = cur
    BY <1>3, ConstantsOK DEF ConstantsOK, WaitForHandler, TypeOK, ControlOK
  <2>. QED  BY <1>3, <2>1, ReapFrees DEF WaitForHandler
<1>4. CASE UNCHANGED <<cur, busy>> /\ InHand
  BY <1>4
<1>5. CASE Serve
  BY <1>1, <1>2, <1>3, <1>4, <1>5
     DEF Serve, Loop, StartWait, WaitExpires, ForkFails, Fork, local
<1>6. CASE Inline
  BY <1>4, <1>6 DEF Inline, Command, Dispatch, CommandReturns, CommandDies, CommandExits,
                    ChildForkFails, XExit, EndProcess, InlineForksNodeset, InlineEnds,
                    PluginReaper, local
<1>7. CASE Stop \/ Outside
  BY <1>4, <1>7 DEF Stop, StandDown, StopServing, Drain, DrainEnds, DrainExpires, Outside,
                    Connect, HandlerExits, StrayExits, local
<1>8. CASE UNCHANGED vars
  BY <1>4, <1>8 DEF vars, local
<1>. QED  BY <1>5, <1>6, <1>7, <1>8 DEF Next

LEMMA KnownInvariant ==
    TypeOK /\ InHandFree /\ EveryHandlerKnown /\ [Next]_vars => EveryHandlerKnown'
<1> SUFFICES ASSUME TypeOK, InHandFree, EveryHandlerKnown, [Next]_vars
             PROVE  EveryHandlerKnown'
  OBVIOUS
<1>1. CASE reap_installm_kids
  BY <1>1, ReapKnown
<1>2. ASSUME NEW p \in Pids, Fork(p) PROVE EveryHandlerKnown'
  <2>1. /\ cur \in Conns /\ NodeOf[cur] \in Nodes /\ busy[NodeOf[cur]] = NoPid
        /\ stage[p] = "none" /\ cur # NoConn
    BY <1>2, ConstantsOK DEF ConstantsOK, Fork, InHandFree, TypeOK, ControlOK
  <2>2. /\ kids' = [kids EXCEPT ![p] = NodeOf[cur]]
        /\ busy' = [busy EXCEPT ![NodeOf[cur]] = p]
        /\ stage' = [stage EXCEPT ![p] = "live"]
        /\ serves' = [serves EXCEPT ![p] = cur]
    BY <1>2 DEF Fork
  <2> SUFFICES ASSUME NEW q \in (Live \cup Zombies)'
               PROVE  kids'[q] = NodeOf[serves'[q]] /\ busy'[kids'[q]] = q
    BY DEF EveryHandlerKnown
  <2>3. CASE q = p
    BY <2>1, <2>2, <2>3 DEF TypeOK, ControlOK
  <2>4. CASE q # p
    <3>1. q \in Live \cup Zombies /\ kids'[q] = kids[q] /\ serves'[q] = serves[q]
      BY <2>2, <2>4 DEF TypeOK, ControlOK
    <3>2. busy[kids[q]] = q /\ q # NoPid
      BY <3>1, ConstantsOK DEF ConstantsOK, EveryHandlerKnown
    <3>3. kids[q] \in Nodes
      BY <3>1, ConstantsOK DEF ConstantsOK, EveryHandlerKnown, TypeOK, ControlOK
    <3>4. kids[q] # NodeOf[cur]
      BY <2>1, <3>2
    <3>. QED  BY <2>1, <2>2, <3>1, <3>2, <3>3, <3>4 DEF EveryHandlerKnown, TypeOK, ControlOK
  <2>. QED  BY <2>3, <2>4
<1>3. CASE UNCHANGED <<kids, busy, stage, serves>>
  BY <1>3 DEF EveryHandlerKnown
<1>4. CASE PluginReaper
  BY <1>4 DEF PluginReaper, ZombiesGone, EveryHandlerKnown, local, TypeOK, ControlOK
<1>5. ASSUME NEW p \in Pids, HandlerExits(p) PROVE EveryHandlerKnown'
  BY <1>5 DEF HandlerExits, EveryHandlerKnown, local, TypeOK, ControlOK
<1>6. CASE StrayExits \/ InlineForksNodeset
  BY <1>3, <1>6 DEF StrayExits, InlineForksNodeset, local
<1>7. CASE Serve
  BY <1>1, <1>2, <1>3, <1>7 DEF Serve, Loop, StartWait, WaitExpires, Accept, WaitForHandler,
                                ForkFails, local, procs
<1>8. CASE Inline
  BY <1>3, <1>4, <1>6, <1>8 DEF Inline, Command, Dispatch, CommandReturns, CommandDies,
                                CommandExits, ChildForkFails, XExit, InlineEnds, local, procs
<1>9. CASE Stop
  BY <1>1, <1>3, <1>9 DEF Stop, StandDown, StopServing, Drain, DrainEnds, DrainExpires, local, procs
<1>10. CASE Outside
  BY <1>3, <1>5, <1>6, <1>10 DEF Outside, Connect, local, procs
<1>. QED  BY <1>3, <1>7, <1>8, <1>9, <1>10 DEF Next, vars, local, procs

(* A connection is queued only behind a node that the tables call busy.    *)
QueuedBusy == pc \in {"poll", "wait"} => \A n \in Queued : busy[n] # NoPid

LEMMA BehindInvariant ==
    TypeOK /\ QueuedBusy /\ [Next]_vars => QueuedBusy'
<1> SUFFICES ASSUME TypeOK, QueuedBusy, [Next]_vars, pc' \in {"poll", "wait"},
                    NEW n \in Nodes, queue'[n] # <<>>
             PROVE  busy'[n] # NoPid
  BY DEF QueuedBusy, Queued
<1> USE DEF QueuedBusy, Queued
<1>1. CASE Loop
  BY <1>1 DEF Loop, Dequeueable, reap_installm_kids
<1>2. CASE pc \in {"poll", "wait"} /\ UNCHANGED <<queue, busy>>
  BY <1>2
<1>3. CASE Serve
  BY <1>1, <1>2, <1>3 DEF Serve, StartWait, WaitExpires, Accept, WaitForHandler, ForkFails,
                          Fork, local
<1>4. CASE Inline
  BY <1>2, <1>4 DEF Inline, Command, Dispatch, CommandReturns, CommandDies, CommandExits,
                    ChildForkFails, XExit, EndProcess, InlineForksNodeset, InlineEnds,
                    PluginReaper, local
<1>5. CASE Stop \/ Outside
  BY <1>2, <1>5 DEF Stop, StandDown, StopServing, Drain, DrainEnds, DrainExpires, Outside,
                    Connect, HandlerExits, StrayExits, local
<1>6. CASE UNCHANGED vars
  BY <1>2, <1>6 DEF vars, local
<1>. QED  BY <1>3, <1>4, <1>5, <1>6 DEF Next
-----------------------------------------------------------------------------
(* The inductive invariant.  EveryHandlerKnown needs InHandFree: a fork    *)
(* for a node that has a handler would overwrite its entry in              *)
(* %installm_busy.                                                         *)
Inv == TypeOK /\ InHandFree /\ EveryHandlerKnown /\ QueuedBusy

LEMMA Invariant == Spec => []Inv
<1>1. Init => InHandFree /\ EveryHandlerKnown /\ QueuedBusy
  BY DEF Init, InHandFree, EveryHandlerKnown, QueuedBusy, Queued
<1>2. /\ TypeOK /\ InHandFree /\ EveryHandlerKnown /\ QueuedBusy
      /\ [Next]_vars
      => InHandFree' /\ EveryHandlerKnown' /\ QueuedBusy'
  BY HandInvariant, KnownInvariant, BehindInvariant
<1>. QED  BY <1>1, <1>2, TypeCorrect, PTL DEF Spec, Inv

(* No handler is forgotten or mistaken for another node's, whatever a      *)
(* plugin reaps behind the monitor's back and however pids are reused.     *)
THEOREM HandlersKnown == Spec => []EveryHandlerKnown
  BY Invariant, PTL DEF Inv

(* While no fork fails nobody serves in line, so no other reaper runs, and *)
(* what %installm_busy names is a handler of that node.                    *)
NoneStale ==
    ~ForkMayFail =>
        /\ pc \notin {"inline", "command", "xexit"}
        /\ sigchld = "noop"
        /\ \A n \in Nodes : ~Stale(n)

LEMMA NoneStaleInvariant ==
    TypeOK /\ NoneStale /\ [Next]_vars => NoneStale'
<1> SUFFICES ASSUME TypeOK, NoneStale, [Next]_vars, ~ForkMayFail
             PROVE  NoneStale'
  BY DEF NoneStale
<1>0. /\ pc \notin {"inline", "command", "xexit"} /\ sigchld = "noop"
      /\ \A n \in Nodes : busy[n] # NoPid => stage[busy[n]] # "none" /\ kids[busy[n]] = n
  BY DEF NoneStale, Stale
<1>1. ASSUME UNCHANGED <<kids, busy, sigchld>>, pc' \notin {"inline", "command", "xexit"},
             \A p \in Pids : stage[p] # "none" => stage'[p] # "none"
      PROVE  NoneStale'
  BY <1>0, <1>1 DEF NoneStale, Stale, TypeOK, ControlOK
<1>2. ASSUME reap_installm_kids, pc' \notin {"inline", "command", "xexit"}, UNCHANGED sigchld
      PROVE  NoneStale'
  <2> SUFFICES ASSUME NEW n \in Nodes, busy'[n] # NoPid
               PROVE  stage'[busy'[n]] # "none" /\ kids'[busy'[n]] = n
    BY <1>0, <1>2 DEF NoneStale, Stale
  <2>1. /\ busy'[n] = busy[n] /\ ~NoChildLeft /\ ~Collected(n)
        /\ busy[n] \in Pids /\ stage[busy[n]] # "none" /\ kids[busy[n]] = n
    BY <1>0, <1>2 DEF reap_installm_kids, BusyReaped, TypeOK, ControlOK
  <2>2. stage[busy[n]] # "zombie"
    BY <2>1 DEF Collected
  <2>. QED
    BY <1>2, <2>1, <2>2 DEF reap_installm_kids, KidsReaped, ZombiesGone, TypeOK, ControlOK
<1>3. ASSUME NEW p \in Pids, Fork(p) PROVE NoneStale'
  <2>1. /\ NodeOf[cur] \in Nodes /\ stage[p] = "none" /\ p # NoPid
        /\ kids' = [kids EXCEPT ![p] = NodeOf[cur]]
        /\ busy' = [busy EXCEPT ![NodeOf[cur]] = p]
        /\ stage' = [stage EXCEPT ![p] = "live"]
        /\ pc' = "top" /\ sigchld' = sigchld
    BY <1>3, ConstantsOK DEF ConstantsOK, Fork, TypeOK, ControlOK
  <2> SUFFICES ASSUME NEW n \in Nodes, busy'[n] # NoPid
               PROVE  stage'[busy'[n]] # "none" /\ kids'[busy'[n]] = n
    BY <1>0, <2>1 DEF NoneStale, Stale
  <2>2. CASE n = NodeOf[cur]
    BY <2>1, <2>2 DEF TypeOK, ControlOK
  <2>3. CASE n # NodeOf[cur]
    <3>1. busy'[n] = busy[n] /\ busy[n] \in Pids /\ busy[n] # p /\ stage[busy[n]] # "none"
          /\ kids[busy[n]] = n
      BY <1>0, <2>1, <2>3 DEF TypeOK, ControlOK
    <3>. QED  BY <2>1, <3>1 DEF TypeOK, ControlOK
  <2>. QED  BY <2>2, <2>3
<1>4. CASE Serve
  <2>1. CASE Loop \/ WaitForHandler
    BY <1>0, <1>2, <2>1 DEF Loop, WaitForHandler
  <2>2. CASE StartWait \/ WaitExpires \/ Accept
    BY <1>0, <1>1, <2>2 DEF StartWait, WaitExpires, Accept, local, procs
  <2>. QED  BY <1>3, <1>4, <2>1, <2>2 DEF Serve, ForkFails
<1>5. ~Inline
  BY <1>0 DEF Inline, Command, Dispatch, CommandReturns, CommandDies, CommandExits,
              ChildForkFails, XExit, InlineForksNodeset, InlineEnds, PluginReaper
<1>6. CASE Stop
  <2>1. CASE Drain
    BY <1>0, <1>2, <2>1 DEF Drain
  <2>. QED
    BY <1>0, <1>1, <1>6, <2>1 DEF Stop, StandDown, StopServing, DrainEnds, DrainExpires,
                                  local, procs
<1>7. CASE Outside
  BY <1>0, <1>1, <1>7 DEF Outside, Connect, HandlerExits, StrayExits, local, procs, TypeOK, ControlOK
<1>8. CASE UNCHANGED vars
  BY <1>0, <1>1, <1>8 DEF vars, local, procs
<1>. QED  BY <1>4, <1>5, <1>6, <1>7, <1>8 DEF Next

(* The monitor never goes to sleep over a queued connection whose node has *)
(* no handler, unless a plugin's reaper took the handler after a failed    *)
(* fork and the tables still name it.                                      *)
THEOREM NoConnectionLeft == Spec => []NoneLeftBehind
<1>1. Init => NoneStale
  BY DEF Init, NoneStale, Stale
<1>2. Inv /\ NoneStale /\ [Next]_vars => NoneStale'
  BY NoneStaleInvariant DEF Inv
<1>3. Inv /\ NoneStale => NoneLeftBehind
  <2> SUFFICES ASSUME Inv, NoneStale, pc \in {"poll", "wait"}, NEW n \in Queued
               PROVE  Uncollected(n) # {} \/ (ForkMayFail /\ Stale(n))
    BY DEF NoneLeftBehind
  <2>1. n \in Nodes /\ busy[n] \in Pids
    BY DEF Inv, QueuedBusy, Queued, TypeOK, ControlOK
  <2>2. CASE Stale(n)
    BY <2>1, <2>2 DEF NoneStale
  <2>3. CASE ~Stale(n)
    <3>1. busy[n] \in Live \cup Zombies /\ kids[busy[n]] = n
      BY <2>1, <2>3, ConstantsOK DEF ConstantsOK, Stale, Inv, TypeOK, ControlOK
    <3>2. NodeOf[serves[busy[n]]] = n
      BY <3>1 DEF Inv, EveryHandlerKnown
    <3>. QED  BY <3>1, <3>2 DEF Uncollected
  <2>. QED  BY <2>2, <2>3
<1>. QED  BY <1>1, <1>2, <1>3, Invariant, PTL DEF Spec

(* A drain that ends before its bound leaves no handler running.           *)
THEOREM DrainComplete == Spec => DrainWaits
<1>1. Inv /\ [Next]_vars => [pc = "drain" /\ DrainEnds => Live = {}]_vars
  <2> SUFFICES ASSUME Inv, DrainEnds, NEW p \in Live PROVE FALSE
    OBVIOUS
  <2>1. kids[p] = NoNode
    BY DEF DrainEnds, Tracked
  <2>. QED
    BY <2>1, ConstantsOK DEF ConstantsOK, Inv, EveryHandlerKnown, TypeOK, ControlOK
<1>. QED  BY <1>1, Invariant, PTL DEF Spec, DrainWaits
-----------------------------------------------------------------------------
(* At most MaxKids pids are tracked: the fork is behind the limit, and a   *)
(* reap only forgets.                                                      *)
TrackLimit == Cardinality(Tracked) <= MaxKids

LEMMA TrackedFinite == IsFiniteSet(Tracked) /\ Cardinality(Tracked) \in Nat
  BY ConstantsOK, FS_Subset, FS_CardinalityType DEF ConstantsOK, Tracked

LEMMA LimitInvariant == TypeOK /\ TrackLimit /\ [Next]_vars => TrackLimit'
<1> SUFFICES ASSUME TypeOK, TrackLimit, [Next]_vars PROVE Cardinality(Tracked') <= MaxKids
  BY DEF TrackLimit
<1>0. MaxKids \in Nat /\ Cardinality(Tracked) \in Nat /\ IsFiniteSet(Tracked)
  BY ConstantsOK, TrackedFinite DEF ConstantsOK
<1>1. ASSUME Tracked' \subseteq Tracked PROVE Cardinality(Tracked') <= MaxKids
  <2>1. Cardinality(Tracked') <= Cardinality(Tracked) /\ Cardinality(Tracked') \in Nat
    BY <1>0, <1>1, FS_Subset, FS_CardinalityType
  <2>. QED  BY <1>0, <2>1 DEF TrackLimit
<1>2. CASE reap_installm_kids
  BY <1>1, <1>2 DEF reap_installm_kids, KidsReaped, Tracked
<1>3. CASE UNCHANGED kids
  BY <1>1, <1>3 DEF Tracked
<1>4. ASSUME NEW p \in Pids, Fork(p) PROVE Cardinality(Tracked') <= MaxKids
  <2>1. Tracked' \subseteq Tracked \cup {p}
    BY <1>4 DEF Fork, Tracked, TypeOK, ControlOK
  <2>2. /\ IsFiniteSet(Tracked \cup {p})
        /\ Cardinality(Tracked \cup {p}) <= Cardinality(Tracked) + 1
        /\ Cardinality(Tracked \cup {p}) \in Nat
    <3>1. /\ IsFiniteSet(Tracked \cup {p})
          /\ \/ Cardinality(Tracked \cup {p}) = Cardinality(Tracked)
             \/ Cardinality(Tracked \cup {p}) = Cardinality(Tracked) + 1
      BY <1>0, FS_AddElement
    <3>. QED  BY <1>0, <3>1
  <2>3. /\ Cardinality(Tracked') <= Cardinality(Tracked \cup {p})
        /\ Cardinality(Tracked') \in Nat
    BY <2>1, <2>2, FS_Subset, FS_CardinalityType
  <2>4. Cardinality(Tracked) < MaxKids
    BY <1>4 DEF Fork
  <2>. QED  BY <1>0, <2>2, <2>3, <2>4
<1>5. CASE Serve
  BY <1>2, <1>3, <1>4, <1>5 DEF Serve, Loop, StartWait, WaitExpires, Accept, WaitForHandler,
                                ForkFails, local
<1>6. CASE Inline
  BY <1>3, <1>6 DEF Inline, Command, Dispatch, CommandReturns, CommandDies, CommandExits,
                    ChildForkFails, XExit, InlineForksNodeset, InlineEnds, PluginReaper, local
<1>7. CASE Stop
  BY <1>2, <1>3, <1>7 DEF Stop, StandDown, StopServing, Drain, DrainEnds, DrainExpires, local
<1>8. CASE Outside
  BY <1>3, <1>8 DEF Outside, Connect, HandlerExits, StrayExits, local
<1>. QED  BY <1>3, <1>5, <1>6, <1>7, <1>8 DEF Next, vars, local

(* The monitor never has more than $installm_maxkids handlers it has not   *)
(* collected.                                                              *)
THEOREM HandlersLimited == Spec => []HandlerLimit
<1>1. Init => TrackLimit
  <2>1. Init => Tracked = {}
    BY DEF Init, Tracked
  <2>2. Cardinality({}) = 0 /\ MaxKids \in Nat
    BY FS_EmptySet, ConstantsOK DEF ConstantsOK
  <2>. QED  BY <2>1, <2>2 DEF TrackLimit
<1>2. Inv /\ TrackLimit => HandlerLimit
  <2> SUFFICES ASSUME Inv, TrackLimit PROVE Cardinality(Live \cup Zombies) <= MaxKids
    BY DEF HandlerLimit
  <2>1. Live \cup Zombies \subseteq Tracked
    BY ConstantsOK DEF ConstantsOK, Inv, EveryHandlerKnown, Tracked, TypeOK, ControlOK
  <2>2. /\ Cardinality(Live \cup Zombies) <= Cardinality(Tracked)
        /\ Cardinality(Live \cup Zombies) \in Nat
    BY <2>1, TrackedFinite, FS_Subset, FS_CardinalityType
  <2>. QED  BY <2>2, TrackedFinite, ConstantsOK DEF ConstantsOK, TrackLimit
<1>. QED  BY <1>1, <1>2, LimitInvariant, Invariant, PTL DEF Spec, Inv
-----------------------------------------------------------------------------
(* The monitor implements NodeService.  A step is judged by what it does   *)
(* to Pending and Serving; ServingIs says what Serving is without its      *)
(* CHOOSE: a node has one handler at most, and none while the monitor      *)
(* answers it in line.                                                     *)
ServingIs ==
    /\ Serving = [n \in Nodes |-> Serving[n]]
    /\ \A n \in Nodes :
        /\ Inlined(n) => Serving[n] = cur
        /\ ~Inlined(n) /\ HandlersOf(n) = {} => Serving[n] = NoConn
        /\ \A p \in HandlersOf(n) :
            /\ ~Inlined(n) /\ HandlersOf(n) = {p}
            /\ Serving[n] = serves[p] /\ busy[n] = p

LEMMA ServingKnown == Inv => ServingIs
<1> SUFFICES ASSUME Inv PROVE ServingIs
  OBVIOUS
<1>1. Serving = [n \in Nodes |-> Serving[n]]
  BY DEF Serving
<1>2. ASSUME NEW n \in Nodes, Inlined(n) PROVE Serving[n] = cur
  BY <1>2 DEF Serving
<1>3. ASSUME NEW n \in Nodes, ~Inlined(n), HandlersOf(n) = {} PROVE Serving[n] = NoConn
  BY <1>3 DEF Serving
<1>4. ASSUME NEW n \in Nodes, NEW p \in HandlersOf(n)
      PROVE  /\ ~Inlined(n) /\ HandlersOf(n) = {p}
             /\ Serving[n] = serves[p] /\ busy[n] = p
  <2>1. \A q \in HandlersOf(n) : busy[n] = q
    BY DEF HandlersOf, Inv, EveryHandlerKnown
  <2>2. HandlersOf(n) = {p}
    BY <2>1
  <2>3. ~Inlined(n)
    BY <2>1, ConstantsOK DEF ConstantsOK, Inlined, Inv, InHandFree, HandlersOf
  <2>4. (CHOOSE q \in HandlersOf(n) : TRUE) = p
    BY <2>2
  <2>5. Serving[n] = serves[CHOOSE q \in HandlersOf(n) : TRUE]
    BY <2>2, <2>3 DEF Serving
  <2>. QED  BY <2>1, <2>2, <2>3, <2>4, <2>5
<1>. QED  BY <1>1, <1>2, <1>3, <1>4 DEF ServingIs

(* A step that leaves a node's handlers, what they serve and the in-line   *)
(* answer alone leaves the node's answer alone.                            *)
SameHandlers(n) ==
    /\ HandlersOf(n)' = HandlersOf(n)
    /\ \A p \in HandlersOf(n) : serves'[p] = serves[p]

LEMMA ServingKept ==
    ASSUME ServingIs, ServingIs', NEW n \in Nodes, SameHandlers(n),
           Inlined(n)' <=> Inlined(n), Inlined(n) => cur' = cur
    PROVE  Serving'[n] = Serving[n]
<1>1. CASE Inlined(n)
  BY <1>1 DEF ServingIs
<1>2. CASE ~Inlined(n) /\ HandlersOf(n) = {}
  BY <1>2 DEF ServingIs, SameHandlers
<1>3. CASE HandlersOf(n) # {}
  <2>1. PICK p \in HandlersOf(n) : TRUE
    BY <1>3
  <2>2. p \in HandlersOf(n)' /\ serves'[p] = serves[p]
    BY DEF SameHandlers
  <2>. QED  BY <2>1, <2>2 DEF ServingIs
<1>. QED  BY <1>1, <1>2, <1>3

(* Which handlers stay the same: those of a step that keeps the live ones. *)
LEMMA LiveKept ==
    ASSUME Live' = Live, \A p \in Live : serves'[p] = serves[p], NEW n \in Nodes
    PROVE  SameHandlers(n)
  BY DEF SameHandlers, HandlersOf

LEMMA ReapKeepsHandlers ==
    ASSUME TypeOK, ZombiesGone
    PROVE  Live' = Live /\ \A p \in Live : serves'[p] = serves[p]
  BY DEF ZombiesGone, TypeOK, ControlOK

(* A step that answers nobody: only the queue of the node whose connection *)
(* it takes may change.                                                    *)
LEMMA AnswersKept ==
    ASSUME ServingIs, ServingIs',
           Live' = Live, \A p \in Live : serves'[p] = serves[p],
           \A n \in Nodes : Inlined(n)' <=> Inlined(n),
           \A n \in Nodes : Inlined(n) => cur' = cur
    PROVE  Serving' = Serving
<1>1. \A n \in Nodes : Serving'[n] = Serving[n]
  BY LiveKept, ServingKept
<1>. QED  BY <1>1 DEF ServingIs

(* Steps of the monitor that mean nothing to its nodes. *)
Busied == pc \in {"inline", "command", "xexit"}

LEMMA QuietStep ==
    ASSUME ServingIs, ServingIs',
           Live' = Live, \A p \in Live : serves'[p] = serves[p],
           UNCHANGED <<queue, cur>>,
           (pc' = "cap") <=> (pc = "cap"), Busied' <=> Busied
    PROVE  UNCHANGED Service!vars
<1>1. \A n \in Nodes : Inlined(n)' <=> Inlined(n)
  BY DEF Inlined, Busied
<1>2. Serving' = Serving
  BY <1>1, AnswersKept
<1>3. Pending' = Pending
  BY DEF Pending
<1>. QED  BY <1>2, <1>3 DEF Service!vars

(* A connection in hand and the queue behind it.                           *)
LEMMA HandAndQueue ==
    ASSUME NEW c \in Conns, NEW s \in Seq(Conns)
    PROVE  /\ <<c>> \o s # <<>> /\ Head(<<c>> \o s) = c /\ Tail(<<c>> \o s) = s
           /\ <<c>> \o <<>> = Append(<<>>, c)
<1>1. <<c>> \o s # <<>> /\ Head(<<c>> \o s) = c
  OBVIOUS
<1>2. Tail(<<c>> \o s) = s
  OBVIOUS
<1>3. <<c>> \o <<>> = Append(<<>>, c)
  OBVIOUS
<1>. QED  BY <1>1, <1>2, <1>3

(* A step by which nobody begins to answer, and a node's answer may end.   *)
LEMMA FinishStep ==
    ASSUME ServingIs, ServingIs', NEW n \in Nodes,
           Serving[n] # NoConn, Serving'[n] = NoConn, Pending' = Pending,
           \A m \in Nodes \ {n} : Serving'[m] = Serving[m]
    PROVE  Service!Next
<1>1. Serving' = [Serving EXCEPT ![n] = NoConn]
  BY DEF ServingIs
<1>2. Service!Finish(n)
  BY <1>1 DEF Service!Finish
<1>. QED  BY <1>2 DEF Service!Next

(* A connection in hand is taken up, by a handler or in line.              *)
LEMMA BeginStep ==
    ASSUME Inv, ServingIs', pc = "cap", pc' # "cap", UNCHANGED queue,
           Serving'[NodeOf[cur]] = cur,
           \A m \in Nodes \ {NodeOf[cur]} : Serving'[m] = Serving[m]
    PROVE  Service!Next
<1> DEFINE n == NodeOf[cur]
<1>0. ServingIs
  BY ServingKnown
<1>1. cur \in Conns /\ n \in Nodes /\ busy[n] = NoPid
  BY ConstantsOK DEF ConstantsOK, Inv, TypeOK, ControlOK, InHandFree
<1>2. Serving[n] = NoConn
  <2>1. HandlersOf(n) = {}
    BY <1>0, <1>1, ConstantsOK DEF ConstantsOK, ServingIs, HandlersOf
  <2>2. ~Inlined(n)
    BY DEF Inlined
  <2>. QED  BY <1>0, <1>1, <2>1, <2>2 DEF ServingIs
<1>3. queue[n] \in Seq(Conns)
  BY <1>1, QueueOfNode DEF Inv, TypeOK
<1>4. Pending[n] = <<cur>> \o queue[n]
  BY <1>1 DEF Pending
<1>5. Pending[n] # <<>> /\ Head(Pending[n]) = cur /\ Tail(Pending[n]) = queue[n]
  BY <1>1, <1>3, <1>4, HandAndQueue
<1>6. Serving' = [Serving EXCEPT ![n] = Head(Pending[n])]
  BY <1>0, <1>1, <1>5 DEF ServingIs
<1>7. Pending' = [Pending EXCEPT ![n] = Tail(@)]
  <2>1. Pending' = [m \in Nodes |-> queue[m]]
    BY DEF Pending
  <2>2. Pending = [m \in Nodes |-> IF m = n THEN <<cur>> \o queue[m] ELSE queue[m]]
    BY DEF Pending
  <2>. QED  BY <1>1, <1>5, <2>1, <2>2
<1>8. Service!Begin(n)
  BY <1>2, <1>5, <1>6, <1>7 DEF Service!Begin
<1>. QED  BY <1>1, <1>8 DEF Service!Next

(* The process ends, or stops serving: what nobody answers is closed.      *)
LEMMA CloseStep ==
    ASSUME ServingIs, ServingIs', queue' = [n \in Nodes |-> <<>>], pc' # "cap",
           \A n \in Nodes : Serving'[n] \in {Serving[n], NoConn},
           \A m, n \in Nodes : Serving'[m] # Serving[m] /\ Serving'[n] # Serving[n] => m = n
    PROVE  Service!Next
<1>1. Pending' = [n \in Nodes |-> <<>>]
  BY DEF Pending
<1>2. CASE \A n \in Nodes : Serving'[n] = Serving[n]
  <2>1. Serving' = Serving
    BY <1>2 DEF ServingIs
  <2>. QED  BY <1>1, <2>1 DEF Service!Next, Service!Close
<1>3. CASE \E n \in Nodes : Serving'[n] # Serving[n]
  <2>1. PICK n \in Nodes : Serving'[n] # Serving[n]
    BY <1>3
  <2>2. Serving' = [Serving EXCEPT ![n] = NoConn]
    BY <2>1 DEF ServingIs
  <2>. QED  BY <1>1, <2>2 DEF Service!Next, Service!Close
<1>. QED  BY <1>2, <1>3

(* A queued connection whose node is free comes into the monitor's hand:   *)
(* it is still the node's oldest.                                          *)
LEMMA DequeueStep ==
    ASSUME Inv, ServingIs', Loop, NEW n \in Nodes, dequeue_installm_request(n), pc' = "cap"
    PROVE  UNCHANGED Service!vars
<1>1. /\ Live' = Live /\ \A p \in Live : serves'[p] = serves[p]
  BY ReapKeepsHandlers DEF Loop, reap_installm_kids, Inv
<1>2. \A m \in Nodes : ~Inlined(m) /\ ~Inlined(m)'
  BY DEF Loop, Inlined
<1>3. Serving' = Serving
  BY <1>1, <1>2, AnswersKept, ServingKnown
<1>4. /\ queue[n] # <<>> /\ queue[n] \in Seq(Conns)
      /\ cur' = Head(queue[n]) /\ NodeOf[cur'] = n
      /\ queue' = [queue EXCEPT ![n] = Tail(@)] /\ queue \in [Nodes -> Seq(Conns)]
  BY QueueHead, QueueOfNode
     DEF dequeue_installm_request, Dequeueable, Queued, Inv, TypeOK, QueuesOK
<1>5. <<cur'>> \o queue'[n] = queue[n]
  <2>1. queue'[n] = Tail(queue[n])
    BY <1>4
  <2>2. ASSUME NEW s \in Seq(Conns), s # <<>> PROVE <<Head(s)>> \o Tail(s) = s
    BY <2>2
  <2>. QED  BY <1>4, <2>1, <2>2
<1>6. Pending' = Pending
  <2>1. Pending = [m \in Nodes |-> queue[m]]
    BY DEF Pending, Loop
  <2>2. Pending' = [m \in Nodes |-> IF n = m THEN <<cur'>> \o queue'[m] ELSE queue'[m]]
    BY <1>4 DEF Pending
  <2>3. \A m \in Nodes : m # n => queue'[m] = queue[m]
    BY <1>4
  <2>. QED  BY <1>5, <2>1, <2>2, <2>3
<1>. QED  BY <1>3, <1>6 DEF Service!vars

(* An accepted connection is closed, or goes behind those of its node, of  *)
(* which there are none when it comes into the monitor's hand.             *)
LEMMA AcceptStep ==
    ASSUME Inv, ServingIs', Accept
    PROVE  [Service!Next]_(Service!vars)
<1> DEFINE c == Head(backlog)
           n == NodeOf[c]
<1>0. ServingIs
  BY ServingKnown
<1>1. c \in Conns /\ n \in Nodes
  BY HeadTailProperties, ConstantsOK DEF ConstantsOK, Accept, Inv, TypeOK, QueuesOK
<1>2. Live' = Live /\ \A p \in Live : serves'[p] = serves[p]
  BY DEF Accept, procs
<1>3. \A m \in Nodes : ~Inlined(m) /\ ~Inlined(m)'
  BY DEF Accept, Inlined
<1>4. Serving' = Serving
  BY <1>0, <1>2, <1>3, AnswersKept
<1>5. Pending = [m \in Nodes |-> queue[m]]
  BY DEF Pending, Accept
<1>6. queue \in [Nodes -> Seq(Conns)]
  BY DEF Inv, TypeOK, QueuesOK
<1>7. CASE pc' = "top" /\ UNCHANGED queue
  <2>1. Pending' = Pending
    BY <1>5, <1>7 DEF Pending
  <2>. QED  BY <1>4, <2>1 DEF Service!vars
<1>8. CASE pc' = "top" /\ queue' = [queue EXCEPT ![n] = Append(@, c)]
  <2>1. Pending' = [m \in Nodes |-> queue'[m]]
    BY <1>8 DEF Pending
  <2>2. Pending' = [Pending EXCEPT ![n] = Append(@, c)]
    BY <1>1, <1>5, <1>6, <1>8, <2>1
  <2>3. Service!Accept(c)
    BY <1>4, <2>2 DEF Service!Accept
  <2>. QED  BY <1>1, <2>3 DEF Service!Next
<1>9. CASE busy[n] = NoPid /\ cur' = c /\ pc' = "cap" /\ UNCHANGED queue
  <2>1. queue[n] = <<>>
    BY <1>1, <1>9 DEF Accept, Inv, QueuedBusy, Queued
  <2>2. Pending' = [m \in Nodes |-> IF n = m THEN <<c>> \o queue[m] ELSE queue[m]]
    BY <1>9 DEF Pending
  <2>3. <<c>> \o queue[n] = Append(queue[n], c)
    BY <1>1, <1>6, <2>1, HandAndQueue
  <2>4. Pending' = [Pending EXCEPT ![n] = Append(@, c)]
    BY <1>1, <1>5, <2>2, <2>3
  <2>5. Service!Accept(c)
    BY <1>4, <2>4 DEF Service!Accept
  <2>. QED  BY <1>1, <2>5 DEF Service!Next
<1>. QED  BY <1>7, <1>8, <1>9 DEF Accept

(* The forked handler, or the monitor itself, takes up the connection in   *)
(* hand; nobody else's answer changes.                                     *)
LEMMA ForkStep ==
    ASSUME Inv, ServingIs', NEW p \in Pids, Fork(p)
    PROVE  Service!Next
<1>0. ServingIs
  BY ServingKnown
<1>1. PICK n \in Nodes : n = NodeOf[cur] /\ cur \in Conns /\ stage[p] = "none"
  BY ConstantsOK DEF ConstantsOK, Fork, Inv, TypeOK, ControlOK
<1>2. Live' = Live \cup {p} /\ p \notin Live
  BY <1>1 DEF Fork, Inv, TypeOK, ControlOK
<1>3. serves'[p] = cur /\ \A q \in Live : serves'[q] = serves[q]
  BY <1>1 DEF Fork, Inv, TypeOK, ControlOK
<1>4. Serving'[n] = cur
  <2>1. p \in HandlersOf(n)'
    BY <1>1, <1>2, <1>3 DEF HandlersOf
  <2>. QED  BY <1>1, <1>3, <2>1 DEF ServingIs
<1>5. ASSUME NEW m \in Nodes \ {n} PROVE Serving'[m] = Serving[m]
  <2>1. HandlersOf(m)' = HandlersOf(m)
    BY <1>1, <1>2, <1>3 DEF HandlersOf
  <2>2. SameHandlers(m)
    BY <1>3, <2>1 DEF SameHandlers, HandlersOf
  <2>3. ~Inlined(m) /\ ~Inlined(m)'
    BY DEF Fork, Inlined
  <2>. QED  BY <1>0, <2>2, <2>3, ServingKept
<1>6. pc = "cap" /\ pc' # "cap" /\ UNCHANGED queue
  BY DEF Fork
<1>. QED  BY <1>1, <1>4, <1>5, <1>6, BeginStep

LEMMA ForkFailsStep ==
    ASSUME Inv, ServingIs', ForkFails
    PROVE  Service!Next
<1>0. ServingIs
  BY ServingKnown
<1>1. PICK n \in Nodes : n = NodeOf[cur] /\ cur \in Conns
  BY ConstantsOK DEF ConstantsOK, ForkFails, Inv, TypeOK, ControlOK
<1>2. pc = "cap" /\ pc' = "inline" /\ UNCHANGED <<queue, cur, stage, serves>>
  BY DEF ForkFails, local, procs
<1>3. Serving'[n] = cur
  <2>1. Inlined(n)'
    BY <1>1, <1>2 DEF Inlined
  <2>. QED  BY <1>1, <1>2, <2>1 DEF ServingIs
<1>4. ASSUME NEW m \in Nodes \ {n} PROVE Serving'[m] = Serving[m]
  <2>1. SameHandlers(m)
    BY <1>2, LiveKept
  <2>2. ~Inlined(m) /\ ~Inlined(m)'
    BY <1>1, <1>2 DEF Inlined
  <2>. QED  BY <1>0, <2>1, <2>2, ServingKept
<1>. QED  BY <1>1, <1>2, <1>3, <1>4, BeginStep

(* The in-line answer ends: alone, or with everything that waits.          *)
LEMMA InlineOver ==
    ASSUME Inv, ServingIs', Busied, ~Busied', UNCHANGED <<stage, serves>>
    PROVE  /\ cur \in Conns /\ NodeOf[cur] \in Nodes
           /\ Serving[NodeOf[cur]] = cur /\ Serving'[NodeOf[cur]] = NoConn
           /\ \A m \in Nodes \ {NodeOf[cur]} : Serving'[m] = Serving[m]
<1>0. ServingIs
  BY ServingKnown
<1>1. PICK n \in Nodes : n = NodeOf[cur] /\ cur \in Conns
  BY ConstantsOK DEF ConstantsOK, Busied, Inv, TypeOK, ControlOK
<1>2. Inlined(n) /\ \A m \in Nodes : ~Inlined(m)'
  BY <1>1 DEF Busied, Inlined
<1>3. \A m \in Nodes : SameHandlers(m)
  BY LiveKept
<1>4. HandlersOf(n)' = {}
  BY <1>0, <1>1, <1>2, <1>3 DEF ServingIs, SameHandlers
<1>5. Serving[n] = cur /\ Serving'[n] = NoConn
  BY <1>0, <1>1, <1>2, <1>4 DEF ServingIs
<1>6. ASSUME NEW m \in Nodes \ {n} PROVE Serving'[m] = Serving[m]
  <2>1. ~Inlined(m)
    BY <1>1 DEF Inlined
  <2>. QED  BY <1>0, <1>2, <1>3, <2>1, ServingKept
<1>. QED  BY <1>1, <1>5, <1>6

LEMMA HandlerExitStep ==
    ASSUME Inv, ServingIs', NEW p \in Pids, HandlerExits(p)
    PROVE  Service!Next
<1>0. ServingIs
  BY ServingKnown
<1>1. PICK n \in Nodes : n = NodeOf[serves[p]] /\ p \in Live /\ serves[p] \in Conns
  BY ConstantsOK DEF ConstantsOK, HandlerExits, Inv, TypeOK, ControlOK
<1>2. Live' = Live \ {p} /\ UNCHANGED <<serves, cur, queue>>
  BY <1>1 DEF HandlerExits, local, Inv, TypeOK, ControlOK
<1>3. p \in HandlersOf(n) /\ HandlersOf(n)' = HandlersOf(n) \ {p}
  BY <1>1, <1>2 DEF HandlersOf
<1>4. Serving[n] = serves[p] /\ ~Inlined(n) /\ HandlersOf(n)' = {}
  BY <1>0, <1>1, <1>3 DEF ServingIs
<1>5. /\ pc' = "cap" <=> pc = "cap"
      /\ \A m \in Nodes : Inlined(m)' <=> Inlined(m)
  BY <1>2 DEF HandlerExits, Inlined
<1>6. Serving'[n] = NoConn
  BY <1>1, <1>4, <1>5 DEF ServingIs
<1>7. ASSUME NEW m \in Nodes \ {n} PROVE Serving'[m] = Serving[m]
  <2>1. SameHandlers(m)
    BY <1>1, <1>2 DEF SameHandlers, HandlersOf
  <2>. QED  BY <1>0, <1>2, <1>5, <2>1, ServingKept
<1>8. Pending' = Pending
  BY <1>2, <1>5 DEF Pending
<1>9. Serving[n] # NoConn
  BY <1>1, <1>4, ConstantsOK DEF ConstantsOK
<1>. QED  BY <1>0, <1>1, <1>6, <1>7, <1>8, <1>9, FinishStep

LEMMA ServiceStep ==
    ASSUME Inv, Inv', [Next]_vars
    PROVE  [Service!Next]_(Service!vars)
<1>0. ServingIs /\ TypeOK
  BY ServingKnown DEF Inv
<1>1. ServingIs'
  BY ServingKnown, PTL
<1>2. ASSUME Live' = Live, \A p \in Live : serves'[p] = serves[p],
             UNCHANGED <<queue, cur>>, (pc' = "cap") <=> (pc = "cap"), Busied' <=> Busied
      PROVE  [Service!Next]_(Service!vars)
  BY <1>0, <1>1, <1>2, QuietStep
<1>3. CASE UNCHANGED vars
  BY <1>2, <1>3 DEF vars, local, procs, Busied
<1>4. CASE Loop
  <2>1. CASE Dequeueable = {} /\ pc' = "poll" /\ UNCHANGED <<cur, queue>>
    BY <1>0, <1>2, <1>4, <2>1, ReapKeepsHandlers DEF Loop, reap_installm_kids, Busied
  <2>. QED  BY <1>1, <1>4, <2>1, DequeueStep DEF Loop
<1>5. CASE StartWait \/ WaitExpires
  BY <1>2, <1>5 DEF StartWait, WaitExpires, local, procs, Busied
<1>6. CASE WaitForHandler
  BY <1>0, <1>2, <1>6, ReapKeepsHandlers DEF WaitForHandler, reap_installm_kids, Busied
<1>7. CASE Serve
  BY <1>1, <1>4, <1>5, <1>6, <1>7, AcceptStep, ForkStep, ForkFailsStep DEF Serve
<1>8. CASE Command \/ Dispatch \/ CommandReturns \/ ChildForkFails \/ InlineForksNodeset
  BY <1>2, <1>8 DEF Command, Dispatch, CommandReturns, ChildForkFails, InlineForksNodeset,
                    local, procs, Busied
<1>9. CASE CommandDies \/ InlineEnds
  <2>1. Busied /\ ~Busied' /\ UNCHANGED <<stage, serves, queue>> /\ pc # "cap" /\ pc' # "cap"
    BY <1>9 DEF CommandDies, InlineEnds, procs, Busied
  <2>2. Pending' = Pending
    BY <2>1 DEF Pending
  <2>. QED  BY <1>0, <1>1, <2>1, <2>2, InlineOver, FinishStep, ConstantsOK DEF ConstantsOK
<1>10. CASE CommandExits \/ XExit
  <2>1. /\ Busied /\ ~Busied' /\ UNCHANGED <<stage, serves>> /\ pc' # "cap"
        /\ queue' = [n \in Nodes |-> <<>>]
    BY <1>10 DEF CommandExits, XExit, EndProcess, procs, Busied
  <2>. QED  BY <1>0, <1>1, <2>1, InlineOver, CloseStep
<1>11. CASE PluginReaper
  BY <1>0, <1>2, <1>11, ReapKeepsHandlers DEF PluginReaper, local, Busied
<1>12. CASE Inline
  BY <1>8, <1>9, <1>10, <1>11, <1>12 DEF Inline
<1>13. CASE StandDown \/ DrainEnds \/ DrainExpires
  BY <1>2, <1>13 DEF StandDown, DrainEnds, DrainExpires, local, procs, Busied
<1>14. CASE Drain
  BY <1>0, <1>2, <1>14, ReapKeepsHandlers DEF Drain, reap_installm_kids, Busied
<1>15. CASE StopServing
  <2>1. /\ Live' = Live /\ \A p \in Live : serves'[p] = serves[p]
        /\ \A n \in Nodes : ~Inlined(n) /\ ~Inlined(n)'
        /\ queue' = [n \in Nodes |-> <<>>] /\ pc' # "cap"
    BY <1>15 DEF StopServing, procs, Inlined
  <2>2. Serving' = Serving
    BY <1>0, <1>1, <2>1, AnswersKept
  <2>. QED  BY <1>0, <1>1, <2>1, <2>2, CloseStep
<1>16. CASE Outside
  <2>1. CASE (\E c \in Conns : Connect(c)) \/ StrayExits
    BY <1>2, <2>1 DEF Connect, StrayExits, local, procs, Busied
  <2>. QED  BY <1>1, <1>16, <2>1, HandlerExitStep DEF Outside
<1>. QED  BY <1>3, <1>7, <1>12, <1>13, <1>14, <1>15, <1>16 DEF Next, Stop

(* The connections of one node are answered one at a time, in the order    *)
(* they were accepted, whatever its other connections, other nodes,        *)
(* plugins, failing forks and the stand-down do in between: the monitor    *)
(* implements NodeService.                                                 *)
THEOREM OrderKept == Spec => PerNodeOrder
<1>1. Init => Service!Init
  <2> SUFFICES ASSUME Init PROVE Service!Init
    OBVIOUS
  <2>1. \A n \in Nodes : ~Inlined(n) /\ HandlersOf(n) = {}
    BY DEF Init, Inlined, HandlersOf
  <2>2. Serving = [n \in Nodes |-> NoConn]
    BY <2>1 DEF Serving
  <2>3. Pending = [n \in Nodes |-> <<>>]
    BY DEF Init, Pending
  <2>. QED  BY <2>2, <2>3 DEF Service!Init
<1>2. Inv /\ Inv' /\ [Next]_vars => [Service!Next]_(Service!vars)
  BY ServiceStep
<1>. QED  BY <1>1, <1>2, Invariant, PTL DEF Spec, Service!Spec, PerNodeOrder
=============================================================================
