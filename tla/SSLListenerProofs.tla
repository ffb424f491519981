------------------------- MODULE SSLListenerProofs -------------------------
(***************************************************************************)
(* Proofs about SSLListener for every set of pids, every limit and batch,  *)
(* and every bound.                                                        *)
(***************************************************************************)
EXTENDS SSLListener, FiniteSetTheorems, TLAPS

(* Something waits when a worker is about to be forked, and what was       *)
(* forked is a worker.                                                     *)
HandsFull ==
    /\ pc = "admit" => pendingconnections > 0
    /\ pc = "forked" => child \in Pids

(* Every worker the kernel has is in %immediatechildren, the one that was  *)
(* forked last excepted until it is entered.                               *)
Entered == Running \subseteq immediatechildren \cup (IF pc = "forked" THEN {child} ELSE {})

(* What the UDP process computes with: the count it was told is a count.   *)
Forecast == ForecastBounded /\ seen.clients >= 0

LEMMA PidsFinite ==
    ASSUME NEW S \in SUBSET Pids
    PROVE  IsFiniteSet(S) /\ Cardinality(S) \in Nat
  BY ConstantsOK, FS_Subset, FS_CardinalityType DEF ConstantsOK

LEMMA FewerPids ==
    ASSUME NEW S \in SUBSET Pids, NEW T \in SUBSET S
    PROVE  Cardinality(T) <= Cardinality(S)
  BY PidsFinite, FS_Subset

LEMMA RunningIsPids ==
    TypeOK => Running \in SUBSET Pids /\ Zombies \in SUBSET Running
  BY DEF Running, Zombies
-----------------------------------------------------------------------------
(* The slots that are granted, as many as there are requests or slots.     *)
LEMMA GrantInRange ==
    ASSUME NEW b \in Nat, NEW f \in Nat, NEW c \in Int, NEW fresh \in Nat,
           NEW n, n = IF b - f - c <= 0 THEN 0
                      ELSE IF fresh < b - f - c THEN fresh ELSE b - f - c
    PROVE  /\ n \in 0 .. fresh
           /\ f <= b /\ c >= 0 => f + n <= b
  OBVIOUS

LEMMA TypeInvariant ==
    TypeOK /\ HandsFull /\ [Next]_vars => TypeOK' /\ HandsFull'
<1> SUFFICES ASSUME TypeOK, HandsFull, [Next]_vars PROVE TypeOK' /\ HandsFull'
  OBVIOUS
<1> USE ConstantsOK DEF ConstantsOK, TypeOK, HandsFull, clients, control
<1>1. CASE ssl_reaper
  <2>1. worker' \in [Pids -> {"none", "live", "zombie"}]
    BY <1>1 DEF ssl_reaper
  <2>2. sslclients' \in Int
    BY <1>1, PidsFinite DEF ssl_reaper, Reaped, Zombies
  <2>. QED  BY <1>1, <2>1, <2>2 DEF ssl_reaper
<1>2. CASE Broker
  <2>1. CASE GetClientCount
    BY <2>1 DEF GetClientCount
  <2>2. CASE SetFudgeFactor
    BY <2>2 DEF SetFudgeFactor, NoAnswer
  <2>. QED  BY <1>2, <2>1, <2>2 DEF Broker
<1>3. CASE Leave \/ Listen \/ AcceptOne \/ NothingToAccept \/ Throttle \/ ForkFails
  BY <1>3 DEF Leave, Listen, AcceptOne, NothingToAccept, Throttle, ForkFails
<1>4. CASE AcceptAll
  BY <1>4 DEF AcceptAll
<1>5. CASE Record
  BY <1>5 DEF Record
<1>6. CASE Count
  BY <1>6 DEF Count, PaidBack, Counted
<1>7. ASSUME NEW p \in Pids, Fork(p) PROVE TypeOK' /\ HandsFull'
  BY <1>7 DEF Fork
<1>8. CASE Request \/ Ask \/ UdpLeaves
  BY <1>8 DEF Request, Ask, UdpLeaves
<1>9. CASE Grant
  <2>0. PICK old \in 0 .. requests : \E n :
            /\ n = IF Slots <= 0 THEN 0
                   ELSE IF requests - old < Slots THEN requests - old ELSE Slots
            /\ requests' = requests - old - n
            /\ seen' = [fudge |-> seen.fudge + n, clients |-> 0]
    BY <1>9 DEF Grant
  <2>1. PICK n :
            /\ n = IF Slots <= 0 THEN 0
                   ELSE IF requests - old < Slots THEN requests - old ELSE Slots
            /\ requests' = requests - old - n
            /\ seen' = [fudge |-> seen.fudge + n, clients |-> 0]
    BY <2>0
  <2>2. seen.fudge \in Nat /\ seen.clients \in Int /\ requests - old \in 0 .. MaxRequests
    OBVIOUS
  <2>3. n \in 0 .. (requests - old)
    BY <2>1, <2>2, GrantInRange DEF Slots
  <2>4. requests' \in 0 .. MaxRequests
    <3>1. ASSUME NEW m \in 0 .. MaxRequests, NEW k \in 0 .. m PROVE m - k \in 0 .. MaxRequests
      OBVIOUS
    <3>. QED  BY <2>1, <2>2, <2>3, <3>1
  <2>5. seen.fudge + n \in Nat
    BY <2>2, <2>3
  <2>6. seen' \in [fudge : Nat, clients : Int]
    BY <2>1, <2>5
  <2>7. /\ udp' = "setting"
        /\ UNCHANGED <<pc, quit, backlog, pendingconnections, immediatechildren, sslclients>>
        /\ UNCHANGED <<child, worker, sslfudgefactor, udpquit>>
    BY <1>9 DEF Grant
  <2>. QED  BY <2>4, <2>6, <2>7
<1>10. CASE Quit \/ WaitEnds \/ Connect
  <2>1. CASE Quit
    BY <2>1 DEF Quit
  <2>2. CASE WaitEnds
    BY <2>2 DEF WaitEnds
  <2>3. CASE Connect
    BY <2>3 DEF Connect
  <2>. QED  BY <1>10, <2>1, <2>2, <2>3
<1>11. ASSUME NEW p \in Pids, WaitChild(p) \/ WorkerExits(p) PROVE TypeOK' /\ HandsFull'
  BY <1>11 DEF WaitChild, WorkerExits
<1>12. CASE UNCHANGED vars
  BY <1>12 DEF vars
<1>. QED
  BY <1>1, <1>2, <1>3, <1>4, <1>5, <1>6, <1>7, <1>8, <1>9, <1>10, <1>11, <1>12
     DEF Next, Loop, Udp, End, World

(* The tables of the main process and of the UDP process keep their types. *)
THEOREM TypeCorrect == Spec => [](TypeOK /\ HandsFull)
<1>1. ASSUME Init PROVE TypeOK /\ HandsFull
  <2>1. MaxBacklog \in Nat /\ MaxPending \in Nat /\ MaxRequests \in Nat
    BY ConstantsOK DEF ConstantsOK
  <2>2. 0 \in 0 .. MaxBacklog /\ 0 \in 0 .. MaxPending /\ 0 \in 0 .. MaxRequests
    BY <2>1
  <2>3. worker \in [Pids -> {"none", "live", "zombie"}] /\ seen \in [fudge : Nat, clients : Int]
    BY <1>1 DEF Init, NoAnswer
  <2>4. HandsFull
    BY <1>1 DEF Init, HandsFull
  <2>5. quit \in BOOLEAN /\ udpquit \in BOOLEAN /\ immediatechildren \in SUBSET Pids
    BY <1>1 DEF Init
  <2>6. /\ pc \in {"top", "listen", "admit", "forked", "recorded", "wait", "gone", "died"}
        /\ udp \in {"idle", "asked", "granting", "setting", "dead"}
        /\ sslclients \in Int /\ sslfudgefactor \in Nat /\ child \in Pids \cup {NoPid}
    BY <1>1 DEF Init
  <2>7. /\ backlog \in 0 .. MaxBacklog /\ pendingconnections \in 0 .. MaxPending
        /\ requests \in 0 .. MaxRequests
    BY <1>1, <2>2 DEF Init
  <2>. QED  BY <2>3, <2>4, <2>5, <2>6, <2>7 DEF TypeOK
<1>. QED  BY <1>1, TypeInvariant, PTL DEF Spec
-----------------------------------------------------------------------------
(* What the steps do to the workers.  A fork adds one, a reap or a wait    *)
(* takes some away, an exit keeps a pid in use.                            *)
LEMMA ForkRuns ==
    ASSUME TypeOK, NEW p \in Pids, Fork(p)
    PROVE  Running' = Running \cup {p} /\ Cardinality(Running') = Cardinality(Running) + 1
<1>1. Running' = Running \cup {p} /\ p \notin Running
  BY DEF TypeOK, Fork, Running
<1>. QED  BY <1>1, RunningIsPids, PidsFinite, FS_AddElement

LEMMA ReaperFrees ==
    ASSUME TypeOK, ssl_reaper
    PROVE  /\ Running' = Running \ Zombies
           /\ Cardinality(Running') = Cardinality(Running) - Cardinality(Zombies)
<1>1. Running' = Running \ Zombies
  BY DEF TypeOK, ssl_reaper, Running, Zombies
<1>2. Running \cap Zombies = Zombies
  BY DEF Running, Zombies
<1>. QED  BY <1>1, <1>2, RunningIsPids, PidsFinite, FS_Difference

LEMMA ExitRuns ==
    ASSUME TypeOK, NEW p \in Pids, WorkerExits(p) PROVE Running' = Running
  BY DEF TypeOK, WorkerExits, Running

LEMMA WaitFrees ==
    ASSUME TypeOK, NEW p \in Pids, WaitChild(p) PROVE Running' = Running \ {p}
  BY DEF TypeOK, WaitChild, Running

(* No other step touches a worker, and all but the count leave the number  *)
(* of clients alone.                                                       *)
Aside == \/ Broker \/ Udp \/ Quit \/ WaitEnds \/ Connect
         \/ Leave \/ Listen \/ AcceptAll \/ AcceptOne \/ NothingToAccept \/ Throttle
         \/ ForkFails \/ UNCHANGED vars

LEMMA AsideKeeps ==
    Aside => /\ UNCHANGED <<immediatechildren, sslclients, child, worker>>
             /\ Running' = Running
             /\ pc \notin {"forked", "recorded"} \/ pc' = pc
             /\ pc' \notin {"forked", "recorded"} \/ pc' = pc
<1> SUFFICES ASSUME Aside
             PROVE  /\ UNCHANGED <<immediatechildren, sslclients, child, worker>>
                    /\ pc \notin {"forked", "recorded"} \/ pc' = pc
                    /\ pc' \notin {"forked", "recorded"} \/ pc' = pc
  BY DEF Running
<1>1. CASE Broker \/ Udp \/ Quit \/ WaitEnds \/ Connect \/ UNCHANGED vars
  BY <1>1 DEF Broker, GetClientCount, SetFudgeFactor, Udp, Request, Ask, Grant, UdpLeaves,
              Quit, WaitEnds, Connect, vars, clients, control
<1>2. CASE Leave \/ Listen \/ AcceptAll \/ AcceptOne \/ NothingToAccept \/ Throttle \/ ForkFails
  BY <1>2 DEF Leave, Listen, AcceptAll, AcceptOne, NothingToAccept, Throttle, ForkFails, clients
<1>. QED  BY <1>1, <1>2 DEF Aside

LEMMA NextSplit ==
    [Next]_vars <=> \/ ssl_reaper \/ Record \/ Count \/ Aside
                    \/ \E p \in Pids : Fork(p) \/ WaitChild(p) \/ WorkerExits(p)
  BY DEF Next, Loop, End, World, Aside
-----------------------------------------------------------------------------
LEMMA CountInvariant ==
    TypeOK /\ NeverUndercounted /\ [Next]_vars => NeverUndercounted'
<1> SUFFICES ASSUME TypeOK, NeverUndercounted, [Next]_vars PROVE NeverUndercounted'
  OBVIOUS
<1>0. Cardinality(Running) \in Nat /\ sslclients \in Int /\ InFlight \in {0, 1}
  BY RunningIsPids, PidsFinite DEF TypeOK, InFlight
<1>1. CASE ssl_reaper
  <2>1. Cardinality(Reaped) <= Cardinality(Zombies)
    BY RunningIsPids, FewerPids DEF Reaped
  <2>2. Cardinality(Reaped) \in Nat /\ Cardinality(Zombies) \in Nat
    BY RunningIsPids, PidsFinite DEF Reaped
  <2>3. sslclients' = sslclients - Cardinality(Reaped) /\ InFlight' = InFlight
    BY <1>1 DEF ssl_reaper, InFlight
  <2>4. Cardinality(Running') = Cardinality(Running) - Cardinality(Zombies)
    BY <1>1, ReaperFrees
  <2>. QED  BY <1>0, <2>1, <2>2, <2>3, <2>4 DEF NeverUndercounted
<1>2. CASE Record
  <2>1. Running' = Running /\ InFlight' = InFlight /\ sslclients' = sslclients
    BY <1>2 DEF Record, Running, InFlight
  <2>. QED  BY <2>1 DEF NeverUndercounted
<1>3. CASE Count
  <2>1. Running' = Running /\ InFlight = 1 /\ InFlight' = 0 /\ sslclients' = sslclients + 1
    BY <1>3 DEF Count, Counted, Running, InFlight
  <2>. QED  BY <1>0, <2>1 DEF NeverUndercounted
<1>4. CASE Aside
  <2>1. Running' = Running /\ sslclients' = sslclients /\ InFlight' = InFlight
    BY <1>4, AsideKeeps DEF InFlight
  <2>. QED  BY <2>1 DEF NeverUndercounted
<1>5. ASSUME NEW p \in Pids, Fork(p) PROVE NeverUndercounted'
  <2>1. InFlight = 0 /\ InFlight' = 1 /\ sslclients' = sslclients
    BY <1>5 DEF Fork, InFlight
  <2>. QED  BY <1>0, <1>5, <2>1, ForkRuns DEF NeverUndercounted
<1>6. ASSUME NEW p \in Pids, WaitChild(p) \/ WorkerExits(p) PROVE NeverUndercounted'
  <2>1. Running' \in SUBSET Running /\ InFlight' = InFlight /\ sslclients' = sslclients
    BY <1>6, WaitFrees, ExitRuns DEF WaitChild, WorkerExits, InFlight
  <2>2. Cardinality(Running') <= Cardinality(Running) /\ Cardinality(Running') \in Nat
    BY <2>1, RunningIsPids, FewerPids, PidsFinite
  <2>. QED  BY <1>0, <2>1, <2>2 DEF NeverUndercounted
<1>. QED  BY <1>1, <1>2, <1>3, <1>4, <1>5, <1>6, NextSplit

(* A worker is forked only when the count, and so the workers there are,   *)
(* is within the limit.                                                    *)
LEMMA LimitInvariant ==
    TypeOK /\ NeverUndercounted /\ WorkerLimit /\ [Next]_vars => WorkerLimit'
<1> SUFFICES ASSUME TypeOK, NeverUndercounted, WorkerLimit, [Next]_vars PROVE WorkerLimit'
  OBVIOUS
<1>0. Cardinality(Running) \in Nat /\ sslclients \in Int /\ MaxClients \in Nat
  BY ConstantsOK, RunningIsPids, PidsFinite DEF ConstantsOK, TypeOK
<1>1. CASE Running' \in SUBSET Running
  <2>1. Cardinality(Running') <= Cardinality(Running) /\ Cardinality(Running') \in Nat
    BY <1>1, RunningIsPids, FewerPids, PidsFinite
  <2>. QED  BY <1>0, <2>1 DEF WorkerLimit
<1>2. CASE ssl_reaper \/ Record \/ Count \/ Aside
  BY <1>1, <1>2, ReaperFrees, AsideKeeps DEF Record, Count, Running
<1>3. ASSUME NEW p \in Pids, Fork(p) PROVE WorkerLimit'
  <2>1. sslclients <= MaxClients /\ InFlight = 0
    BY <1>0, <1>3 DEF Fork, Full, InFlight
  <2>. QED  BY <1>0, <1>3, <2>1, ForkRuns DEF NeverUndercounted, WorkerLimit
<1>4. ASSUME NEW p \in Pids, WaitChild(p) \/ WorkerExits(p) PROVE WorkerLimit'
  BY <1>1, <1>4, WaitFrees, ExitRuns
<1>. QED  BY <1>2, <1>3, <1>4, NextSplit

LEMMA EnteredInvariant ==
    TypeOK /\ Entered /\ WaitCovers /\ [Next]_vars => Entered' /\ WaitCovers'
<1> SUFFICES ASSUME TypeOK, Entered, WaitCovers, [Next]_vars PROVE Entered' /\ WaitCovers'
  OBVIOUS
<1>1. CASE ssl_reaper
  <2>1. immediatechildren' = immediatechildren \ Zombies /\ UNCHANGED <<pc, child>>
    BY <1>1 DEF ssl_reaper, Reaped
  <2>. QED  BY <1>1, <2>1, ReaperFrees DEF Entered, WaitCovers
<1>2. CASE Record \/ Count
  BY <1>2 DEF Record, Count, Entered, WaitCovers, Running
<1>3. CASE Aside
  <2>1. Entered'
    BY <1>3, AsideKeeps DEF Entered
  <2>2. pc' = "gone" => pc = "gone" \/ WaitEnds
    BY <1>3 DEF Aside, Broker, GetClientCount, SetFudgeFactor, Udp, Request, Ask, Grant,
                UdpLeaves, Quit, Connect, vars, Leave, Listen, AcceptAll, AcceptOne,
                NothingToAccept, Throttle, ForkFails
  <2>3. WaitEnds => Running = {}
    BY DEF WaitEnds, Remains, Entered
  <2>. QED  BY <1>3, <2>1, <2>2, <2>3, AsideKeeps DEF WaitCovers
<1>4. ASSUME NEW p \in Pids, Fork(p) PROVE Entered' /\ WaitCovers'
  BY <1>4, ForkRuns DEF Fork, Entered, WaitCovers
<1>5. ASSUME NEW p \in Pids, WaitChild(p) PROVE Entered' /\ WaitCovers'
  BY <1>5, WaitFrees DEF WaitChild, Entered, WaitCovers
<1>6. ASSUME NEW p \in Pids, WorkerExits(p) PROVE Entered' /\ WaitCovers'
  BY <1>6, ExitRuns DEF WorkerExits, Entered, WaitCovers
<1>. QED  BY <1>1, <1>2, <1>3, <1>4, <1>5, <1>6, NextSplit

(* The grant adds to the forecast it was told no more than the batch less  *)
(* a count that is not negative, because it is no undercount.              *)
LEMMA ForecastInvariant ==
    TypeOK /\ NeverUndercounted /\ Forecast /\ [Next]_vars => Forecast'
<1> SUFFICES ASSUME TypeOK, NeverUndercounted, Forecast, [Next]_vars PROVE Forecast'
  OBVIOUS
<1>0. /\ Cardinality(Running) \in Nat /\ sslclients \in Int /\ sslfudgefactor \in Nat
      /\ Batch \in Nat /\ seen.fudge \in Nat /\ seen.clients \in Int
      /\ sslfudgefactor <= Batch /\ seen.fudge <= Batch /\ seen.clients >= 0
  BY ConstantsOK, RunningIsPids, PidsFinite DEF ConstantsOK, TypeOK, Forecast, ForecastBounded
<1>1. CASE GetClientCount
  <2>1. sslclients >= 0
    BY <1>0, <1>1 DEF GetClientCount, NeverUndercounted, InFlight
  <2>2. /\ sslfudgefactor' = sslfudgefactor
        /\ seen'.fudge = sslfudgefactor /\ seen'.clients = sslclients
    BY <1>1 DEF GetClientCount
  <2>. QED  BY <1>0, <2>1, <2>2 DEF Forecast, ForecastBounded
<1>2. CASE SetFudgeFactor
  <2>1. sslfudgefactor' = seen.fudge /\ seen'.fudge = 0 /\ seen'.clients = 0
    BY <1>2 DEF SetFudgeFactor, NoAnswer
  <2>. QED  BY <1>0, <2>1 DEF Forecast, ForecastBounded
<1>3. CASE Count
  <2>1. sslfudgefactor' <= sslfudgefactor /\ sslfudgefactor' \in Nat /\ seen' = seen
    BY <1>0, <1>3 DEF Count, PaidBack, control
  <2>. QED  BY <1>0, <2>1 DEF Forecast, ForecastBounded
<1>4. CASE Grant
  <2>0. PICK old \in 0 .. requests : \E n :
            /\ n = IF Slots <= 0 THEN 0
                   ELSE IF requests - old < Slots THEN requests - old ELSE Slots
            /\ seen' = [fudge |-> seen.fudge + n, clients |-> 0]
    BY <1>4 DEF Grant
  <2>1. PICK n :
            /\ n = IF Slots <= 0 THEN 0
                   ELSE IF requests - old < Slots THEN requests - old ELSE Slots
            /\ seen' = [fudge |-> seen.fudge + n, clients |-> 0]
    BY <2>0
  <2>2. requests - old \in Nat
    BY DEF TypeOK
  <2>3. seen.fudge + n <= Batch
    BY <1>0, <2>1, <2>2, GrantInRange DEF Slots
  <2>4. sslfudgefactor' = sslfudgefactor /\ seen'.fudge = seen.fudge + n /\ seen'.clients = 0
    BY <1>4, <2>1 DEF Grant
  <2>. QED  BY <1>0, <2>3, <2>4 DEF Forecast, ForecastBounded
<1>5. CASE UNCHANGED <<sslfudgefactor, seen>>
  BY <1>5 DEF Forecast, ForecastBounded
<1>6. CASE \/ ssl_reaper \/ Leave \/ Listen \/ AcceptAll \/ AcceptOne \/ NothingToAccept
           \/ Throttle \/ ForkFails \/ Record \/ \E p \in Pids : Fork(p)
  BY <1>5, <1>6 DEF ssl_reaper, Leave, Listen, AcceptAll, AcceptOne, NothingToAccept, Throttle,
                    ForkFails, Record, Fork, control
<1>7. CASE \/ Request \/ Ask \/ UdpLeaves \/ End \/ World \/ UNCHANGED vars
  BY <1>5, <1>7 DEF Request, Ask, UdpLeaves, End, Quit, WaitEnds, WaitChild, World, Connect,
                    WorkerExits, vars, control
<1>. QED  BY <1>1, <1>2, <1>3, <1>4, <1>6, <1>7 DEF Next, Broker, Loop, Udp
-----------------------------------------------------------------------------
(* The inductive invariant.  The limit and the forecast rest on the count, *)
(* which is its own strengthening; the wait rests on Entered.              *)
Inv == /\ TypeOK /\ HandsFull
       /\ NeverUndercounted /\ WorkerLimit
       /\ Entered /\ WaitCovers
       /\ Forecast

LEMMA Invariant == Spec => []Inv
<1>1. ASSUME Init PROVE NeverUndercounted /\ WorkerLimit /\ Entered /\ WaitCovers /\ Forecast
  <2>1. Running = {} /\ InFlight = 0 /\ Batch \in Nat /\ MaxClients \in Nat
    BY <1>1, ConstantsOK DEF Init, Running, InFlight, ConstantsOK
  <2>2. Cardinality({}) = 0
    BY FS_EmptySet
  <2>. QED
    BY <1>1, <2>1, <2>2 DEF Init, NoAnswer, NeverUndercounted, WorkerLimit, Entered, WaitCovers,
                            Forecast, ForecastBounded
<1>. QED
  BY <1>1, TypeCorrect, CountInvariant, LimitInvariant, EnteredInvariant, ForecastInvariant, PTL
     DEF Spec, Inv

(* $sslclients never drops below the workers there are, whatever ssl_reaper *)
(* collects between the fork and the count and however pids are reused.    *)
THEOREM Counts == Spec => []NeverUndercounted
  BY Invariant, PTL DEF Inv

(* At most $maxsslclients + 1 workers, for every limit.                    *)
THEOREM Limits == Spec => []WorkerLimit
  BY Invariant, PTL DEF Inv

(* A daemon that ends has waited for every worker it forked.               *)
THEOREM Waits == Spec => []WaitCovers
  BY Invariant, PTL DEF Inv

(* The forecast stays within site.xcatmaxbatchconnections although the UDP *)
(* process writes back a value the main process has changed meanwhile.     *)
THEOREM Forecasts == Spec => []ForecastBounded
  BY Invariant, PTL DEF Inv, Forecast
=============================================================================
