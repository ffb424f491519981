----------------------------- MODULE MCRespawn -----------------------------
(* Respawn on a small clock, with a history to judge the pacing by.         *)
EXTENDS Respawn

CONSTANT MaxFails  \* where doubling has reached max_interval

Twice[n \in Nat] == IF n = 0 THEN 1 ELSE 2 * Twice[n - 1]

ASSUME MaxFailsOK ==
    MaxFails \in Nat \ {0} /\ max_interval <= min_interval * Twice[MaxFails - 1]

VARIABLES fails,   \* deaths in a row of a monitor that did not serve
          gap,     \* seconds since the last death was noticed
          idle,    \* how many of them the service loop slept
          lived    \* seconds since the last fork

history == <<fails, gap, idle, lived>>

UpTo(n, most) == IF n < most THEN n + 1 ELSE n

Failed == phase \in {"start", "attempt"} /\ phase' \in {"poll", "died"}
Forked == phase \in {"start", "attempt"} /\ phase' \in {"startfork", "refork"}
Noticed == pid_MON # NoPid /\ pid_MON' = NoPid

(* More than any bound idle is compared with. *)
MaxIdle == LongHop + ShortHop + max_interval

Owed == IF fails = 0 THEN 0
        ELSE LET d == min_interval * Twice[fails - 1]
             IN IF d > max_interval THEN max_interval ELSE d

MCInit == Init /\ fails = 0 /\ gap = 0 /\ idle = 0 /\ lived = 0

MCNext ==
    /\ Next
    /\ fails' = CASE Failed -> UpTo(fails, MaxFails)
                  [] Noticed -> (IF lived >= Healthy THEN 0 ELSE UpTo(fails, MaxFails))
                  [] OTHER -> fails
    /\ gap' = IF Failed \/ Noticed THEN 0
              ELSE IF Tick /\ pid_MON = NoPid THEN UpTo(gap, max_interval) ELSE gap
    /\ idle' = IF Failed \/ Noticed THEN 0
               ELSE IF Tick /\ pid_MON = NoPid /\ InService THEN UpTo(idle, MaxIdle) ELSE idle
    /\ lived' = IF Forked THEN 0 ELSE IF Tick THEN UpTo(lived, Healthy) ELSE lived

MCSpec == MCInit /\ [][MCNext]_<<vars, history>>

MCBusySpec == MCSpec /\ Fairness /\ WF_vars(OtherChildExits)

(* No fork storm: a fork comes no earlier than the doubling of the minimum *)
(* interval over the failures in a row says.                               *)
Paced == [][Forked \/ Failed => gap >= Owed]_<<vars, history>>

(* Nor much later: a noticed death is answered within its wait and one     *)
(* short hop, or within the long select it interrupted too late.           *)
Prompt == InService /\ pid_MON = NoPid =>
              idle <= LongHop \/ idle <= Owed + ShortHop
=============================================================================
