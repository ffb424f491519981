--------------------------- MODULE ZvmProvisionProofs ---------------------------
(* What the chain of ZvmProvision keeps for any number of disks and zFCP devices, *)
(* as long as no other window writes the two cookies: each counts the rows of its *)
(* table that are not attached yet, so the chain passes them only when all are.   *)
(* A row that failed or got lost stays counted, and stops it for good.            *)
EXTENDS ZvmProvision, FiniteSetTheorems, TLAPS

Before == {Cmd("nodeadd"), Cmd("mkvm"), Cmd("makehosts"), Cmd("makedns")}
After  == {Cmd("noderes"), Cmd("makedhcp"), Cmd("nodeset"), Cmd("rnetboot")}
IsRow(r) == r.cmd \in {"chvm-disk", "chvm-zfcp"}

\* Rows of one table that were posted and are not attached.
Left(cmd) == {r \in asked \ attached : r.cmd = cmd}

Counted ==
    /\ disks2add \in Nat /\ zfcp2add \in Nat
    /\ IsFiniteSet(Left("chvm-disk")) /\ Cardinality(Left("chvm-disk")) <= disks2add
    /\ IsFiniteSet(Left("chvm-zfcp")) /\ Cardinality(Left("chvm-zfcp")) <= zfcp2add

\* A row no answer will come for any more.
Stuck == \E r \in asked : IsRow(r) /\ r \notin attached /\ r \notin calls

Alone == \A c, d \in calls : c = d
Quiet == failed \/ lost \/ ~loader => calls = {}

\* Before the rows are posted, while they are in flight, and when all are attached.
BeforeRows ==
    /\ asked \subseteq Before /\ attached = {}
    /\ calls \subseteq Before /\ Alone
    /\ Quiet
    /\ stage # "run" => calls = {} /\ ~failed /\ ~lost

WithRows ==
    /\ stage = "run"
    /\ \A r \in asked : r \in Before \/ IsRow(r)
    /\ calls \subseteq asked /\ \A r \in calls : IsRow(r) /\ r \notin attached
    /\ Counted
    /\ failed \/ lost => Stuck
    /\ ~loader => failed \/ calls = {}

AfterRows ==
    /\ stage = "run"
    /\ \A r \in asked : IsRow(r) => r \in attached
    /\ calls \subseteq After /\ Alone
    /\ Quiet

Sizes == disks \in Nat /\ zfcp \in Nat /\ frozen.disks \in Nat /\ frozen.zfcp \in Nat

IInv == Sizes /\ (~shared => BeforeRows \/ WithRows \/ AfterRows)

---------------------------------------------------------------------------------
\* As many rows are posted as the table has.
LEMMA RowsCounted ==
    ASSUME NEW n \in Nat, NEW cmd
    PROVE  /\ IsFiniteSet({[cmd |-> cmd, row |-> i] : i \in 1..n})
           /\ Cardinality({[cmd |-> cmd, row |-> i] : i \in 1..n}) <= n
<1> DEFINE S == {[cmd |-> cmd, row |-> i] : i \in 1..n}
           f == [i \in 1..n |-> [cmd |-> cmd, row |-> i]]
<1>1. f \in Surjection(1..n, S)
  BY DEF Surjection
<1>2. IsFiniteSet(1..n) /\ Cardinality(1..n) = n
  <2>1. IsFiniteSet(1..n) /\ Cardinality(1..n) = IF 1 > n THEN 0 ELSE n - 1 + 1
    BY FS_Interval
  <2>. QED  BY <2>1
<1> HIDE DEF S, f
<1>3. IsFiniteSet(S) /\ Cardinality(S) <= Cardinality(1..n)
  BY <1>1, <1>2, FS_Surjection
<1>. QED  BY <1>2, <1>3 DEF S

\* A row that is attached is one less to attach.
LEMMA OneLessLeft ==
    ASSUME NEW S, NEW r \in S, NEW n \in Nat, IsFiniteSet(S), Cardinality(S) <= n
    PROVE  /\ IsFiniteSet(S \ {r}) /\ Cardinality(S \ {r}) <= OneLess(n)
           /\ OneLess(n) \in Nat
<1>1. IsFiniteSet(S \ {r}) /\ Cardinality(S \ {r}) = Cardinality(S) - 1
  BY FS_RemoveElement
<1>2. Cardinality(S) \in Nat /\ Cardinality(S \ {r}) \in Nat
  BY <1>1, FS_CardinalityType
<1>. QED  BY <1>1, <1>2 DEF OneLess

\* With a counter at zero nothing is left.
LEMMA NoneLeft ==
    ASSUME NEW S, NEW n \in Nat, IsFiniteSet(S), Cardinality(S) <= n, n < 1
    PROVE  S = {}
<1>1. Cardinality(S) \in Nat
  BY FS_CardinalityType
<1>2. Cardinality(S) = 0
  BY <1>1
<1>. QED  BY <1>2, FS_EmptySet

---------------------------------------------------------------------------------
LEMMA InitInv == Init => IInv
  BY DEF Init, IInv, Sizes, BeforeRows, Alone, Quiet

\* The actions of the form.
LEMMA UserInv == IInv /\ User => IInv'
<1> SUFFICES ASSUME IInv, User PROVE IInv'
  OBVIOUS
<1>1. CASE SelectOs \/ AddDisk \/ AddZfcp \/ RemoveRow
  <2>1. UNCHANGED <<stage, calls, counters, loader, history>>
    BY <1>1 DEF SelectOs, AddDisk, AddZfcp, RemoveRow
  <2>2. Sizes'
    BY <1>1 DEF SelectOs, AddDisk, AddZfcp, RemoveRow, IInv, Sizes
  <2>3. UNCHANGED <<stage, calls, disks2add, zfcp2add, loader, asked, attached, failed, lost,
                    shared>>
    BY <2>1 DEF counters, history
  <2>. QED
    BY <2>2, <2>3 DEF IInv, BeforeRows, WithRows, AfterRows, Counted, Left, Stuck, Alone, Quiet
<1>2. CASE Submit /\ stage # "run"
  <2>1. Sizes'
    BY <1>2 DEF Submit, IInv, Sizes
  <2>2. ~shared' => BeforeRows'
    BY <1>2 DEF Submit, IInv, BeforeRows, WithRows, AfterRows, Alone, Quiet, Before
  <2>. QED  BY <2>1, <2>2 DEF IInv
<1>3. CASE /\ stage # "run" /\ stage' # "run"
           /\ UNCHANGED <<disks, zfcp, frozen, calls, counters, loader, history>>
  BY <1>3 DEF IInv, Sizes, BeforeRows, WithRows, AfterRows, Alone, Quiet, history
<1>. QED  BY <1>1, <1>2, <1>3 DEF User, ClickProvision, Confirm, Cancel

---------------------------------------------------------------------------------
\* A step that is not for a row: c is the only request in flight, nothing has
\* failed, and it is posted before the rows or after them.
LEMMA OnlyOne ==
    ASSUME IInv, ~shared, NEW c \in calls, ~IsRow(c)
    PROVE  /\ calls = {c} /\ ~failed /\ ~lost /\ loader
           /\ stage = "run"
           /\ \/ BeforeRows /\ c \in Before
              \/ AfterRows /\ c \in After
  BY DEF IInv, BeforeRows, WithRows, AfterRows, Alone, Quiet

LEMMA StepKinds ==
    /\ \A c : ~IsRow(Cmd(c)) \/ c \in {"chvm-disk", "chvm-zfcp"}
    /\ \A c \in Before \cup After : ~IsRow(c)
    /\ Before \cap After = {}
  BY DEF IsRow, Cmd, Before, After

\* Going on, within the steps before the rows or within those after them.
LEMMA GoInv ==
    ASSUME IInv, ~shared, NEW c, NEW n, Go(c, n),
           (c \in Before /\ n \in Before) \/ (c \in After /\ n \in After)
    PROVE  IInv'
<1>1. /\ c \in calls /\ calls = {c} /\ ~failed /\ ~lost /\ loader /\ stage = "run"
      /\ \/ BeforeRows /\ c \in Before
         \/ AfterRows /\ c \in After
  BY StepKinds, OnlyOne DEF Go, Follow
<1>2. /\ calls' = {n} /\ asked' = asked \cup {n}
      /\ UNCHANGED <<stage, disks, zfcp, frozen, attached, loader, failed, lost>>
  BY <1>1 DEF Go, Follow, form
<1>3. Sizes'
  BY <1>2 DEF IInv, Sizes
<1>4. CASE BeforeRows /\ c \in Before
  <2>1. n \in Before
    BY <1>4, StepKinds
  <2>2. BeforeRows'
    BY <1>1, <1>2, <1>4, <2>1 DEF BeforeRows, Alone, Quiet
  <2>. QED  BY <1>3, <2>2 DEF IInv
<1>5. CASE AfterRows /\ c \in After
  <2>1. n \in After
    BY <1>5, StepKinds
  <2>2. AfterRows'
    BY <1>1, <1>2, <1>5, <2>1, StepKinds DEF AfterRows, Alone, Quiet
  <2>. QED  BY <1>3, <2>2 DEF IInv
<1>. QED  BY <1>1, <1>4, <1>5

\* Stopping there.
LEMMA HaltInv ==
    ASSUME IInv, ~shared, NEW c \in Before \cup After, NEW error \in BOOLEAN, Halt(c, error)
    PROVE  IInv'
<1>1. c \in calls /\ calls = {c} /\ stage = "run" /\ (BeforeRows \/ AfterRows)
  BY StepKinds, OnlyOne DEF Halt, Follow
<1>2. /\ calls' = {} /\ asked' = asked
      /\ UNCHANGED <<stage, disks, zfcp, frozen, attached, lost>>
  BY <1>1 DEF Halt, Follow, form
<1>3. Sizes'
  BY <1>2 DEF IInv, Sizes
<1>4. BeforeRows' \/ AfterRows'
  BY <1>1, <1>2 DEF BeforeRows, AfterRows, Alone, Quiet
<1>. QED  BY <1>3, <1>4 DEF IInv

\* The answers that post or end single steps.
LEMMA StepsInv ==
    ASSUME IInv, ~shared, NEW rsp \in Answers,
           \/ NodeaddAnswered(rsp) \/ MkvmAnswered(rsp) \/ MakehostsAnswered(rsp)
           \/ NoderesAnswered(rsp) \/ PrepareAnswered(rsp) \/ NodesetAnswered(rsp)
           \/ RnetbootAnswered(rsp)
    PROVE  IInv'
<1>1. \/ \E c \in Before \cup After, error \in BOOLEAN : Halt(c, error)
      \/ \E c, n \in Before : Go(c, n)
      \/ \E c, n \in After : Go(c, n)
  BY DEF NodeaddAnswered, MkvmAnswered, MakehostsAnswered, NoderesAnswered, PrepareAnswered,
         NodesetAnswered, RnetbootAnswered, Before, After, ContainErrors
<1>. QED  BY <1>1, GoInv, HaltInv

\* The rows are posted, and counted.
LEMMA AddDisksInv ==
    ASSUME IInv, ~shared, NEW rsp \in Answers, AddDisksAnswered(rsp)
    PROVE  IInv'
<1> DEFINE c    == Cmd(IF builtin THEN "makehosts" ELSE "makedns")
           rows == {Disk(i) : i \in 1..disks} \cup {Zfcp(i) : i \in 1..zfcp}
<1>1. c \in Before
  BY DEF Before
<1>2. CASE HasText(rsp)
  BY <1>1, <1>2, HaltInv DEF AddDisksAnswered
<1>3. CASE ~HasText(rsp)
  <2>1. /\ Follow(c, rows) /\ disks2add' = disks /\ zfcp2add' = zfcp
        /\ loader' = (rows # {}) /\ UNCHANGED <<attached, failed>>
    BY <1>3 DEF AddDisksAnswered
  <2>2. c \in calls /\ calls = {c} /\ ~failed /\ ~lost /\ stage = "run" /\ BeforeRows
    BY <1>1, <2>1, OnlyOne, StepKinds DEF Follow
  <2>3. /\ calls' = rows /\ asked' = asked \cup rows
        /\ UNCHANGED <<stage, disks, zfcp, frozen, lost>>
    BY <2>1, <2>2 DEF Follow, form
  <2>4. asked \subseteq Before /\ attached = {} /\ attached' = {}
    BY <2>1, <2>2 DEF BeforeRows
  <2>5. \A r \in rows : IsRow(r)
    BY DEF IsRow, Disk, Zfcp
  <2>6. Left("chvm-disk")' = {[cmd |-> "chvm-disk", row |-> i] : i \in 1..disks}
    BY <2>3, <2>4 DEF Left, Disk, Zfcp, Before, Cmd
  <2>7. Left("chvm-zfcp")' = {[cmd |-> "chvm-zfcp", row |-> i] : i \in 1..zfcp}
    BY <2>3, <2>4 DEF Left, Disk, Zfcp, Before, Cmd
  <2>8. Counted'
    <3>1. disks \in Nat /\ zfcp \in Nat
      BY DEF IInv, Sizes
    <3>2. IsFiniteSet(Left("chvm-disk")') /\ Cardinality(Left("chvm-disk")') <= disks
      BY <2>6, <3>1, RowsCounted
    <3>3. IsFiniteSet(Left("chvm-zfcp")') /\ Cardinality(Left("chvm-zfcp")') <= zfcp
      BY <2>7, <3>1, RowsCounted
    <3>. QED  BY <2>1, <3>1, <3>2, <3>3 DEF Counted
  <2>9. WithRows'
    BY <2>1, <2>2, <2>3, <2>4, <2>5, <2>8 DEF WithRows
  <2>10. Sizes'
    BY <2>3 DEF IInv, Sizes
  <2>. QED  BY <2>9, <2>10 DEF IInv
<1>. QED  BY <1>2, <1>3

\* Only while rows are in flight is a row answered.
LEMMA InRows ==
    ASSUME IInv, ~shared, NEW row \in calls, IsRow(row)
    PROVE  WithRows /\ row \in asked /\ row \notin attached
  BY StepKinds DEF IInv, BeforeRows, WithRows, AfterRows

\* A row is attached: its counter goes down with the rows that are left.
LEMMA RowCounted ==
    ASSUME IInv, ~shared, NEW row \in Rows, NEW rsp \in Answers,
           RowAnswered(row, rsp), ~ContainErrors(rsp), asked' \in {asked, asked \cup {Cmd("noderes")}}
    PROVE  /\ Left("chvm-disk")' = Left("chvm-disk") \ {row}
           /\ Left("chvm-zfcp")' = Left("chvm-zfcp") \ {row}
           /\ Counted'
<1>1. IsRow(row)
  BY DEF Rows, IsRow, Disk, Zfcp
<1>2. row \in calls
  BY DEF RowAnswered, Follow
<1>3. WithRows /\ row \in asked /\ row \notin attached
  BY <1>1, <1>2, InRows
<1>4. attached' = attached \cup {row}
  BY DEF RowAnswered
<1>5. Left("chvm-disk")' = Left("chvm-disk") \ {row}
  BY <1>4 DEF Left, Cmd
<1>6. Left("chvm-zfcp")' = Left("chvm-zfcp") \ {row}
  BY <1>4 DEF Left, Cmd
<1>7. CASE row.cmd = "chvm-disk"
  <2>1. row \in Left("chvm-disk") /\ Left("chvm-zfcp") \ {row} = Left("chvm-zfcp")
    BY <1>3, <1>7 DEF Left
  <2>2. disks2add' = OneLess(disks2add) /\ zfcp2add' = zfcp2add
    BY <1>7 DEF RowAnswered
  <2>3. Counted
    BY <1>3 DEF WithRows
  <2>4. /\ IsFiniteSet(Left("chvm-disk") \ {row}) /\ OneLess(disks2add) \in Nat
        /\ Cardinality(Left("chvm-disk") \ {row}) <= OneLess(disks2add)
    BY <2>1, <2>3, OneLessLeft DEF Counted
  <2>. QED  BY <1>5, <1>6, <2>1, <2>2, <2>3, <2>4 DEF Counted
<1>8. CASE row.cmd = "chvm-zfcp"
  <2>1. row \in Left("chvm-zfcp") /\ Left("chvm-disk") \ {row} = Left("chvm-disk")
    BY <1>3, <1>8 DEF Left
  <2>2. disks2add' = disks2add /\ zfcp2add' = OneLess(zfcp2add)
    BY <1>8 DEF RowAnswered
  <2>3. Counted
    BY <1>3 DEF WithRows
  <2>4. /\ IsFiniteSet(Left("chvm-zfcp") \ {row}) /\ OneLess(zfcp2add) \in Nat
        /\ Cardinality(Left("chvm-zfcp") \ {row}) <= OneLess(zfcp2add)
    BY <2>1, <2>3, OneLessLeft DEF Counted
  <2>. QED  BY <1>5, <1>6, <2>1, <2>2, <2>3, <2>4 DEF Counted
<1>. QED  BY <1>1, <1>5, <1>6, <1>7, <1>8 DEF IsRow

\* When both counters reach zero, every row is attached, nothing is in flight and
\* nothing has failed.
LEMMA AllAttached ==
    ASSUME IInv, ~shared, NEW row \in Rows, NEW rsp \in Answers,
           RowAnswered(row, rsp), ~ContainErrors(rsp), zfcp2add' < 1, disks2add' < 1
    PROVE  /\ WithRows
           /\ \A r \in asked : IsRow(r) => r \in attached'
           /\ calls = {row} /\ ~failed /\ ~lost /\ loader
<1>1. IsRow(row) /\ row \in calls
  BY DEF Rows, IsRow, Disk, Zfcp, RowAnswered, Follow
<1>2. WithRows /\ row \in asked /\ row \notin attached
  BY <1>1, InRows
<1>3. asked' \in {asked, asked \cup {Cmd("noderes")}}
  BY DEF RowAnswered, Follow
<1>4. /\ Left("chvm-disk") \ {row} = Left("chvm-disk")'
      /\ Left("chvm-zfcp") \ {row} = Left("chvm-zfcp")'
      /\ Counted'
  BY <1>3, RowCounted
<1>5. Left("chvm-disk") \ {row} = {} /\ Left("chvm-zfcp") \ {row} = {}
  BY <1>4, NoneLeft DEF Counted
<1>6. \A r \in asked : IsRow(r) => r \in attached \/ r = row
  BY <1>5 DEF Left, IsRow
<1>7. attached' = attached \cup {row}
  BY DEF RowAnswered
<1>8. calls = {row}
  BY <1>1, <1>2, <1>6 DEF WithRows
<1>9. ~Stuck
  BY <1>1, <1>6 DEF Stuck
<1>. QED  BY <1>2, <1>6, <1>7, <1>8, <1>9 DEF WithRows

LEMMA RowInv ==
    ASSUME IInv, ~shared, NEW row \in Rows, NEW rsp \in Answers, RowAnswered(row, rsp)
    PROVE  IInv'
<1>1. IsRow(row) /\ row \in calls
  BY DEF Rows, IsRow, Disk, Zfcp, RowAnswered, Halt, Follow
<1>2. WithRows /\ row \in asked /\ row \notin attached
  BY <1>1, InRows
<1>3. Sizes' /\ UNCHANGED <<stage, lost>>
  BY DEF RowAnswered, Halt, Follow, form, IInv, Sizes
<1>4. CASE ContainErrors(rsp)
  <2>1. /\ calls' = calls \ {row} /\ asked' = asked /\ failed' /\ ~loader'
        /\ UNCHANGED <<disks2add, zfcp2add, attached>>
    BY <1>4 DEF RowAnswered, Halt, Follow, counters
  <2>2. Stuck'
    BY <1>1, <1>2, <2>1 DEF Stuck
  <2>3. Counted'
    BY <1>2, <2>1 DEF WithRows, Counted, Left
  <2>4. WithRows'
    BY <1>2, <1>3, <2>1, <2>2, <2>3 DEF WithRows
  <2>. QED  BY <1>3, <2>4 DEF IInv
<1>5. CASE ~ContainErrors(rsp) /\ zfcp2add' < 1 /\ disks2add' < 1
  <2>1. /\ \A r \in asked : IsRow(r) => r \in attached'
        /\ calls = {row} /\ ~failed /\ ~lost /\ loader
    BY <1>5, AllAttached
  <2>2. /\ Follow(row, IF os THEN {Cmd("noderes")} ELSE {})
        /\ loader' = (os /\ loader) /\ UNCHANGED failed
    BY <1>5 DEF RowAnswered
  <2>3. CASE os
    <3>1. calls' = {Cmd("noderes")} /\ asked' = asked \cup {Cmd("noderes")} /\ loader'
      BY <2>1, <2>2, <2>3 DEF Follow
    <3>2. Cmd("noderes") \in After
      BY DEF After
    <3>3. AfterRows'
      BY <1>2, <1>3, <2>1, <2>2, <3>1, <3>2, StepKinds DEF WithRows, AfterRows, Alone, Quiet
    <3>. QED  BY <1>3, <3>3 DEF IInv
  <2>4. CASE ~os
    <3>1. calls' = {} /\ asked' = asked
      BY <2>1, <2>2, <2>4 DEF Follow
    <3>2. AfterRows'
      BY <1>2, <1>3, <2>1, <3>1 DEF WithRows, AfterRows, Alone, Quiet
    <3>. QED  BY <1>3, <3>2 DEF IInv
  <2>. QED  BY <2>3, <2>4
<1>6. CASE ~ContainErrors(rsp) /\ ~(zfcp2add' < 1 /\ disks2add' < 1)
  <2>1. /\ calls' = calls \ {row} /\ asked' = asked /\ attached' = attached \cup {row}
        /\ UNCHANGED <<loader, failed>>
    BY <1>6 DEF RowAnswered, Follow
  <2>2. Counted'
    BY <1>6, <2>1, RowCounted
  <2>3. Stuck => Stuck'
    BY <1>1, <2>1 DEF Stuck
  <2>4. WithRows'
    BY <1>2, <1>3, <2>1, <2>2, <2>3 DEF WithRows
  <2>. QED  BY <1>3, <2>4 DEF IInv
<1>. QED  BY <1>4, <1>5, <1>6

\* A row that is lost is stuck; another request is the only one.
LEMMA LoseInv ==
    ASSUME IInv, ~shared, NEW c, Lose(c)
    PROVE  IInv'
<1>1. /\ c \in calls /\ calls' = calls \ {c} /\ lost'
      /\ UNCHANGED <<stage, disks, zfcp, frozen, disks2add, zfcp2add, loader, asked, attached,
                      failed>>
  BY DEF Lose, form, counters
<1>2. Sizes'
  BY <1>1 DEF IInv, Sizes
<1>3. CASE IsRow(c)
  <2>1. WithRows /\ c \in asked /\ c \notin attached
    BY <1>1, <1>3, InRows
  <2>2. Stuck'
    BY <1>1, <1>3, <2>1 DEF Stuck
  <2>3. Counted'
    BY <1>1, <2>1 DEF WithRows, Counted, Left
  <2>4. WithRows'
    BY <1>1, <2>1, <2>2, <2>3 DEF WithRows
  <2>. QED  BY <1>2, <2>4 DEF IInv
<1>4. CASE ~IsRow(c)
  <2>1. calls = {c} /\ stage = "run" /\ (BeforeRows \/ AfterRows)
    BY <1>1, <1>4, OnlyOne
  <2>2. BeforeRows' \/ AfterRows'
    BY <1>1, <2>1 DEF BeforeRows, AfterRows, Alone, Quiet
  <2>. QED  BY <1>2, <2>2 DEF IInv
<1>. QED  BY <1>3, <1>4

---------------------------------------------------------------------------------
LEMMA AnswerShared ==
    ASSUME Answer \/ (\E c \in Chain : Lose(c)) \/ OtherWindow, Sizes, shared \/ OtherWindow
    PROVE  Sizes' /\ (shared \/ OtherWindow => shared')
<1>1. UNCHANGED <<disks, zfcp, frozen>>
  BY DEF Answer, NodeaddAnswered, MkvmAnswered, MakehostsAnswered, AddDisksAnswered, RowAnswered,
         NoderesAnswered, PrepareAnswered, NodesetAnswered, RnetbootAnswered, Go, Halt, Follow,
         Lose, OtherWindow, form
<1>2. shared \/ OtherWindow => shared'
  BY DEF Answer, NodeaddAnswered, MkvmAnswered, MakehostsAnswered, AddDisksAnswered, RowAnswered,
         NoderesAnswered, PrepareAnswered, NodesetAnswered, RnetbootAnswered, Go, Halt, Follow,
         Lose, OtherWindow
<1>. QED  BY <1>1, <1>2 DEF Sizes

LEMMA StepInv == IInv /\ [Next]_vars => IInv'
<1> SUFFICES ASSUME IInv, [Next]_vars PROVE IInv'
  OBVIOUS
<1>1. CASE User
  BY <1>1, UserInv
<1>2. CASE /\ Answer \/ (\E c \in Chain : Lose(c)) \/ OtherWindow
           /\ shared \/ OtherWindow
  BY <1>2, AnswerShared DEF IInv
<1>3. CASE Answer /\ ~shared
  BY <1>3, StepsInv, AddDisksInv, RowInv DEF Answer
<1>4. CASE (\E c \in Chain : Lose(c)) /\ ~shared
  BY <1>4, LoseInv
<1>5. CASE UNCHANGED vars
  BY <1>5 DEF vars, form, counters, history, IInv, Sizes, BeforeRows, WithRows, AfterRows, Counted,
              Left, Stuck, Alone, Quiet
<1>. QED  BY <1>1, <1>2, <1>3, <1>4, <1>5 DEF Next

LEMMA Invariance == Spec => []IInv
<1>. QED  BY InitInv, StepInv, PTL DEF Spec

\* Setting the operating system, or booting, comes from one callback each.
LEMMA WhoSetsOs ==
    ASSUME Next, Cmd("noderes") \in calls' \ calls
    PROVE  \E row \in Rows, rsp \in Answers : /\ RowAnswered(row, rsp) /\ ~ContainErrors(rsp)
                                             /\ zfcp2add' < 1 /\ disks2add' < 1
<1>1. CASE \E row \in Rows, rsp \in Answers : RowAnswered(row, rsp)
  BY <1>1 DEF RowAnswered, Halt, Follow
<1>2. CASE \/ User \/ OtherWindow \/ \E c \in Chain : Lose(c)
           \/ \E rsp \in Answers :
                \/ NodeaddAnswered(rsp) \/ MkvmAnswered(rsp) \/ MakehostsAnswered(rsp)
                \/ AddDisksAnswered(rsp)
                \/ NoderesAnswered(rsp) \/ PrepareAnswered(rsp) \/ NodesetAnswered(rsp)
                \/ RnetbootAnswered(rsp)
  <2>1. Cmd("noderes") \notin calls' \ calls
    BY <1>2 DEF User, SelectOs, AddDisk, AddZfcp, RemoveRow, ClickProvision, Confirm, Cancel, Submit,
         OtherWindow, Lose, NodeaddAnswered, MkvmAnswered, MakehostsAnswered, AddDisksAnswered,
         NoderesAnswered, PrepareAnswered, NodesetAnswered, RnetbootAnswered, Go, Halt, Follow,
         Cmd, Disk, Zfcp
  <2>. QED  BY <2>1
<1>. QED  BY <1>1, <1>2 DEF Next, Answer

LEMMA OsInv == IInv /\ [Next]_vars => OsStep
<1> SUFFICES ASSUME IInv, [Next]_vars, Cmd("noderes") \in calls' \ calls, ~shared
             PROVE  asked \cap Rows \subseteq attached' /\ Cmd("noderes") \notin asked
  BY DEF OsStep
<1>1. Next
  BY DEF vars
<1>2. PICK row \in Rows, rsp \in Answers : /\ RowAnswered(row, rsp) /\ ~ContainErrors(rsp)
                                          /\ zfcp2add' < 1 /\ disks2add' < 1
  BY <1>1, WhoSetsOs
<1>3. WithRows /\ \A r \in asked : IsRow(r) => r \in attached'
  BY <1>2, AllAttached
<1>4. \A r \in Rows : IsRow(r)
  BY DEF Rows, IsRow, Disk, Zfcp
<1>5. Cmd("noderes") \notin asked
  <2>1. Cmd("noderes") \in After
    BY DEF After
  <2>. QED  BY <1>3, <2>1, StepKinds DEF WithRows
<1>. QED  BY <1>3, <1>4, <1>5

LEMMA WhoBoots ==
    ASSUME Next, Cmd("rnetboot") \in calls' \ calls
    PROVE  Go(Cmd("nodeset"), Cmd("rnetboot"))
<1>1. CASE \E rsp \in Answers : NodesetAnswered(rsp)
  BY <1>1 DEF NodesetAnswered, Halt, Follow
<1>2. CASE \/ User \/ OtherWindow \/ \E c \in Chain : Lose(c)
           \/ \E row \in Rows, rsp \in Answers : RowAnswered(row, rsp)
           \/ \E rsp \in Answers :
                \/ NodeaddAnswered(rsp) \/ MkvmAnswered(rsp) \/ MakehostsAnswered(rsp)
                \/ AddDisksAnswered(rsp)
                \/ NoderesAnswered(rsp) \/ PrepareAnswered(rsp) \/ RnetbootAnswered(rsp)
  <2>1. Cmd("rnetboot") \notin calls' \ calls
    BY <1>2 DEF User, SelectOs, AddDisk, AddZfcp, RemoveRow, ClickProvision, Confirm, Cancel, Submit,
         OtherWindow, Lose, NodeaddAnswered, MkvmAnswered, MakehostsAnswered, AddDisksAnswered,
         RowAnswered, NoderesAnswered, PrepareAnswered, RnetbootAnswered, Go, Halt, Follow, Cmd,
         Disk, Zfcp
  <2>. QED  BY <2>1
<1>. QED  BY <1>1, <1>2 DEF Next, Answer

LEMMA BootInv == IInv /\ [Next]_vars => BootStep
<1> SUFFICES ASSUME IInv, [Next]_vars, Cmd("rnetboot") \in calls' \ calls, ~shared
             PROVE  ~failed' /\ ~lost'
  BY DEF BootStep
<1>1. Next
  BY DEF vars
<1>2. Go(Cmd("nodeset"), Cmd("rnetboot"))
  BY <1>1, WhoBoots
<1>3. Cmd("nodeset") \in calls /\ ~IsRow(Cmd("nodeset"))
  BY <1>2 DEF Go, Follow, IsRow, Cmd
<1>4. ~failed /\ ~lost
  BY <1>3, OnlyOne
<1>. QED  BY <1>2, <1>4 DEF Go, Follow

\* With the loader hidden only rows that cannot finish the tables are in flight.
LEMMA QuietInv == IInv /\ [Next]_vars => QuietStep
<1> SUFFICES ASSUME IInv, [Next]_vars, stage = "run", ~loader, ~shared
             PROVE  calls' \subseteq calls
  BY DEF QuietStep
<1>1. \A c \in calls : IsRow(c)
  BY OnlyOne
<1>2. CASE User
  BY <1>2 DEF User, SelectOs, AddDisk, AddZfcp, RemoveRow, ClickProvision, Confirm, Cancel, Submit
<1>3. ASSUME NEW row \in Rows, NEW rsp \in Answers, RowAnswered(row, rsp)
      PROVE  calls' \subseteq calls
  <2>1. CASE ~ContainErrors(rsp) /\ zfcp2add' < 1 /\ disks2add' < 1
    BY <1>3, <2>1, AllAttached
  <2>2. CASE ContainErrors(rsp) \/ ~(zfcp2add' < 1 /\ disks2add' < 1)
    BY <1>3, <2>2 DEF RowAnswered, Halt, Follow
  <2>. QED  BY <2>1, <2>2
<1>4. ASSUME NEW rsp \in Answers,
             \/ NodeaddAnswered(rsp) \/ MkvmAnswered(rsp) \/ MakehostsAnswered(rsp)
             \/ AddDisksAnswered(rsp)
             \/ NoderesAnswered(rsp) \/ PrepareAnswered(rsp) \/ NodesetAnswered(rsp)
             \/ RnetbootAnswered(rsp)
      PROVE  FALSE
  <2>1. \E c \in Before \cup After : c \in calls
    BY <1>4 DEF NodeaddAnswered, MkvmAnswered, MakehostsAnswered, AddDisksAnswered, NoderesAnswered,
          PrepareAnswered, NodesetAnswered, RnetbootAnswered, Go, Halt, Follow, Before, After
  <2>. QED  BY <1>1, <2>1, StepKinds
<1>5. CASE OtherWindow \/ (\E c \in Chain : Lose(c)) \/ UNCHANGED vars
  BY <1>5 DEF OtherWindow, Lose, vars
<1>. QED  BY <1>2, <1>3, <1>4, <1>5 DEF Next, Answer

\* updateZProvisionNewStatus sets the operating system once, after the last disk
\* and the last zFCP device, however many and in whatever order they answer.
THEOREM ProvisionOs == Spec => OsAfterDisks
<1>. QED  BY Invariance, OsInv, PTL DEF Spec, OsAfterDisks

\* It boots the node only if every command before succeeded.
THEOREM ProvisionBoot == Spec => BootOnlyIfAllSucceeded
<1>. QED  BY Invariance, BootInv, PTL DEF Spec, BootOnlyIfAllSucceeded

\* Once its loader is hidden it posts nothing more.
THEOREM ProvisionQuiet == Spec => QuietWhenHidden
<1>. QED  BY Invariance, QuietInv, PTL DEF Spec, QuietWhenHidden

---------------------------------------------------------------------------------
(* The types *)

LEMMA InitTypes == ASSUME {MaxDisks, MaxZfcp} \subseteq Nat PROVE Init => TypeOK
<1>1. 0 \in 0..MaxDisks /\ 0 \in 0..MaxZfcp
  OBVIOUS
<1>2. Init => /\ builtin \in BOOLEAN /\ os \in BOOLEAN /\ loader \in BOOLEAN
              /\ failed \in BOOLEAN /\ lost \in BOOLEAN /\ shared \in BOOLEAN
  BY Zenon DEF Init
<1>. QED  BY <1>1, <1>2 DEF Init, TypeOK

Flags ==
    /\ builtin \in BOOLEAN /\ os \in BOOLEAN /\ loader \in BOOLEAN
    /\ failed \in BOOLEAN /\ lost \in BOOLEAN /\ shared \in BOOLEAN
Numbers ==
    /\ disks \in 0..MaxDisks /\ zfcp \in 0..MaxZfcp
    /\ frozen \in [disks : 0..MaxDisks, zfcp : 0..MaxZfcp]
    /\ disks2add \in 0..MaxDisks /\ zfcp2add \in 0..MaxZfcp
Sets ==
    /\ stage \in {"edit", "confirm", "run"}
    /\ calls \subseteq Chain /\ asked \subseteq Chain /\ attached \subseteq Rows

LEMMA TypesAre == Flags' /\ Numbers' /\ Sets' => TypeOK'
  BY DEF TypeOK, Flags, Numbers, Sets

LEMMA ChainHas ==
    /\ \A c \in {"nodeadd", "mkvm", "makehosts", "makedns", "noderes", "makedhcp", "nodeset",
                 "rnetboot"} : Cmd(c) \in Chain
    /\ Rows \subseteq Chain
  BY DEF Chain

\* A callback that only follows, goes on or halts.
LEMMA FollowTypes ==
    ASSUME TypeOK, NEW c, NEW n \in Chain, NEW error, Go(c, n) \/ Halt(c, error)
    PROVE  TypeOK'
<1>1. Sets' /\ Numbers'
  <2>1. calls' \subseteq calls \cup {n} /\ asked' \subseteq asked \cup {n}
    BY DEF Go, Halt, Follow
  <2>2. UNCHANGED <<stage, disks, zfcp, frozen, disks2add, zfcp2add, attached>>
    BY DEF Go, Halt, Follow, form, counters
  <2>. QED  BY <2>1, <2>2 DEF TypeOK, Sets, Numbers
<1>2. Flags'
  <2>1. UNCHANGED <<builtin, os, lost, shared>>
    BY DEF Go, Halt, Follow, form
  <2>2. loader' \in BOOLEAN /\ failed' \in BOOLEAN
    <3>1. CASE Go(c, n)
      BY <3>1, Zenon DEF Go, TypeOK
    <3>2. CASE Halt(c, error)
      BY <3>2, Zenon DEF Halt, TypeOK
    <3>. QED  BY <3>1, <3>2
  <2>. QED  BY <2>1, <2>2, Zenon DEF Flags, TypeOK
<1>. QED  BY <1>1, <1>2, TypesAre

LEMMA AddDisksTypes ==
    ASSUME {MaxDisks, MaxZfcp} \subseteq Nat, TypeOK, NEW rsp \in Answers, AddDisksAnswered(rsp)
    PROVE  TypeOK'
<1> DEFINE c    == Cmd(IF builtin THEN "makehosts" ELSE "makedns")
           rows == {Disk(i) : i \in 1..disks} \cup {Zfcp(i) : i \in 1..zfcp}
<1>1. CASE HasText(rsp)
  <2>1. Halt(c, TRUE)
    BY <1>1 DEF AddDisksAnswered
  <2>. QED  BY <2>1, FollowTypes, ChainHas
<1>2. CASE ~HasText(rsp)
  <2>1. /\ Follow(c, rows) /\ disks2add' = disks /\ zfcp2add' = zfcp
        /\ loader' = (rows # {}) /\ UNCHANGED <<attached, failed>>
    BY <1>2 DEF AddDisksAnswered
  <2>2. rows \subseteq Rows
    <3>1. 1..disks \subseteq 1..MaxDisks /\ 1..zfcp \subseteq 1..MaxZfcp
      BY DEF TypeOK
    <3>. QED  BY <3>1 DEF Rows
  <2>3. /\ calls' \subseteq calls \cup rows /\ asked' = asked \cup rows
        /\ UNCHANGED <<builtin, stage, os, disks, zfcp, frozen, lost, shared>>
    BY <2>1 DEF Follow, form
  <2>4. Flags'
    BY <2>1, <2>3, Zenon DEF Flags, TypeOK
  <2>5. Numbers'
    BY <2>1, <2>3 DEF Numbers, TypeOK
  <2>6. Sets'
    BY <2>1, <2>2, <2>3, ChainHas DEF Sets, TypeOK
  <2>. QED  BY <2>4, <2>5, <2>6, TypesAre
<1>. QED  BY <1>1, <1>2

LEMMA RowTypes ==
    ASSUME {MaxDisks, MaxZfcp} \subseteq Nat, TypeOK,
            NEW row \in Rows, NEW rsp \in Answers, RowAnswered(row, rsp)
    PROVE  TypeOK'
<1>1. CASE ContainErrors(rsp)
  <2>1. Halt(row, TRUE)
    BY <1>1 DEF RowAnswered
  <2>. QED  BY <2>1, FollowTypes, ChainHas
<1>2. CASE ~ContainErrors(rsp)
  <2>1. /\ disks2add' = IF row.cmd = "chvm-disk" THEN OneLess(disks2add) ELSE disks2add
        /\ zfcp2add' = IF row.cmd = "chvm-zfcp" THEN OneLess(zfcp2add) ELSE zfcp2add
        /\ attached' = attached \cup {row} /\ UNCHANGED failed
        /\ \E next \in {{Cmd("noderes")}, {}} : Follow(row, next)
        /\ loader' = (os /\ loader) \/ loader' = loader
    BY <1>2 DEF RowAnswered
  <2>2. /\ UNCHANGED <<builtin, stage, os, disks, zfcp, frozen, lost, shared>>
        /\ calls' \subseteq calls \cup {Cmd("noderes")}
        /\ asked' \subseteq asked \cup {Cmd("noderes")}
    BY <2>1 DEF Follow, form
  <2>3. Numbers'
    <3>1. ASSUME NEW most \in Nat, NEW n \in 0..most PROVE OneLess(n) \in 0..most
      BY DEF OneLess
    <3>2. disks2add' \in 0..MaxDisks /\ zfcp2add' \in 0..MaxZfcp
      BY <2>1, <3>1 DEF TypeOK
    <3>. QED  BY <2>2, <3>2 DEF Numbers, TypeOK
  <2>4. Sets'
    BY <2>1, <2>2, ChainHas DEF Sets, TypeOK
  <2>5. loader' \in BOOLEAN
    BY <2>1, Zenon DEF TypeOK
  <2>6. Flags'
    BY <2>1, <2>2, <2>5, Zenon DEF Flags, TypeOK
  <2>. QED  BY <2>3, <2>4, <2>6, TypesAre
<1>. QED  BY <1>1, <1>2

LEMMA UserTypes == ASSUME {MaxDisks, MaxZfcp} \subseteq Nat, TypeOK, User PROVE TypeOK'
<1>1. CASE SelectOs
  <2>1. os' \in BOOLEAN
    BY <1>1, Zenon DEF SelectOs
  <2>2. Flags'
    BY <1>1, <2>1, Zenon DEF SelectOs, Flags, TypeOK, history
  <2>3. Numbers' /\ Sets'
    BY <1>1 DEF SelectOs, Numbers, Sets, TypeOK, history, counters
  <2>. QED  BY <2>2, <2>3, TypesAre
<1>2. CASE AddDisk \/ AddZfcp \/ RemoveRow
  <2>1. /\ UNCHANGED <<builtin, stage, os, frozen, calls, counters, loader, history>>
        /\ disks' \in 0..MaxDisks /\ zfcp' \in 0..MaxZfcp
    <3>1. /\ disks \in 0..MaxDisks /\ zfcp \in 0..MaxZfcp
          /\ frozen.disks \in 0..MaxDisks /\ frozen.zfcp \in 0..MaxZfcp
      BY DEF TypeOK
    <3>2. CASE AddDisk \/ AddZfcp
      BY <3>1, <3>2 DEF AddDisk, AddZfcp
    <3>3. CASE RemoveRow
      <4>1. PICK d \in 0..MaxDisks, z \in 0..MaxZfcp : d = frozen.disks /\ z = frozen.zfcp
        BY <3>1
      <4>2. \/ disks > d /\ disks' = disks - 1 /\ UNCHANGED zfcp
            \/ zfcp > z /\ zfcp' = zfcp - 1 /\ UNCHANGED disks
        BY <3>3, <4>1 DEF RemoveRow
      <4>3. disks' \in 0..MaxDisks /\ zfcp' \in 0..MaxZfcp
        BY <3>1, <4>2
      <4>. QED  BY <3>3, <4>3 DEF RemoveRow
    <3>. QED  BY <1>2, <3>2, <3>3
  <2>2. Flags'
    BY <2>1, Zenon DEF Flags, TypeOK, history
  <2>3. Numbers' /\ Sets'
    BY <2>1 DEF Numbers, Sets, TypeOK, counters, history
  <2>. QED  BY <2>2, <2>3, TypesAre
<1>3. ASSUME Submit PROVE TypeOK'
  <2>1. Flags'
    BY <1>3, Zenon DEF Submit, Flags, TypeOK
  <2>2. Numbers' /\ Sets'
    BY <1>3, ChainHas DEF Submit, Numbers, Sets, TypeOK, counters
  <2>. QED  BY <2>1, <2>2, TypesAre
<1>4. CASE ClickProvision \/ Confirm \/ Cancel
  <2>1. CASE Submit
    BY <1>3, <2>1
  <2>2. CASE ~Submit
    <3>1. /\ stage' \in {"edit", "confirm"}
          /\ UNCHANGED <<builtin, os, disks, zfcp, frozen, calls, counters, loader, history>>
      BY <1>4, <2>2 DEF ClickProvision, Confirm, Cancel
    <3>. QED  BY <3>1 DEF TypeOK, counters, history
  <2>. QED  BY <2>1, <2>2
<1>. QED  BY <1>1, <1>2, <1>4 DEF User

LEMMA StepTypes ==
    ASSUME {MaxDisks, MaxZfcp} \subseteq Nat PROVE TypeOK /\ [Next]_vars => TypeOK'
<1> SUFFICES ASSUME TypeOK, [Next]_vars PROVE TypeOK'
  OBVIOUS
<1>1. CASE User
  BY <1>1, UserTypes
<1>2. ASSUME NEW rsp \in Answers,
             \/ NodeaddAnswered(rsp) \/ MkvmAnswered(rsp) \/ MakehostsAnswered(rsp)
             \/ NoderesAnswered(rsp) \/ PrepareAnswered(rsp) \/ NodesetAnswered(rsp)
             \/ RnetbootAnswered(rsp)
      PROVE  TypeOK'
  <2>1. \E c, error : \E n \in Chain : Go(c, n) \/ Halt(c, error)
    BY <1>2, ChainHas DEF NodeaddAnswered, MkvmAnswered, MakehostsAnswered, NoderesAnswered,
                          PrepareAnswered, NodesetAnswered, RnetbootAnswered
  <2>. QED  BY <2>1, FollowTypes
<1>3. ASSUME NEW rsp \in Answers, AddDisksAnswered(rsp) PROVE TypeOK'
  BY <1>3, AddDisksTypes
<1>4. ASSUME NEW rsp \in Answers, NEW row \in Rows, RowAnswered(row, rsp) PROVE TypeOK'
  BY <1>4, RowTypes
<1>5. ASSUME NEW c \in Chain, Lose(c) PROVE TypeOK'
  BY <1>5 DEF Lose, TypeOK, form, counters
<1>6. CASE OtherWindow
  BY <1>6 DEF OtherWindow, TypeOK, form
<1>7. CASE UNCHANGED vars
  BY <1>7 DEF vars, TypeOK, form, counters, history
<1>. QED  BY <1>1, <1>2, <1>3, <1>4, <1>5, <1>6, <1>7 DEF Next, Answer
=================================================================================
