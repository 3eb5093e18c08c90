------------------------- MODULE GoalSessionProofs -------------------------
(***************************************************************************)
(* Proofs about GoalSession, for any processes, calls, budgets and bounds: *)
(* its type invariant, that only audited goals are complete, that no       *)
(* active goal is over its budget, that one goal is focused, and what the  *)
(* lock of the session does and does not exclude.                          *)
(*                                                                         *)
(* GoalInv is the inductive invariant.  Its parts follow the goal objects  *)
(* on their way: the rows of the table, the snapshot, and the rows that    *)
(* calls carry over an await.                                              *)
(***************************************************************************)
EXTENDS GoalSession, WellFoundedInduction, TLAPS

\* Goals are known once they are created; one that is gone was cleared or replaced.
Known ==
  /\ created \in 0..MaxGoals
  /\ exists \subseteq 1..created
  /\ last \in exists \/ (last = 0 /\ exists = {})
  /\ \A g \in 1..created : g \notin exists => wish[g] = "clear"

Limited == \A g \in GoalId : goals[g].status = "active" /\ wish[g] # "clear"
                               => ~OverBudget(goals[g])
Audited == \A g \in GoalId : goals[g].status = "complete" => g \in audited

\* At most one goal is focused that the user has not cleared.  It is the current one,
\* and if it was not written last, all later goals are in the table.
FocusInv ==
  /\ OneFocused
  /\ Current # 0 /\ wish[Current] = "clear" => \A g \in Focused : wish[g] = "clear"
  /\ last \notin Focused =>
       \A h \in Focused : wish[h] = "clear" \/ \A g \in 1..created : g > h => g \in exists

\* What is true of a snapshot s, with n goals created and those of set a audited.
SnapOK(s, n, a) ==
  s \in Snapshot /\ s.id <= n /\ (s.row.status = "complete" => s.id \in a)

TableInv ==
  /\ goals \in [GoalId -> Row]
  /\ Known /\ Limited /\ Audited /\ FocusInv
  /\ SnapOK(snap, created, audited)

Wishes == [GoalId -> {"none", "run", "stop", "clear"}]
HistInv == wish \in Wishes /\ audited \subseteq GoalId /\ lost \subseteq Task

LockInv ==
  /\ lock \in Lock
  /\ lock.owner = 0 => lock = NoLock
  /\ lock.owner # 0 => lock.pid # 0
  /\ up \in [Proc -> {"new", "up", "dead"}] /\ owner \in [Proc -> Proc]
  /\ inflight \subseteq Proc

\* What is true of the local state l of a call.
Idle == {"new", "done", "refused"}
LocalOK(l, n, a) ==
  /\ l \in Local
  /\ l.pc \notin Idle => l.at \in Proc
  /\ l.pc \in {"freezing", "judging", "proving", "auditing", "recovering"} => l.id # 0
  /\ l.id + l.rest <= n
  /\ l.row.status = "complete" => l.id \in a

TaskInv ==
  /\ task \in [Task -> Local]
  /\ \A t \in Task : LocalOK(task[t], created, audited)

\* Calls are in processes that run, and prompts hold the lock unless they lost it.
DriveInv ==
  \A t \in Task :
    /\ task[t].pc \notin Idle => up[task[t].at] = "up"
    /\ task[t].pc = "prompting" => lock.owner = owner[task[t].at] \/ t \in lost

GoalInv == TableInv /\ HistInv /\ LockInv /\ TaskInv /\ DriveInv

-----------------------------------------------------------------------------
(* Values.                                                                 *)

\* The names of statuses, reasons and verdicts, and the bounds, in one fact.
LEMMA Names ==
  /\ {"active", "paused", "budget_limited", "complete", "impossible", "unmet"} \subseteq GoalStatus
  /\ {"none", "user", "interrupt", "budget", "audit", "blocked", "plan", "no_progress",
      "loop", "queued"} \subseteq PauseReason
  /\ {"none", "met", "not_met", "impossible"} \subseteq Verdict
  /\ {"none", "start", "continuation", "budget_limit"} \subseteq PromptKind
  /\ MaxTokens \in Nat /\ MaxGoals \in Nat /\ Budget \subseteq Nat /\ 0 \in Nat
  /\ 0 \in 0..MaxTokens
  BY GoalAssumption DEF GoalStatus, PauseReason, Verdict, PromptKind

\* The records that handlers start from are rows.
LEMMA RowValues ==
  /\ NewRow \in Row /\ NewRow.status = "active" /\ NewRow.budget = 0
  /\ Queued \in Row /\ Queued.status = "paused" /\ Queued.budget = 0
  /\ \A r : /\ NewGoal(r) \in Row /\ NewGoal(r).status # "complete"
            /\ NewGoal(r).budget = 0 /\ NewGoal(r).tokens = 0
  <1>1. NewRow \in Row /\ NewRow.status = "active" /\ NewRow.budget = 0 /\ NewRow.tokens = 0
    BY Names DEF NewRow, Row
  <1>2. Queued \in Row /\ Queued.status = "paused" /\ Queued.budget = 0
    BY Names, <1>1 DEF Queued, Row
  <1>3. ASSUME NEW r
        PROVE  /\ NewGoal(r) \in Row /\ NewGoal(r).status # "complete"
               /\ NewGoal(r).budget = 0 /\ NewGoal(r).tokens = 0
    <2>1. CASE r
      <3>1. NewGoal(r) = [NewRow EXCEPT !.status = "paused", !.reason = "plan"]
        BY <2>1, Zenon DEF NewGoal
      <3>. QED
        BY <3>1, <1>1, Names DEF Row
    <2>2. CASE ~r
      <3>1. NewGoal(r) = NewRow
        BY <2>2, Zenon DEF NewGoal
      <3>. QED
        BY <3>1, <1>1
    <2>. QED
      BY <2>1, <2>2
  <1>. QED
    BY <1>1, <1>2, <1>3

\* update() keeps a row a row, completes none, and leaves none active over budget.
LEMMA CappedValues ==
  ASSUME NEW row \in Row
  PROVE  /\ Capped(row) \in Row
         /\ Capped(row).status = "complete" <=> row.status = "complete"
         /\ Capped(row).status = "active" => ~OverBudget(Capped(row))
         /\ Capped(row).status = "active" => Capped(row) = row
         /\ Capped(row).focused = row.focused
  BY Names DEF Capped, OverBudget, Row

\* The snapshot of a known goal.
LEMMA SnapshotValues ==
  ASSUME NEW g \in GoalId \cup {0}, NEW row \in Row, NEW n \in Nat, g <= n, NEW a,
         row.status = "complete" => g \in a
  PROVE  SnapOK(SnapshotOf(g, row), n, a)
  BY DEF SnapOK, SnapshotOf, Snapshot, Row, PromptKind

\* Calls that have ended know no goal.
LEMMA LocalValues ==
  ASSUME NEW n \in Nat, NEW a, NEW l, l \in {New, Done, Refused}
  PROVE  LocalOK(l, n, a) /\ l.pc \in Idle
  <1>1. PICK pc \in Idle : l = Waiting(pc, 0, 0, NewRow, "none", FALSE, 0)
    BY DEF New, Done, Refused, Idle
  <1>2. /\ l \in Local
        /\ l.pc = pc /\ l.id = 0 /\ l.rest = 0 /\ l.row = NewRow
    <2>1. pc \in Pc
      BY DEF Pc, Idle
    <2>2. /\ 0 \in Proc \cup {0} /\ 0 \in GoalId \cup {0} /\ "none" \in PromptKind
          /\ FALSE \in BOOLEAN /\ 0 \in 0..1 /\ NewRow \in Row
      BY RowValues, Names
    <2>. QED
      BY <1>1, <2>1, <2>2 DEF Waiting, Local
  <1>. QED
    BY <1>2, RowValues DEF LocalOK, Idle

\* Rows of the table, and what handlers make of them.
LEMMA CurrentGoal ==
  ASSUME TableInv
  PROVE  /\ Current \in exists \cup {0}
         /\ Current # 0 => Current \in 1..created /\ Current \in GoalId
                            /\ goals[Current] \in Row
                            /\ (goals[Current].status = "complete" => Current \in audited)
         /\ Current = 0 => exists = {} /\ last = 0
         /\ created \in Nat /\ created <= MaxGoals /\ Current <= created
  <1>1. Newest \subseteq exists
    BY DEF Newest, Focused
  <1>2. Current \in exists \cup {0}
    BY <1>1 DEF TableInv, Known, Current
  <1>3. Current = 0 => exists = {} /\ last = 0
    BY <1>1, GoalAssumption DEF TableInv, Known, Current, Focused
  <1>. QED
    BY <1>2, <1>3, GoalAssumption DEF TableInv, Known, Audited, GoalId

\* A set of numbers has a least one, and a greatest one if it is bounded.
LEMMA Smallest ==
  ASSUME NEW S, S \subseteq Nat, S # {}
  PROVE  \E x \in S : \A y \in S : x <= y
  <1>. DEFINE R == OpToRel(<, Nat)
  <1>1. IsWellFoundedOn(R, Nat)
    BY NatLessThanWellFounded
  <1>2. \A x, y \in S : y < x => <<y, x>> \in R
    BY DEF OpToRel
  <1>. HIDE DEF R
  <1>3. PICK x \in S : \A y \in S : ~(<<y, x>> \in R)
    BY <1>1, WFMin
  <1>4. ASSUME NEW y \in S PROVE x <= y
    <2>1. ~(y < x)
      BY <1>2, <1>3
    <2>2. x \in Int /\ y \in Int
      OBVIOUS
    <2>. QED
      BY <2>1, <2>2
  <1>. QED
    BY <1>4

LEMMA Greatest ==
  ASSUME NEW S, NEW n \in Nat, S \subseteq 1..n, S # {}
  PROVE  \E x \in S : \A y \in S : y <= x
  <1>. DEFINE T == {n - x : x \in S}
  <1>1. \A x \in S : n - x \in Nat
    OBVIOUS
  <1>0. T \subseteq Nat /\ T # {}
    BY <1>1
  <1>. HIDE DEF T
  <1>2. PICK m \in T : \A k \in T : m <= k
    BY <1>0, Smallest
  <1>3. PICK x \in S : m = n - x
    BY DEF T
  <1>4. ASSUME NEW y \in S PROVE y <= x
    <2>1. n - x <= n - y
      BY <1>2, <1>3 DEF T
    <2>2. n \in Int /\ x \in Int /\ y \in Int
      OBVIOUS
    <2>. QED
      BY <2>1, <2>2
  <1>. QED
    BY <1>4

-----------------------------------------------------------------------------
(* The focus.                                                              *)

\* get() returns a focused goal if there is one: the one written last, or the newest.
LEMMA CurrentFocus ==
  ASSUME Known
  PROVE  /\ Focused = {} => Current = last
         /\ last \in Focused => Current = last
         /\ Focused # {} => Current \in Focused
         /\ Focused # {} /\ last \notin Focused => \A g \in Focused : g <= Current
  <1>1. Focused \subseteq 1..created /\ created \in Nat
    <2>1. created \in Nat
      BY GoalAssumption DEF Known
    <2>2. Focused \subseteq exists /\ exists \subseteq 1..created
      BY DEF Known, Focused
    <2>. QED
      BY <2>1, <2>2
  <1>2. Focused # {} => Newest # {}
    <2>1. Focused # {} => \E x \in Focused : \A y \in Focused : y <= x
      BY <1>1, Greatest
    <2>. QED
      BY <2>1 DEF Newest
  <1>3. Focused # {} /\ last \notin Focused => Current \in Newest
    BY <1>2 DEF Current
  <1>4. Focused = {} => Newest = {}
    BY DEF Newest
  <1>5. \A g \in Newest : g \in Focused /\ \A h \in Focused : h <= g
    BY DEF Newest
  <1>6. last \in Focused \/ Newest = {} => Current = last
    BY DEF Current
  <1>. QED
    BY <1>3, <1>4, <1>5, <1>6

\* Nothing is focused but the goal written last.
LEMMA FocusOfLast ==
  ASSUME Focused' \subseteq {last'}
  PROVE  FocusInv'
  <1>1. Current' = last'
    BY DEF Current, Newest
  <1>. QED
    BY <1>1 DEF FocusInv, OneFocused

\* A new table has one focused row, that of goal n.
LEMMA FocusedIn ==
  ASSUME NEW n, exists' \subseteq GoalId,
         \A g \in GoalId : g \in exists' /\ g # n => ~goals'[g].focused
  PROVE  Focused' \subseteq {n}
  BY DEF Focused

\* The current goal is written.
LEMMA FocusKeeps ==
  ASSUME Known, FocusInv, Current # 0, Current \in GoalId, exists \subseteq GoalId,
         \A g \in GoalId \ {Current} : goals'[g] = goals[g] /\ wish'[g] = wish[g],
         wish'[Current] = "clear" => wish[Current] = "clear",
         exists' = exists, last' = Current, created' = created
  PROVE  FocusInv'
  <1>1. Focused' \subseteq GoalId /\ \A g \in Focused' : g # Current => g \in Focused
    BY DEF Focused
  <1>2. CASE Current \notin Focused
    <2>1. Focused = {}
      BY <1>2, CurrentFocus
    <2>. QED
      BY <1>1, <2>1, FocusOfLast
  <1>3. CASE Current \in Focused
    <2>1. \A g \in Focused' : g # Current => wish'[g] = "clear"
      BY <1>1, <1>3 DEF FocusInv, OneFocused
    <2>2. Current \in Focused' => Current' = Current
      BY DEF Current
    <2>3. wish'[Current] = "clear" => \A g \in Focused' : wish'[g] = "clear"
      BY <2>1
    <2>. QED
      BY <2>1, <2>2, <2>3 DEF FocusInv, OneFocused
  <1>. QED
    BY <1>2, <1>3

-----------------------------------------------------------------------------
(* The table.                                                              *)

\* A step that leaves the table alone.
LEMMA KeepsTable ==
  ASSUME TableInv, UNCHANGED tableVars, wish' = wish, audited \subseteq audited'
  PROVE  TableInv' /\ created' = created
  <1>1. FocusInv'
    BY DEF TableInv, tableVars, FocusInv, OneFocused, Focused, Current, Newest
  <1>. QED
    BY <1>1 DEF TableInv, tableVars, Known, Limited, Audited, SnapOK, OverBudget

\* update() of the current goal, and persist().
LEMMA SavesTable ==
  ASSUME TableInv, Current # 0, NEW before, SnapOK(before, created, audited),
         NEW row \in Row, row.status = "complete" => Current \in audited',
         SaveOver(before, row),
         wish' \in Wishes, \A g \in GoalId \ {Current} : wish'[g] = wish[g],
         wish'[Current] = "clear" => wish[Current] = "clear", audited \subseteq audited'
  PROVE  TableInv' /\ created' = created
  <1>1. Current \in exists /\ Current \in 1..created /\ Current \in GoalId
    BY CurrentGoal DEF TableInv, Known
  <1>2. goals' = [goals EXCEPT ![Current] = Capped(row)] /\ last' = Current
        /\ exists' = exists /\ created' = created
    BY DEF SaveOver
  <1>3. Capped(row) \in Row
        /\ (Capped(row).status = "complete" => Current \in audited')
        /\ (Capped(row).status = "active" => ~OverBudget(Capped(row)))
    BY CappedValues
  <1>4. goals' \in [GoalId -> Row]
    BY <1>1, <1>2, <1>3 DEF TableInv
  <1>5. Known'
    BY <1>1, <1>2, GoalAssumption DEF TableInv, Known, GoalId
  <1>6. Limited'
    <2>. SUFFICES ASSUME NEW g \in GoalId, goals'[g].status = "active", wish'[g] # "clear"
                  PROVE  ~OverBudget(goals'[g])
      BY DEF Limited, OverBudget
    <2>. QED
      BY <1>1, <1>2, <1>3 DEF TableInv, Limited
  <1>7. Audited'
    BY <1>1, <1>2, <1>3 DEF TableInv, Audited
  <1>8. SnapOK(snap', created', audited')
    <2>1. CASE row.focused
      <3>1. snap' = SnapshotOf(Current, Capped(row))
        BY <2>1 DEF SaveOver
      <3>. QED
        BY <3>1, <1>1, <1>2, <1>3, SnapshotValues DEF TableInv, Known
    <2>2. CASE ~row.focused
      <3>1. snap' = before
        BY <2>2 DEF SaveOver
      <3>. QED
        BY <3>1, <1>2 DEF SnapOK
    <2>. QED
      BY <2>1, <2>2
  <1>9. FocusInv'
    <2>1. exists \subseteq GoalId
      BY GoalAssumption DEF TableInv, Known, GoalId
    <2>. QED
      BY <1>1, <1>2, <2>1, FocusKeeps DEF TableInv
  <1>. QED
    BY <1>2, <1>4, <1>5, <1>6, <1>7, <1>8, <1>9 DEF TableInv

-----------------------------------------------------------------------------
(* Steps of calls.  A call goes to another local state; the lock is left   *)
(* alone, dropped, aged, or taken by a process that may.                   *)

Good(l) ==
  /\ LocalOK(l, created', audited')
  /\ l.pc \notin Idle => up[l.at] = "up"
  /\ l.pc = "prompting" => lock'.owner = owner[l.at]
TaskStep(t) == \E l : Good(l) /\ task' = [task EXCEPT ![t] = l]

LockStep ==
  \/ lock' \in {lock, Held, NoLock}
  \/ \E p \in Proc : up[p] = "up" /\ CanLock(p) /\ lock' = Locked(p)
  \/ \E age \in Age : lock # NoLock /\ lock' = [lock EXCEPT !.age = age]

HistStep == wish' \in Wishes /\ audited' \subseteq GoalId /\ audited \subseteq audited'
StepOK(t) ==
  /\ TableInv' /\ created <= created' /\ HistStep
  /\ LockStep /\ TaskStep(t)
  /\ inflight' \subseteq Proc /\ UNCHANGED processVars

\* The lock stays a lock.
LEMMA LockKeeps ==
  ASSUME LockInv, LockStep, inflight' \subseteq Proc,
         up' \in [Proc -> {"new", "up", "dead"}], owner' \in [Proc -> Proc]
  PROVE  LockInv'
  <1>. SUFFICES /\ lock' \in Lock
                /\ lock'.owner = 0 => lock' = NoLock
                /\ lock'.owner # 0 => lock'.pid # 0
    BY DEF LockInv
  <1>0. NoLock \in Lock /\ NoLock.owner = 0
    BY DEF NoLock, Lock, Age
  <1>1. CASE lock' \in {lock, Held, NoLock}
    BY <1>0, <1>1 DEF LockInv, Held
  <1>2. ASSUME NEW p \in Proc, lock' = Locked(p)
        PROVE  lock' \in Lock /\ lock'.owner # 0 /\ lock'.pid # 0
    <2>1. Held \in Lock /\ (Held.owner # 0 => Held.pid # 0)
      BY <1>0 DEF Held, LockInv
    <2>. QED
      BY <1>2, <2>1, GoalAssumption DEF Locked, Lock, Age, LockInv
  <1>3. ASSUME NEW age \in Age, lock # NoLock, lock' = [lock EXCEPT !.age = age]
        PROVE  lock' \in Lock /\ lock'.owner # 0 /\ lock'.pid # 0
    BY <1>3 DEF LockInv, Lock
  <1>. QED
    BY <1>1, <1>2, <1>3 DEF LockStep

\* The lock leaves its owner only when it is released, or when it has expired.
LEMMA LockMoves ==
  ASSUME LockInv, LockStep
  PROVE  lock'.owner # lock.owner =>
           lock' = NoLock \/ lock.owner = 0 \/ Expired
  BY DEF LockInv, LockStep, Lock, Held, CanLock, Locked

\* A prompt that holds the lock keeps it or has lost it.
LEMMA DriveKeeps ==
  ASSUME LockInv, LockStep, History, NEW t \in Task,
         task[t].pc = "prompting", task[t].at \in Proc,
         owner'[task[t].at] = owner[task[t].at],
         task'[t].pc = "prompting", task'[t].at = task[t].at,
         lock.owner = owner[task[t].at] \/ t \in lost
  PROVE  lock'.owner = owner'[task'[t].at] \/ t \in lost'
  <1>1. owner[task[t].at] # 0
    BY GoalAssumption DEF LockInv
  <1>2. CASE t \in lost
    BY <1>2 DEF History
  <1>3. CASE lock.owner = owner[task[t].at] /\ lock'.owner # lock.owner
    <2>1. lock' = NoLock \/ Expired
      BY <1>1, <1>3, LockMoves
    <2>2. t \in Robbed
      BY <1>3, <2>1 DEF Robbed, Expired
    <2>. QED
      BY <2>2 DEF History
  <1>. QED
    BY <1>1, <1>2, <1>3

\* What is true of the calls stays true when one of them moves.
LEMMA TaskKeeps ==
  ASSUME TaskInv, created \in Nat, created' \in Nat, created <= created',
         audited \subseteq audited', NEW t \in Task, NEW l, LocalOK(l, created', audited'),
         task' = [task EXCEPT ![t] = l]
  PROVE  TaskInv'
  <1>1. task' \in [Task -> Local]
    BY DEF TaskInv, LocalOK
  <1>2. ASSUME NEW u \in Task PROVE LocalOK(task'[u], created', audited')
    <2>1. CASE u = t
      BY <2>1 DEF TaskInv
    <2>2. CASE u # t
      <3>1. task'[u] = task[u] /\ LocalOK(task[u], created, audited)
        BY <2>2 DEF TaskInv
      <3>2. task[u].id + task[u].rest \in Int
        BY <3>1 DEF LocalOK, Local, GoalId
      <3>. QED
        BY <3>1, <3>2 DEF LocalOK
    <2>. QED
      BY <2>1, <2>2
  <1>. QED
    BY <1>1, <1>2 DEF TaskInv

\* The invariant over a step of a call.
LEMMA StepKeeps ==
  ASSUME GoalInv, NEW t \in Task, StepOK(t), History
  PROVE  GoalInv'
  <1>1. PICK l : Good(l) /\ task' = [task EXCEPT ![t] = l]
    BY DEF StepOK, TaskStep
  <1>2. created \in Nat /\ created' \in Nat /\ created <= created' /\ audited \subseteq audited'
    BY GoalAssumption DEF StepOK, HistStep, GoalInv, TableInv, Known
  <1>3. HistInv'
    BY DEF StepOK, HistStep, HistInv, GoalInv, History, Robbed, Wishes
  <1>4. LockInv'
    BY LockKeeps DEF StepOK, GoalInv, LockInv, processVars
  <1>5. TaskInv'
    BY <1>1, <1>2, TaskKeeps DEF Good, GoalInv
  <1>6. DriveInv'
    <2>. SUFFICES ASSUME NEW u \in Task
                  PROVE  /\ task'[u].pc \notin Idle => up'[task'[u].at] = "up"
                         /\ task'[u].pc = "prompting" =>
                              lock'.owner = owner'[task'[u].at] \/ u \in lost'
      BY DEF DriveInv
    <2>0. up' = up /\ owner' = owner
      BY DEF StepOK, processVars
    <2>1. CASE u = t
      BY <1>1, <2>0, <2>1 DEF Good, GoalInv, TaskInv
    <2>2. CASE u # t
      <3>1. task'[u] = task[u]
        BY <1>1, <2>2 DEF GoalInv, TaskInv
      <3>2. task[u].pc = "prompting" => task[u].at \in Proc
        BY DEF GoalInv, TaskInv, LocalOK, Idle
      <3>. QED
        BY <2>0, <3>1, <3>2, DriveKeeps DEF StepOK, GoalInv, DriveInv
    <2>. QED
      BY <2>1, <2>2
  <1>. QED
    BY <1>3, <1>4, <1>5, <1>6 DEF StepOK, GoalInv

\* A call that ends, or is refused.
LEMMA Finishes ==
  ASSUME NEW t \in Task, NEW l \in {Done, Refused}, task' = [task EXCEPT ![t] = l],
         created' \in Nat
  PROVE  TaskStep(t)
  <1>1. LocalOK(l, created', audited') /\ l.pc \in Idle
    BY LocalValues
  <1>2. Good(l)
    BY <1>1 DEF Good, Idle
  <1>. QED
    BY <1>2 DEF TaskStep

\* A call that goes to an await other than that of a prompt.
LEMMA Waits ==
  ASSUME NEW t \in Task, NEW pc \in Pc, NEW p \in Proc, NEW g \in GoalId \cup {0},
         NEW row \in Row, NEW kind \in PromptKind, NEW ok \in BOOLEAN, NEW rest \in 0..1,
         task' = [task EXCEPT ![t] = Waiting(pc, p, g, row, kind, ok, rest)],
         up[p] = "up", pc # "prompting" \/ lock'.owner = owner[p],
         pc \in {"freezing", "judging", "proving", "auditing", "recovering"} => g # 0,
         g + rest <= created', row.status = "complete" => g \in audited'
  PROVE  TaskStep(t)
  <1>. DEFINE l == Waiting(pc, p, g, row, kind, ok, rest)
  <1>1. l \in Local /\ l.pc = pc /\ l.at = p /\ l.id = g /\ l.row = row /\ l.rest = rest
    BY DEF Waiting, Local
  <1>2. Good(l)
    BY <1>1 DEF Good, LocalOK
  <1>. QED
    BY <1>2 DEF TaskStep

\* The head of prompt().
LEMMA Prompts ==
  ASSUME LockInv, NEW t \in Task, NEW p \in Proc, up[p] = "up", NEW g \in GoalId \cup {0},
         NEW kind \in PromptKind, Prompt(t, p, g, kind), created' \in Nat, g <= created'
  PROVE  TaskStep(t) /\ LockStep /\ inflight' \subseteq Proc
  <1>1. CASE CanLock(p)
    <2>1. lock' = Locked(p) /\ lock'.owner = owner[p]
      BY <1>1 DEF Prompt, TryLock, Locked
    <2>2. task' = [task EXCEPT ![t] = Waiting("prompting", p, g, NewRow, kind, FALSE, 0)]
          /\ inflight' = inflight \cup {p}
      BY <1>1 DEF Prompt
    <2>3. "prompting" \in Pc /\ FALSE \in BOOLEAN /\ 0 \in 0..1 /\ g + 0 <= created'
          /\ NewRow \in Row /\ NewRow.status # "complete"
      BY RowValues DEF Pc, GoalId
    <2>4. TaskStep(t)
      BY <2>1, <2>2, <2>3, Waits
    <2>. QED
      BY <1>1, <2>1, <2>2, <2>4 DEF LockStep, LockInv
  <1>2. CASE ~CanLock(p)
    <2>1. lock' = lock /\ task' = [task EXCEPT ![t] = Done] /\ inflight' = inflight
      BY <1>2 DEF Prompt, TryLock
    <2>. QED
      BY <2>1, Finishes DEF LockStep, LockInv
  <1>. QED
    BY <1>1, <1>2

\* persist() of a known goal object.
LEMMA PersistsTable ==
  ASSUME TableInv, HistInv, NEW g \in 1..created, NEW row \in Row,
         row.status = "complete" => g \in audited, NEW steered \in BOOLEAN,
         PersistAnd(g, row, steered), wish' = wish, audited' = audited
  PROVE  TableInv' /\ created' = created
  <1>. DEFINE written == IF row.focused THEN SnapshotOf(g, row) ELSE snap
  <1>0. ASSUME NEW r \in Row PROVE Lifted(r) \in Row /\ Lifted(r).status = r.status
    BY DEF Lifted, Row
  <1>1. SnapOK(written, created, audited)
    <2>1. g \in GoalId \cup {0} /\ g <= created /\ created \in Nat
      BY GoalAssumption DEF TableInv, Known, GoalId
    <2>2. SnapOK(SnapshotOf(g, row), created, audited) /\ SnapOK(snap, created, audited)
      BY <2>1, SnapshotValues DEF TableInv
    <2>. QED
      BY <2>2
  <1>2. CASE g = Current
    <2>1. Current # 0
      BY <1>2, GoalAssumption DEF TableInv, Known
    <2>2. PICK r \in Row : SaveOver(snap, r) /\ r.status = row.status
      BY <1>0, <1>2 DEF PersistAnd, Save
    <2>. QED
      BY <1>2, <2>1, <2>2, SavesTable DEF TableInv, HistInv
  <1>3. CASE g # Current /\ steered /\ Current # 0
    <2>1. SaveOver(written, Lifted(goals[Current]))
      BY <1>3 DEF PersistAnd
    <2>2. Lifted(goals[Current]) \in Row
          /\ (Lifted(goals[Current]).status = "complete" => Current \in audited')
      BY <1>0, <1>3, CurrentGoal
    <2>. QED
      BY <1>1, <1>3, <2>1, <2>2, SavesTable DEF HistInv
  <1>4. CASE g # Current /\ ~(steered /\ Current # 0)
    <2>1. snap' = written /\ UNCHANGED <<goals, exists, last, created>>
      BY <1>4 DEF PersistAnd
    <2>2. FocusInv'
      BY <2>1 DEF TableInv, FocusInv, OneFocused, Focused, Current, Newest
    <2>. QED
      BY <1>1, <2>1, <2>2 DEF TableInv, Known, Limited, Audited, OverBudget, SnapOK
  <1>. QED
    BY <1>2, <1>3, <1>4

-----------------------------------------------------------------------------
(* Commands of the user.                                                   *)

\* What commands have in common.
LEMMA OwnedStep ==
  ASSUME NEW t \in Task, NEW p \in Proc, NEW h, Owned(t, p, h)
  PROVE  up[p] = "up" /\ LockStep
  BY DEF Owned, Calls, LockStep

LEMMA CommandStep ==
  ASSUME GoalInv, NEW t \in Task, NEW p \in Proc, NEW h, NEW row \in Row,
         row.status = "complete" => Current \in audited, NEW kind \in PromptKind,
         NEW w \in {"none", "run", "stop", "clear"}, w = "clear" => wish[Current] = "clear",
         Command(t, p, h, row, kind, w)
  PROVE  StepOK(t)
  <1>1. Current # 0 /\ up[p] = "up" /\ LockStep
    BY OwnedStep DEF Command
  <1>2. HistStep /\ wish' = [wish EXCEPT ![Current] = w] /\ audited' = audited
    <2>1. wish' = [wish EXCEPT ![Current] = w] /\ audited' = audited
      BY DEF Command
    <2>. QED
      BY <2>1 DEF HistStep, HistInv, GoalInv, Wishes
  <1>3. TableInv' /\ created' = created
    <2>1. PICK r \in Row : SaveOver(snap, r) /\ r.status = row.status
      <3>1. Steered(row, kind) \in Row /\ Steered(row, kind).status = row.status
        BY DEF Steered, Lifted, Row
      <3>. QED
        BY <3>1 DEF Command, Save
    <2>. QED
      BY <1>1, <1>2, <2>1, SavesTable DEF GoalInv, TableInv, HistInv, HistStep, Wishes
  <1>4. TaskStep(t)
    <2>1. created \in Nat /\ Current \in GoalId \cup {0} /\ Current + 0 <= created'
      BY <1>1, <1>3, CurrentGoal DEF GoalInv, GoalId
    <2>2. CASE kind = "none"
      BY <1>3, <2>1, <2>2, Finishes DEF Command, Then
    <2>3. CASE kind # "none"
      <3>1. task' = [task EXCEPT ![t] = Waiting("aborting", p, Current, NewRow, kind, FALSE, 0)]
        BY <2>3 DEF Command, Then
      <3>2. "aborting" \in Pc /\ FALSE \in BOOLEAN /\ 0 \in 0..1
            /\ NewRow \in Row /\ NewRow.status # "complete"
        BY RowValues DEF Pc
      <3>. QED
        BY <1>1, <2>1, <3>1, <3>2, Waits
    <2>. QED
      BY <2>2, <2>3
  <1>. QED
    BY <1>1, <1>2, <1>3, <1>4, CurrentGoal DEF StepOK, Command, GoalInv, LockInv

LEMMA CommandSteps ==
  ASSUME GoalInv, NEW t \in Task, NEW p \in Proc, NEW kind \in PromptKind,
         \/ Pause(t, p) \/ Resume(t, p, kind) \/ Edit(t, p, kind) \/ Unmet(t, p)
         \/ \E b \in Budget : SetBudget(t, p, b)
  PROVE  StepOK(t)
  <1>1. Current # 0
    BY DEF Pause, Resume, SetBudget, Edit, Unmet, Running, Command
  <1>2. goals[Current] \in Row /\ (goals[Current].status = "complete" => Current \in audited)
        /\ wish[Current] \in {"none", "run", "stop", "clear"} /\ "none" \in PromptKind
    BY <1>1, CurrentGoal, Names DEF GoalInv, HistInv, Wishes
  <1>3. CASE Pause(t, p)
    <2>. DEFINE row == Lifted([goals[Current] EXCEPT !.status = "paused", !.reason = "user"])
    <2>1. row \in Row /\ row.status = "paused"
      BY <1>2, Names DEF Lifted, Row
    <2>. QED
      BY <1>2, <1>3, <2>1, CommandStep DEF Pause
  <1>4. CASE Resume(t, p, kind)
    <2>1. Activated(goals[Current]) \in Row /\ Activated(goals[Current]).status = "active"
      BY <1>2, Names DEF Activated, Row
    <2>. QED
      BY <1>4, <2>1, CommandStep DEF Resume
  <1>5. ASSUME NEW b \in Budget, SetBudget(t, p, b) PROVE StepOK(t)
    <2>. DEFINE row == [goals[Current] EXCEPT !.budget = b]
    <2>1. row \in Row /\ row.status = goals[Current].status
      BY <1>2, Names DEF Row
    <2>. QED
      BY <1>2, <1>5, <2>1, CommandStep DEF SetBudget
  <1>6. CASE Edit(t, p, kind)
    <2>. DEFINE w == IF kind = "none" THEN wish[Current] ELSE "run"
    <2>1. w \in {"none", "run", "stop", "clear"} /\ (w = "clear" => wish[Current] = "clear")
      BY <1>2
    <2>. QED
      BY <1>2, <1>6, <2>1, CommandStep DEF Edit
  <1>7. CASE Unmet(t, p)
    <2>. DEFINE row == [goals[Current] EXCEPT !.status = "unmet", !.suppressed = TRUE]
    <2>1. row \in Row /\ row.status = "unmet"
      BY <1>2, Names DEF Row
    <2>. QED
      BY <1>2, <1>7, <2>1, CommandStep DEF Unmet
  <1>. QED
    BY <1>3, <1>4, <1>5, <1>6, <1>7

-----------------------------------------------------------------------------
(* Commands that create goals, and the freezing of their contracts.        *)

\* What is true of the row of goal g.
RowOK(g, row, w, a) ==
  /\ row \in Row
  /\ row.status = "active" /\ w # "clear" => ~OverBudget(row)
  /\ row.status = "complete" => g \in a

LEMMA TableRows ==
  ASSUME TableInv, NEW g \in GoalId
  PROVE  RowOK(g, goals[g], wish[g], audited) /\ RowOK(g, Unfocused[g], wish[g], audited)
  BY DEF TableInv, Limited, Audited, RowOK, Unfocused, OverBudget, Row

\* A table of new rows.
LEMMA NewTable ==
  ASSUME TableInv, created' \in created..MaxGoals, DOMAIN goals' = GoalId,
         goals' = [g \in GoalId |-> goals'[g]],
         \A g \in GoalId : RowOK(g, goals'[g], wish'[g], audited'),
         exists' \subseteq 1..created', last' \in exists' \/ (last' = 0 /\ exists' = {}),
         \A g \in 1..created' : g \notin exists' => wish'[g] = "clear",
         SnapOK(snap', created', audited'), FocusInv'
  PROVE  TableInv'
  <1>1. goals' \in [GoalId -> Row]
    BY DEF RowOK
  <1>2. Known'
    BY GoalAssumption DEF Known, TableInv
  <1>3. Limited' /\ Audited'
    BY DEF Limited, Audited, RowOK, OverBudget
  <1>. QED
    BY <1>1, <1>2, <1>3 DEF TableInv

\* A command goes to await the contract of a goal it has read or created.
LEMMA FreezeStep ==
  ASSUME NEW t \in Task, NEW p \in Proc, up[p] = "up", NEW g \in GoalId, NEW row \in Row,
         row.status = "complete" => g \in audited', NEW kind \in PromptKind,
         NEW ok \in BOOLEAN, NEW rest \in 0..1, g + rest <= created',
         Freezes(t, p, g, row, kind, ok, rest)
  PROVE  TaskStep(t)
  <1>1. "freezing" \in Pc /\ g \in GoalId \cup {0} /\ g # 0
    BY DEF Pc, GoalId
  <1>2. task' = [task EXCEPT ![t] = Waiting("freezing", p, g, row, kind, ok, rest)]
    BY DEF Freezes
  <1>. QED
    BY <1>1, <1>2, Waits

LEMMA ReplaceStep ==
  ASSUME GoalInv, NEW t \in Task, NEW p \in Proc, NEW h, Owned(t, p, h),
         NEW restricted, NEW b \in Budget, NEW kind \in PromptKind,
         Replace(t, p, restricted, b, kind)
  PROVE  StepOK(t)
  <1>. DEFINE n == created + 1
              row == [NewGoal(restricted) EXCEPT !.budget = b]
  <1>1. created \in Nat /\ n \in GoalId /\ created' = n /\ n \in created..MaxGoals
    BY GoalAssumption DEF GoalInv, TableInv, Known, Replace, Insert, GoalId
  <1>2. row \in Row /\ row.status # "complete" /\ ~OverBudget(row)
    BY RowValues, Names DEF Row, OverBudget
  <1>3. /\ wish' = [g \in GoalId |-> IF g \in Focused THEN "clear"
                                     ELSE IF g = n THEN "run" ELSE wish[g]]
        /\ audited' = audited
    BY DEF Replace
  <1>4. HistStep
    BY <1>3 DEF HistStep, GoalInv, HistInv, Wishes
  <1>5. /\ goals' = [[g \in GoalId |-> IF g \in Focused THEN NewRow ELSE goals[g]]
                       EXCEPT ![n] = row]
        /\ exists' = (exists \ Focused) \cup {n} /\ last' = n
        /\ snap' = SnapshotOf(n, row)
    BY DEF Replace, Insert
  <1>6. TableInv'
    <2>1. DOMAIN goals' = GoalId /\ goals' = [g \in GoalId |-> goals'[g]]
      BY <1>1, <1>5
    <2>2. ASSUME NEW g \in GoalId PROVE RowOK(g, goals'[g], wish'[g], audited')
      <3>1. CASE g = n
        BY <1>1, <1>2, <1>5, <3>1 DEF RowOK
      <3>2. CASE g # n /\ g \in Focused
        BY <1>1, <1>5, <3>2, RowValues DEF RowOK, OverBudget
      <3>3. CASE g # n /\ g \notin Focused
        <4>1. goals'[g] = goals[g] /\ wish'[g] = wish[g]
          BY <1>1, <1>3, <1>5, <3>3
        <4>. QED
          BY <1>3, <4>1, TableRows DEF GoalInv
      <3>. QED
        BY <3>1, <3>2, <3>3
    <2>3. exists' \subseteq 1..created' /\ (last' \in exists' \/ (last' = 0 /\ exists' = {}))
      BY <1>1, <1>5 DEF GoalInv, TableInv, Known
    <2>4. ASSUME NEW g \in 1..created', g \notin exists' PROVE wish'[g] = "clear"
      <3>1. g \in GoalId /\ g \in 1..created /\ g # n /\ (g \in Focused \/ g \notin exists)
        BY <1>1, <1>5, <2>4, GoalAssumption DEF GoalId
      <3>. QED
        BY <1>3, <3>1 DEF GoalInv, TableInv, Known
    <2>5. SnapOK(snap', created', audited')
      <3>1. n \in GoalId \cup {0} /\ created' \in Nat /\ n <= created'
        BY <1>1
      <3>2. SnapOK(SnapshotOf(n, row), created', audited')
        BY <1>2, <3>1, SnapshotValues
      <3>. QED
        BY <1>5, <3>2
    <2>6. Focused' \subseteq {last'}
      <3>1. exists' \subseteq GoalId
        BY <1>1, <2>3, GoalAssumption DEF GoalId
      <3>2. ASSUME NEW g \in GoalId, g \in exists', g # n PROVE ~goals'[g].focused
        BY <1>5, <3>2 DEF Focused
      <3>. QED
        BY <1>5, <3>1, <3>2, FocusedIn
    <2>. QED
      BY <1>1, <2>1, <2>2, <2>3, <2>4, <2>5, <2>6, FocusOfLast, NewTable DEF GoalInv
  <1>7. TaskStep(t)
    <2>1. Freezes(t, p, n, row, kind, FALSE, 0)
      BY DEF Replace
    <2>2. FALSE \in BOOLEAN /\ 0 \in 0..1 /\ n + 0 <= created'
      BY <1>1
    <2>. QED
      BY <1>1, <1>2, <2>1, <2>2, FreezeStep, OwnedStep
  <1>. QED
    BY <1>1, <1>4, <1>6, <1>7, OwnedStep DEF StepOK, Replace, GoalInv, LockInv

LEMMA FreezeSameStep ==
  ASSUME GoalInv, NEW t \in Task, NEW p \in Proc, NEW kind \in PromptKind,
         SetSame(t, p, kind) \/ Dogfood(t, p)
  PROVE  StepOK(t)
  <1>. DEFINE row == goals[Current]
  <1>1. Current # 0 /\ Save(row) /\ audited' = audited /\ inflight' = inflight
        /\ UNCHANGED processVars
    BY DEF SetSame, Dogfood
  <1>2. up[p] = "up" /\ LockStep
    BY OwnedStep DEF SetSame, Dogfood
  <1>3. /\ Current \in GoalId /\ created \in Nat /\ Current + 0 <= created
        /\ row \in Row /\ (row.status = "complete" => Current \in audited)
    BY <1>1, CurrentGoal DEF GoalInv, GoalId
  <1>4. /\ wish' \in Wishes /\ \A g \in GoalId \ {Current} : wish'[g] = wish[g]
        /\ wish'[Current] = "clear" => wish[Current] = "clear"
    BY <1>3 DEF SetSame, Dogfood, GoalInv, HistInv, Wishes
  <1>5. TableInv' /\ created' = created
    BY <1>1, <1>3, <1>4, SavesTable DEF Save, GoalInv, TableInv
  <1>6. TaskStep(t)
    <2>1. Capped(row) \in Row /\ (Capped(row).status = "complete" => Current \in audited')
      BY <1>1, <1>3, CappedValues
    <2>2. PICK k \in PromptKind, ok \in BOOLEAN : Freezes(t, p, Current, Capped(row), k, ok, 0)
      BY Names DEF SetSame, Dogfood
    <2>3. Current + 0 <= created' /\ 0 \in 0..1
      BY <1>3, <1>5
    <2>. QED
      BY <1>2, <1>3, <2>1, <2>2, <2>3, FreezeStep
  <1>. QED
    BY <1>1, <1>2, <1>3, <1>4, <1>5, <1>6 DEF StepOK, HistStep, GoalInv, HistInv, LockInv

LEMMA AddStep ==
  ASSUME GoalInv, NEW t \in Task, NEW p \in Proc, NEW restricted, NEW kind \in PromptKind,
         Add(t, p, restricted, kind)
  PROVE  StepOK(t)
  <1>. DEFINE n == created + 1
              row == NewGoal(restricted)
              rest == IF Current # 0 /\ goals[Current].status = "active"
                        THEN [Unfocused EXCEPT ![Current].status = "paused",
                                               ![Current].reason = "none",
                                               ![Current].suppressed = FALSE]
                        ELSE Unfocused
  <1>1. created \in Nat /\ n \in GoalId /\ created' = n /\ n \in created..MaxGoals
    BY GoalAssumption DEF GoalInv, TableInv, Known, Add, Insert, GoalId
  <1>2. row \in Row /\ row.status # "complete" /\ ~OverBudget(row)
    BY RowValues DEF OverBudget
  <1>3. /\ wish' = [wish EXCEPT ![n] = "run"] /\ audited' = audited
        /\ goals' = [rest EXCEPT ![n] = row]
        /\ exists' = exists \cup {n} /\ last' = n
        /\ snap' = SnapshotOf(n, row)
        /\ Freezes(t, p, n, row, kind, FALSE, 0)
        /\ inflight' = inflight /\ UNCHANGED processVars
    BY DEF Add, Insert
  <1>4. HistStep
    BY <1>1, <1>3 DEF HistStep, GoalInv, HistInv, Wishes
  <1>5. TableInv'
    <2>0. Unfocused \in [GoalId -> Row]
      BY TableRows DEF Unfocused, RowOK, GoalInv
    <2>1. rest \in [GoalId -> Row]
      <3>. DEFINE bg == [Unfocused[Current] EXCEPT !.status = "paused", !.reason = "none",
                                                   !.suppressed = FALSE]
      <3>1. rest = [Unfocused EXCEPT ![Current] = bg] \/ rest = Unfocused
        BY <2>0
      <3>2. Current \in GoalId => bg \in Row
        BY <2>0, Names DEF Row
      <3>. QED
        BY <2>0, <3>1, <3>2
    <2>2. ASSUME NEW g \in GoalId PROVE RowOK(g, goals'[g], wish'[g], audited')
      <3>1. CASE g = n
        BY <1>1, <1>2, <1>3, <2>1, <3>1 DEF RowOK
      <3>2. CASE g # n
        <4>1. goals'[g] = rest[g] /\ wish'[g] = wish[g]
          BY <1>1, <1>3, <2>1, <3>2 DEF GoalInv, HistInv, Wishes
        <4>2. RowOK(g, Unfocused[g], wish[g], audited)
          BY TableRows DEF GoalInv
        <4>3. rest[g] = Unfocused[g] \/ (rest[g] \in Row /\ rest[g].status = "paused")
          BY <2>0, <2>1 DEF Row
        <4>. QED
          BY <1>3, <4>1, <4>2, <4>3 DEF RowOK
      <3>. QED
        BY <3>1, <3>2
    <2>3. exists' \subseteq 1..created' /\ (last' \in exists' \/ (last' = 0 /\ exists' = {}))
      BY <1>1, <1>3 DEF GoalInv, TableInv, Known
    <2>4. ASSUME NEW g \in 1..created', g \notin exists' PROVE wish'[g] = "clear"
      <3>1. g \in GoalId /\ g \in 1..created /\ g # n /\ g \notin exists
        BY <1>1, <1>3, <2>4, GoalAssumption DEF GoalId
      <3>. QED
        BY <1>3, <3>1 DEF GoalInv, TableInv, Known, HistInv, Wishes
    <2>5. SnapOK(snap', created', audited')
      <3>1. n \in GoalId \cup {0} /\ created' \in Nat /\ n <= created'
        BY <1>1
      <3>. QED
        BY <1>2, <1>3, <3>1, SnapshotValues
    <2>6. DOMAIN goals' = GoalId /\ goals' = [g \in GoalId |-> goals'[g]]
      BY <1>1, <1>3, <2>1
    <2>7. Focused' \subseteq {last'}
      <3>1. \A g \in GoalId : ~Unfocused[g].focused /\ rest[g].focused = Unfocused[g].focused
        <4>1. \A g \in GoalId : ~Unfocused[g].focused
          BY DEF Unfocused, GoalInv, TableInv, Row
        <4>. QED
          BY <2>0, <4>1 DEF Row
      <3>. HIDE DEF rest
      <3>2. exists' \subseteq GoalId
        BY <1>1, <2>3, GoalAssumption DEF GoalId
      <3>3. ASSUME NEW g \in GoalId, g # n PROVE ~goals'[g].focused
        BY <1>1, <1>3, <2>1, <3>1, <3>3
      <3>. QED
        BY <1>3, <3>2, <3>3, FocusedIn
    <2>. QED
      BY <1>1, <2>2, <2>3, <2>4, <2>5, <2>6, <2>7, FocusOfLast, NewTable DEF GoalInv
  <1>6. TaskStep(t)
    <2>1. FALSE \in BOOLEAN /\ 0 \in 0..1 /\ n + 0 <= created'
      BY <1>1
    <2>. QED
      BY <1>1, <1>2, <1>3, <2>1, FreezeStep, OwnedStep DEF Add
  <1>7. LockStep
    BY OwnedStep DEF Add
  <1>. QED
    BY <1>1, <1>3, <1>4, <1>5, <1>6, <1>7 DEF StepOK, GoalInv, LockInv

LEMMA SequenceStep ==
  ASSUME GoalInv, NEW t \in Task, NEW p \in Proc, NEW restricted, NEW kind \in PromptKind,
         Sequence(t, p, restricted, kind)
  PROVE  StepOK(t)
  <1>. DEFINE n == created + 1
              row == [NewGoal(restricted) EXCEPT !.auto = TRUE]
  <1>1. /\ created \in Nat /\ n \in GoalId /\ n + 1 \in GoalId
        /\ created' = n + 1 /\ n + 1 \in created..MaxGoals
    <2>1. created \in Nat /\ n + 1 <= MaxGoals
      BY GoalAssumption DEF GoalInv, TableInv, Known, Sequence
    <2>2. created' = n + 1
      <3>1. created' = (created + 1) + 1
        BY <2>1 DEF Sequence
      <3>. QED
        BY <3>1
    <2>. QED
      BY <2>1, <2>2, GoalAssumption DEF GoalId
  <1>2. row \in Row /\ row.status # "complete" /\ ~OverBudget(row)
    BY RowValues DEF OverBudget, Row
  <1>3. /\ wish' = [wish EXCEPT ![n] = "run", ![n + 1] = "run"] /\ audited' = audited
        /\ goals' = [Unfocused EXCEPT ![n] = row, ![n + 1] = Queued]
        /\ exists' = exists \cup {n, n + 1} /\ last' = n + 1 /\ snap' = snap
        /\ Freezes(t, p, n, row, kind, TRUE, 1)
        /\ inflight' = inflight /\ UNCHANGED processVars
    BY DEF Sequence
  <1>4. HistStep
    BY <1>1, <1>3 DEF HistStep, GoalInv, HistInv, Wishes
  <1>5. TableInv'
    <2>0. Unfocused \in [GoalId -> Row]
      BY TableRows DEF Unfocused, RowOK, GoalInv
    <2>1. wish' = [g \in GoalId |-> IF g \in {n, n + 1} THEN "run" ELSE wish[g]]
      BY <1>1, <1>3 DEF GoalInv, HistInv, Wishes
    <2>2. ASSUME NEW g \in GoalId PROVE RowOK(g, goals'[g], wish'[g], audited')
      <3>1. CASE g = n
        <4>1. goals'[g] = row
          BY <1>1, <1>3, <2>0, <3>1
        <4>. QED
          BY <1>2, <4>1 DEF RowOK
      <3>2. CASE g = n + 1
        BY <1>1, <1>3, <2>0, <3>2, RowValues DEF RowOK
      <3>3. CASE g \notin {n, n + 1}
        <4>1. goals'[g] = Unfocused[g] /\ wish'[g] = wish[g] /\ audited' = audited
          BY <1>1, <1>3, <2>0, <2>1, <3>3
        <4>. QED
          BY <4>1, TableRows DEF GoalInv
      <3>. QED
        BY <3>1, <3>2, <3>3
    <2>3. exists' \subseteq 1..created' /\ (last' \in exists' \/ (last' = 0 /\ exists' = {}))
      BY <1>1, <1>3 DEF GoalInv, TableInv, Known
    <2>4. ASSUME NEW g \in 1..created', g \notin exists' PROVE wish'[g] = "clear"
      <3>1. g \in GoalId /\ g \in 1..created /\ g \notin {n, n + 1} /\ g \notin exists
        BY <1>1, <1>3, <2>4, GoalAssumption DEF GoalId
      <3>. QED
        BY <2>1, <3>1 DEF GoalInv, TableInv, Known
    <2>5. SnapOK(snap', created', audited')
      BY <1>1, <1>3 DEF SnapOK, Snapshot, GoalInv, TableInv, GoalId
    <2>6. DOMAIN goals' = GoalId /\ goals' = [g \in GoalId |-> goals'[g]]
      BY <1>1, <1>3, <2>0
    <2>7. FocusInv'
      <3>1. \A g \in GoalId : ~Unfocused[g].focused
        BY DEF Unfocused, GoalInv, TableInv, Row
      <3>2. Focused' \subseteq {n} /\ last' = n + 1
        <4>1. exists' \subseteq GoalId
          BY <1>1, <2>3, GoalAssumption DEF GoalId
        <4>2. ~Queued.focused
          BY RowValues DEF Queued, Row
        <4>3. ASSUME NEW g \in GoalId, g # n PROVE ~goals'[g].focused
          BY <1>1, <1>3, <2>0, <3>1, <4>2, <4>3
        <4>. QED
          BY <1>3, <4>1, <4>3, FocusedIn
      <3>3. Current' \in {n, n + 1}
        BY <3>2 DEF Current, Newest
      <3>4. wish'[n] = "run" /\ wish'[n + 1] = "run"
        BY <1>1, <2>1
      <3>5. \A g \in 1..created' : g > n => g \in exists'
        BY <1>1, <1>3
      <3>. QED
        BY <3>2, <3>3, <3>4, <3>5 DEF FocusInv, OneFocused
    <2>. QED
      BY <1>1, <2>2, <2>3, <2>4, <2>5, <2>6, <2>7, NewTable DEF GoalInv
  <1>6. TaskStep(t)
    <2>1. TRUE \in BOOLEAN /\ 1 \in 0..1 /\ n + 1 <= created'
      BY <1>1
    <2>. QED
      BY <1>1, <1>2, <1>3, <2>1, FreezeStep, OwnedStep DEF Sequence
  <1>7. LockStep
    BY OwnedStep DEF Sequence
  <1>. QED
    BY <1>1, <1>3, <1>4, <1>5, <1>6, <1>7 DEF StepOK, GoalInv, LockInv

\* What is known of a call that awaits something.
LEMMA CallValues ==
  ASSUME GoalInv, NEW t \in Task, task[t].pc \notin Idle
  PROVE  /\ task[t].at \in Proc /\ up[task[t].at] = "up"
         /\ task[t].id \in GoalId \cup {0} /\ task[t].row \in Row /\ task[t].kind \in PromptKind
         /\ task[t].rest \in 0..1 /\ task[t].id + task[t].rest <= created
         /\ task[t].ok \in BOOLEAN
         /\ task[t].row.status = "complete" => task[t].id \in audited
         /\ created \in Nat /\ task[t].id <= created
         /\ task[t].pc \in {"freezing", "judging", "proving", "auditing", "recovering"}
              => task[t].id \in 1..created
  <1>1. LocalOK(task[t], created, audited) /\ task[t] \in Local
    BY DEF GoalInv, TaskInv
  <1>2. created \in Nat
    BY GoalAssumption DEF GoalInv, TableInv, Known
  <1>. QED
    BY <1>1, <1>2 DEF GoalInv, DriveInv, LocalOK, Local, GoalId

LEMMA FrozenStep ==
  ASSUME GoalInv, NEW t \in Task, Frozen(t)
  PROVE  StepOK(t)
  <1>. DEFINE l == task[t]
              kind == IF l.rest = 0 /\ ~ForeignOwnerLive(l.at)
                         /\ (l.ok \/ l.row.status = "active") THEN l.kind ELSE "none"
  <1>1. /\ PersistAnd(l.id, l.row, kind # "none")
        /\ UNCHANGED <<lock, inflight, wish, audited, processVars>> /\ l.pc = "freezing"
    BY DEF Frozen
  <1>2. /\ l.id \in 1..created /\ l.row \in Row /\ (l.row.status = "complete" => l.id \in audited)
        /\ l.at \in Proc /\ up[l.at] = "up" /\ created \in Nat /\ l.rest \in 0..1
        /\ l.id + l.rest <= created /\ l.ok \in BOOLEAN
    BY <1>1, CallValues DEF Idle
  <1>3. kind \in PromptKind
    BY <1>1, CallValues, Names DEF Idle
  <1>4. TableInv' /\ created' = created
    <2>1. (kind # "none") \in BOOLEAN
      OBVIOUS
    <2>. QED
      BY <1>1, <1>2, <2>1, PersistsTable DEF GoalInv
  <1>5. TaskStep(t)
    <2>1. CASE l.rest = 1
      <3>. DEFINE k == IF l.row.status = "active" THEN l.kind ELSE "none"
      <3>0. k \in PromptKind
        BY <1>1, CallValues, Names DEF Idle
      <3>1. Freezes(t, l.at, l.id + 1, Queued, k, TRUE, 0)
        BY <2>1 DEF Frozen
      <3>2. l.id + 1 \in GoalId /\ (l.id + 1) + 0 <= created'
        BY <1>2, <1>4, <2>1, GoalAssumption DEF GoalId, GoalInv, TableInv, Known
      <3>3. Queued \in Row /\ Queued.status # "complete" /\ TRUE \in BOOLEAN /\ 0 \in 0..1
        BY RowValues
      <3>. QED
        BY <1>2, <3>0, <3>1, <3>2, <3>3, FreezeStep
    <2>2. CASE l.rest # 1 /\ kind = "none"
      <3>1. task' = [task EXCEPT ![t] = Done]
        BY <2>2 DEF Frozen, Then
      <3>. QED
        BY <1>2, <1>4, <3>1, Finishes
    <2>3. CASE l.rest # 1 /\ kind # "none"
      <3>. DEFINE w == Waiting("aborting", l.at, l.id, NewRow, kind, l.ok, 0)
      <3>1. task' = [task EXCEPT ![t] = w]
        BY <2>3 DEF Frozen, Then
      <3>2. /\ w \in Local /\ w.pc = "aborting" /\ w.at = l.at /\ w.id = l.id /\ w.rest = 0
            /\ w.row = NewRow /\ NewRow.status # "complete"
        BY <1>2, <1>3, RowValues, GoalAssumption
           DEF Waiting, Local, Pc, GoalId, GoalInv, TableInv, Known
      <3>3. Good(w)
        BY <1>2, <1>4, <3>2 DEF Good, LocalOK
      <3>. QED
        BY <3>1, <3>3 DEF TaskStep
    <2>. QED
      BY <2>1, <2>2, <2>3
  <1>. QED
    BY <1>1, <1>2, <1>4, <1>5 DEF StepOK, HistStep, LockStep, GoalInv, HistInv, LockInv

LEMMA FocusStep ==
  ASSUME GoalInv, NEW t \in Task, NEW p \in Proc, NEW g \in GoalId, NEW kind \in PromptKind,
         Focus(t, p, g, kind)
  PROVE  StepOK(t)
  <1>. DEFINE row == [goals[g] EXCEPT !.focused = TRUE]
              kept == Capped(IF row.reason \in {"queued", "none"}
                                /\ row.status \in {"paused", "budget_limited"}
                               THEN Activated(row) ELSE row)
              next == IF kept.status = "active" THEN Steered(kept, kind) ELSE kept
  <1>1. /\ g \in exists /\ created \in Nat /\ created' = created /\ g <= created
        /\ created \in created..MaxGoals /\ g \in GoalId \cup {0}
    BY GoalAssumption DEF Focus, GoalInv, TableInv, Known
  <1>2. RowOK(g, next, "run", audited)
    <2>1. row \in Row /\ (row.status = "complete" => g \in audited)
      BY TableRows DEF GoalInv, RowOK, Row
    <2>2. PICK r \in Row : kept = Capped(r) /\ (r.status = "complete" => g \in audited)
      <3>1. Activated(row) \in Row /\ Activated(row).status = "active"
        BY <2>1, Names DEF Activated, Row
      <3>. QED
        BY <2>1, <3>1
    <2>3. RowOK(g, kept, "run", audited)
      BY <2>2, CappedValues DEF RowOK
    <2>. HIDE DEF kept
    <2>4. Lifted(kept) \in Row /\ Lifted(kept).status = kept.status
          /\ (~OverBudget(kept) => ~OverBudget(Lifted(kept)))
      BY <2>3 DEF RowOK, Lifted, Row, OverBudget
    <2>. QED
      BY <2>3, <2>4 DEF RowOK, Steered
  <1>3. /\ goals' = [Unfocused EXCEPT ![g] = next]
        /\ last' = g /\ snap' = SnapshotOf(g, next) /\ exists' = exists
        /\ wish' = [wish EXCEPT ![g] = IF next.status = "active" THEN "run" ELSE @]
        /\ audited' = audited /\ inflight' = inflight /\ UNCHANGED processVars
        /\ Then(t, p, g, IF next.status = "active" THEN kind ELSE "none", FALSE)
    BY DEF Focus
  <1>. HIDE DEF next
  <1>4. HistStep
    BY <1>3 DEF HistStep, GoalInv, HistInv, Wishes
  <1>5. TableInv'
    <2>0. Unfocused \in [GoalId -> Row] /\ next \in Row
      BY <1>2, TableRows DEF Unfocused, RowOK, GoalInv
    <2>1. ASSUME NEW h \in GoalId PROVE RowOK(h, goals'[h], wish'[h], audited')
      <3>1. CASE h = g
        BY <1>2, <1>3, <2>0, <3>1 DEF RowOK
      <3>2. CASE h # g
        <4>1. goals'[h] = Unfocused[h] /\ wish'[h] = wish[h] /\ audited' = audited
          BY <1>3, <2>0, <3>2 DEF GoalInv, HistInv, Wishes
        <4>. QED
          BY <4>1, TableRows DEF GoalInv
      <3>. QED
        BY <3>1, <3>2
    <2>2. exists' \subseteq 1..created' /\ (last' \in exists' \/ (last' = 0 /\ exists' = {}))
      BY <1>1, <1>3 DEF GoalInv, TableInv, Known
    <2>3. ASSUME NEW h \in 1..created', h \notin exists' PROVE wish'[h] = "clear"
      <3>1. h \in GoalId /\ h # g
        BY <1>1, <1>3, <2>3, GoalAssumption DEF GoalId
      <3>. QED
        BY <1>1, <1>3, <2>3, <3>1 DEF GoalInv, TableInv, Known, HistInv, Wishes
    <2>4. SnapOK(snap', created', audited')
      <3>1. next \in Row /\ (next.status = "complete" => g \in audited')
        BY <1>2, <1>3 DEF RowOK
      <3>. QED
        BY <1>1, <1>3, <3>1, SnapshotValues
    <2>5. DOMAIN goals' = GoalId /\ goals' = [h \in GoalId |-> goals'[h]]
      BY <1>3, <2>0
    <2>6. Focused' \subseteq {last'}
      <3>1. \A h \in GoalId : ~Unfocused[h].focused
        BY DEF Unfocused, GoalInv, TableInv, Row
      <3>2. exists' \subseteq GoalId
        BY <1>1, <2>2, GoalAssumption DEF GoalId
      <3>3. ASSUME NEW h \in GoalId, h # g PROVE ~goals'[h].focused
        BY <1>3, <2>0, <3>1, <3>3
      <3>. QED
        BY <1>3, <3>2, <3>3, FocusedIn
    <2>. QED
      BY <1>1, <2>1, <2>2, <2>3, <2>4, <2>5, <2>6, FocusOfLast, NewTable DEF GoalInv
  <1>6. TaskStep(t)
    <2>1. CASE next.status # "active" \/ kind = "none"
      <3>1. task' = [task EXCEPT ![t] = Done]
        BY <1>3, <2>1 DEF Then
      <3>. QED
        BY <1>1, <3>1, Finishes
    <2>2. CASE next.status = "active" /\ kind # "none"
      <3>1. task' = [task EXCEPT ![t] = Waiting("aborting", p, g, NewRow, kind, FALSE, 0)]
        BY <1>3, <2>2 DEF Then
      <3>2. "aborting" \in Pc /\ FALSE \in BOOLEAN /\ 0 \in 0..1 /\ g + 0 <= created'
            /\ NewRow \in Row /\ NewRow.status # "complete"
        BY <1>1, RowValues DEF Pc, GoalId
      <3>. QED
        BY <1>1, <3>1, <3>2, Waits, OwnedStep DEF Focus
    <2>. QED
      BY <2>1, <2>2
  <1>7. LockStep
    BY OwnedStep DEF Focus
  <1>. QED
    BY <1>1, <1>3, <1>4, <1>5, <1>6, <1>7 DEF StepOK, GoalInv, LockInv

LEMMA ClearStep ==
  ASSUME GoalInv, NEW t \in Task, NEW p \in Proc, Clear(t, p)
  PROVE  StepOK(t)
  <1>1. /\ goals' = [g \in GoalId |-> NewRow]
        /\ exists' = {} /\ last' = 0 /\ snap' = NoSnapshot /\ created' = created
        /\ wish' = [g \in GoalId |-> IF g \in exists THEN "clear" ELSE wish[g]]
        /\ audited' = audited /\ inflight' = inflight /\ UNCHANGED processVars
        /\ lock' = NoLock /\ task' = [task EXCEPT ![t] = Done]
    BY DEF Clear
  <1>2. created \in Nat /\ created' \in created..MaxGoals
    BY <1>1, GoalAssumption DEF GoalInv, TableInv, Known
  <1>3. TableInv'
    <2>1. ASSUME NEW g \in GoalId PROVE RowOK(g, goals'[g], wish'[g], audited')
      BY <1>1, RowValues DEF RowOK, OverBudget
    <2>2. \A g \in 1..created' : g \notin exists' => wish'[g] = "clear"
      BY <1>1, <1>2, GoalAssumption DEF GoalInv, TableInv, Known, GoalId
    <2>3. SnapOK(snap', created', audited')
      BY <1>1, <1>2, RowValues DEF SnapOK, NoSnapshot, Snapshot
    <2>4. Focused' \subseteq {last'}
      BY <1>1 DEF Focused
    <2>. QED
      BY <1>1, <1>2, <2>1, <2>2, <2>3, <2>4, FocusOfLast, NewTable DEF GoalInv
  <1>4. TaskStep(t) /\ LockStep
    BY <1>1, <1>2, Finishes DEF LockStep
  <1>. QED
    BY <1>1, <1>2, <1>3, <1>4
       DEF StepOK, HistStep, GoalInv, HistInv, Wishes, LockInv, TableInv, Known

-----------------------------------------------------------------------------
(* What happens to the session, up to the judge.                           *)

\* A step that leaves the table, the history and the processes alone.
LEMMA QuietStep ==
  ASSUME GoalInv, NEW t \in Task, UNCHANGED <<tableVars, wish, audited, processVars>>,
         LockStep, TaskStep(t), inflight' \subseteq Proc
  PROVE  StepOK(t)
  BY KeepsTable, CurrentGoal DEF StepOK, HistStep, GoalInv, HistInv

\* A step that writes the current goal, and leaves the history alone.
LEMMA SaveStep ==
  ASSUME GoalInv, Current # 0, NEW row \in Row, Save(row),
         row.status = "complete" => Current \in audited,
         UNCHANGED <<wish, audited, processVars>>
  PROVE  TableInv' /\ created' = created
  <1>1. SaveOver(snap, row)
    BY DEF Save
  <1>. QED
    BY <1>1, SavesTable DEF GoalInv, TableInv, HistInv

LEMMA ListenStep ==
  ASSUME NEW t \in Task, NEW p \in Proc, up[p] = "up", created' \in Nat, Listen(t, p)
  PROVE  TaskStep(t)
  <1>1. CASE ForeignOwnerLive(p)
    BY <1>1, Finishes DEF Listen
  <1>2. CASE ~ForeignOwnerLive(p)
    <2>1. task' = [task EXCEPT ![t] = Waiting("listening", p, 0, NewRow, "none", FALSE, 0)]
      BY <1>2 DEF Listen
    <2>2. "listening" \in Pc /\ NewRow \in Row /\ NewRow.status # "complete" /\ 0 \in 0..1
          /\ FALSE \in BOOLEAN /\ "none" \in PromptKind /\ 0 \in GoalId \cup {0} /\ 0 + 0 <= created'
      BY RowValues, Names DEF Pc
    <2>. QED
      BY <2>1, <2>2, Waits
  <1>. QED
    BY <1>1, <1>2

\* Any call goes to the decision whether to continue.
LEMMA DecideStep ==
  ASSUME NEW t \in Task, NEW p \in Proc, up[p] = "up", created' \in Nat,
         task' = [task EXCEPT ![t] = Waiting("deciding", p, 0, NewRow, "none", FALSE, 0)]
  PROVE  TaskStep(t)
  <1>1. "deciding" \in Pc /\ NewRow \in Row /\ NewRow.status # "complete" /\ 0 \in 0..1
        /\ FALSE \in BOOLEAN /\ "none" \in PromptKind /\ 0 \in GoalId \cup {0} /\ 0 + 0 <= created'
    BY RowValues, Names DEF Pc
  <1>. QED
    BY <1>1, Waits

\* account() keeps a row a row, and none active over budget.
LEMMA ChargedValues ==
  ASSUME NEW g, NEW r \in Row, NEW n \in 0..1, Charged(g, r, n).tokens <= MaxTokens
  PROVE  /\ Charged(g, r, n) \in Row
         /\ Charged(g, r, n).status = "complete" => r.status = "complete"
         /\ g = Current /\ Charged(g, r, n).status = "active" => ~OverBudget(Charged(g, r, n))
  <1>. DEFINE more == [r EXCEPT !.tokens = @ + n]
  <1>1. CASE g = Current /\ r.status \in {"active", "budget_limited"}
    <2>1. Charged(g, r, n) = Capped(more)
      BY <1>1 DEF Charged
    <2>2. Capped(more).tokens = r.tokens + n /\ more.status = r.status
      BY DEF Capped, Row
    <2>3. more \in Row
      BY <2>1, <2>2, Names DEF Row
    <2>. QED
      BY <2>1, <2>2, <2>3, CappedValues
  <1>2. CASE ~(g = Current /\ r.status \in {"active", "budget_limited"})
    BY <1>2 DEF Charged
  <1>. QED
    BY <1>1, <1>2

LEMMA StoppedStep ==
  ASSUME GoalInv, NEW t \in Task, NEW p \in Proc, NoteHumanMessage(t, p) \/ HandleInterrupt(t, p)
  PROVE  StepOK(t)
  <1>1. PICK h \in {"human", "interrupt"}, reason \in {"user", "interrupt"} :
         Stopped(t, p, h, reason)
    BY DEF NoteHumanMessage, HandleInterrupt
  <1>. DEFINE row == [goals[Current] EXCEPT !.status = "paused", !.reason = reason,
                                            !.suppressed = @ /\ reason # "user"]
  <1>2. /\ Current # 0 /\ Save(row) /\ task' = [task EXCEPT ![t] = Done]
        /\ wish' = [wish EXCEPT ![Current] = IF reason = "user" THEN "stop" ELSE @]
        /\ UNCHANGED <<lock, inflight, audited, processVars>>
    BY <1>1 DEF Stopped
  <1>3. Current \in GoalId /\ created \in Nat /\ goals[Current] \in Row
    BY <1>2, CurrentGoal DEF GoalInv
  <1>4. row \in Row /\ row.status = "paused"
    BY <1>3, Names DEF Row
  <1>5. /\ wish' \in Wishes /\ \A g \in GoalId \ {Current} : wish'[g] = wish[g]
        /\ wish'[Current] = "clear" => wish[Current] = "clear"
    BY <1>2, <1>3 DEF GoalInv, HistInv, Wishes
  <1>6. TableInv' /\ created' = created
    <2>1. SaveOver(snap, row) /\ row.status # "complete" /\ audited' = audited
      BY <1>2, <1>4 DEF Save
    <2>. QED
      BY <1>2, <1>4, <1>5, <2>1, SavesTable DEF GoalInv, TableInv
  <1>7. TaskStep(t)
    BY <1>2, <1>3, <1>6, Finishes
  <1>8. HistStep /\ LockStep /\ inflight' \subseteq Proc /\ UNCHANGED processVars
    BY <1>2, <1>5 DEF HistStep, LockStep, GoalInv, HistInv, LockInv
  <1>. QED
    BY <1>3, <1>6, <1>7, <1>8 DEF StepOK

\* Calls that only look.
LEMMA QuietCalls ==
  ASSUME GoalInv, NEW t \in Task, NEW p \in Proc,
         CommandRefused(t, p) \/ HandleIdle(t, p) \/ Watchdog(t, p) \/ SessionBusy(t)
  PROVE  StepOK(t)
  <1>1. UNCHANGED <<tableVars, lock, inflight, wish, audited, processVars>>
    BY DEF CommandRefused, HandleIdle, Watchdog, SessionBusy
  <1>2. created' \in Nat /\ created' = created
    BY <1>1, CurrentGoal DEF GoalInv, tableVars
  <1>3. TaskStep(t)
    <2>1. CASE CommandRefused(t, p)
      BY <1>2, <2>1, Finishes DEF CommandRefused
    <2>2. CASE HandleIdle(t, p)
      BY <1>2, <2>2, ListenStep DEF HandleIdle, Calls
    <2>3. CASE Watchdog(t, p)
      BY <1>2, <2>3, DecideStep DEF Watchdog, Calls
    <2>4. CASE SessionBusy(t)
      BY <1>2, <2>4, Finishes DEF SessionBusy
    <2>. QED
      BY <2>1, <2>2, <2>3, <2>4
  <1>. QED
    BY <1>1, <1>3, QuietStep DEF LockStep, GoalInv, LockInv

LEMMA AccountStep ==
  ASSUME GoalInv, NEW t \in Task, NEW n \in 0..1, NEW streak \in BOOLEAN, NEW loop \in BOOLEAN,
         NEW gated \in BOOLEAN, Account(t, n, streak, loop, gated)
  PROVE  StepOK(t)
  <1>. DEFINE l == task[t]
              row == Charged(Current, goals[Current], n)
              turn == Current # 0 /\ goals[Current].kind = "continuation"
              next == IF ~turn THEN row
                      ELSE IF loop THEN Capped([row EXCEPT !.status = "paused", !.reason = "loop"])
                      ELSE Capped([row EXCEPT !.suppressed = streak])
  <1>1. /\ UNCHANGED <<lock, inflight, wish, audited, processVars>> /\ l.pc = "listening"
        /\ task' = [task EXCEPT ![t] =
             IF Current # 0 /\ next.status = "active" /\ ~gated
               THEN Waiting("judging", l.at, Current, NewRow, "none", FALSE, 0)
               ELSE Waiting("deciding", l.at, 0, NewRow, "none", FALSE, 0)]
    BY DEF Account
  <1>2. l.at \in Proc /\ up[l.at] = "up" /\ created \in Nat
    BY <1>1, CallValues DEF Idle
  <1>3. TableInv' /\ created' = created
    <2>1. CASE Current = 0
      BY <1>1, <2>1, KeepsTable DEF Account, GoalInv
    <2>2. CASE Current # 0
      <3>1. /\ next.tokens <= MaxTokens
            /\ goals' = [goals EXCEPT ![Current] = next]
            /\ last' = Current
            /\ snap' = IF turn /\ next.focused THEN SnapshotOf(Current, next) ELSE snap
            /\ exists' = exists /\ created' = created
        BY <2>2 DEF Account
      <3>2. /\ Current \in GoalId /\ Current \in exists /\ Current <= created
            /\ goals[Current] \in Row /\ (goals[Current].status = "complete" => Current \in audited)
            /\ created \in created..MaxGoals
        BY <2>2, CurrentGoal, GoalAssumption DEF GoalInv, TableInv, Known
      <3>3. next.tokens = row.tokens
        BY DEF Capped
      <3>4. /\ row \in Row /\ (row.status = "complete" => Current \in audited)
            /\ (row.status = "active" => ~OverBudget(row))
        BY <3>1, <3>2, <3>3, ChargedValues
      <3>5. RowOK(Current, next, "run", audited)
        <4>. HIDE DEF row, turn
        <4>1. CASE ~turn
          BY <3>4, <4>1 DEF RowOK
        <4>2. CASE turn
          <5>1. PICK r \in Row : next = Capped(r) /\ (r.status = "complete" => Current \in audited)
            <6>1. [row EXCEPT !.status = "paused", !.reason = "loop"] \in Row
                  /\ [row EXCEPT !.status = "paused", !.reason = "loop"].status = "paused"
                  /\ [row EXCEPT !.suppressed = streak] \in Row
                  /\ [row EXCEPT !.suppressed = streak].status = row.status
              BY <3>4, Names DEF Row
            <6>. QED
              BY <3>4, <4>2, <6>1
          <5>. QED
            BY <5>1, CappedValues DEF RowOK
        <4>. QED
          BY <4>1, <4>2
      <3>. HIDE DEF next, turn
      <3>6. ASSUME NEW g \in GoalId PROVE RowOK(g, goals'[g], wish'[g], audited')
        BY <1>1, <3>1, <3>2, <3>5, TableRows DEF RowOK, GoalInv, TableInv
      <3>7. SnapOK(snap', created', audited')
        <4>1. SnapOK(SnapshotOf(Current, next), created, audited) /\ SnapOK(snap, created, audited)
          BY <1>2, <3>2, <3>5, SnapshotValues DEF RowOK, GoalInv, TableInv
        <4>. QED
          BY <1>1, <3>1, <4>1
      <3>8. /\ exists' \subseteq 1..created' /\ (last' \in exists' \/ (last' = 0 /\ exists' = {}))
            /\ \A g \in 1..created' : g \notin exists' => wish'[g] = "clear"
            /\ DOMAIN goals' = GoalId /\ goals' = [g \in GoalId |-> goals'[g]]
        BY <1>1, <3>1, <3>2 DEF GoalInv, TableInv, Known
      <3>9. FocusInv'
        <4>1. exists \subseteq GoalId
          BY GoalAssumption DEF GoalInv, TableInv, Known, GoalId
        <4>. QED
          BY <1>1, <2>2, <3>1, <3>2, <4>1, FocusKeeps DEF GoalInv, TableInv
      <3>. QED
        BY <3>1, <3>2, <3>6, <3>7, <3>8, <3>9, NewTable DEF GoalInv
    <2>. QED
      BY <2>1, <2>2
  <1>4. TaskStep(t)
    <2>1. CASE Current # 0 /\ next.status = "active" /\ ~gated
      <3>1. task' = [task EXCEPT ![t] = Waiting("judging", l.at, Current, NewRow, "none", FALSE, 0)]
        BY <1>1, <2>1
      <3>2. "judging" \in Pc /\ NewRow \in Row /\ NewRow.status # "complete" /\ 0 \in 0..1
            /\ FALSE \in BOOLEAN /\ "none" \in PromptKind /\ Current \in GoalId \cup {0}
            /\ Current + 0 <= created'
        BY <1>3, <2>1, RowValues, Names, CurrentGoal DEF Pc, GoalInv, GoalId
      <3>. QED
        BY <1>2, <2>1, <3>1, <3>2, Waits
    <2>2. CASE ~(Current # 0 /\ next.status = "active" /\ ~gated)
      <3>1. task' = [task EXCEPT ![t] = Waiting("deciding", l.at, 0, NewRow, "none", FALSE, 0)]
        BY <1>1, <2>2
      <3>. QED
        BY <1>2, <1>3, <3>1, DecideStep
    <2>. QED
      BY <2>1, <2>2
  <1>. QED
    BY <1>1, <1>2, <1>3, <1>4 DEF StepOK, HistStep, LockStep, GoalInv, HistInv, LockInv

LEMMA JudgedStep ==
  ASSUME GoalInv, NEW t \in Task, NEW verdict \in Verdict, NEW unusable \in BOOLEAN,
         Judged(t, verdict, unusable)
  PROVE  StepOK(t)
  <1>. DEFINE l == task[t]
  <1>1. /\ UNCHANGED <<lock, inflight, wish, audited, processVars>> /\ l.pc = "judging"
    BY DEF Judged
  <1>2. /\ l.at \in Proc /\ up[l.at] = "up" /\ created \in Nat /\ l.id \in 1..created
    BY <1>1, CallValues DEF Idle
  <1>3. TableInv' /\ created' = created
    <2>1. CASE verdict = "none" \/ Current # l.id
      <3>1. UNCHANGED tableVars
        BY <2>1 DEF Judged
      <3>. QED
        BY <1>1, <3>1, KeepsTable DEF GoalInv
    <2>2. CASE verdict # "none" /\ Current = l.id
      <3>1. Current # 0
        BY <1>2, <2>2
      <3>2. goals[Current] \in Row /\ (goals[Current].status = "complete" => Current \in audited)
        BY <3>1, CurrentGoal DEF GoalInv
      <3>. DEFINE r1 == [goals[Current] EXCEPT !.status = "paused", !.reason = "audit"]
                  r2 == [goals[Current] EXCEPT !.verdict = verdict]
      <3>3. Save(r1) \/ Save(r2)
        BY <2>2 DEF Judged
      <3>4. r1 \in Row /\ r1.status = "paused"
            /\ r2 \in Row /\ r2.status = goals[Current].status
        BY <3>2, Names DEF Row
      <3>. HIDE DEF r1, r2
      <3>. QED
        BY <1>1, <3>1, <3>2, <3>3, <3>4, SaveStep
    <2>. QED
      BY <2>1, <2>2
  <1>4. TaskStep(t)
    BY <1>2, <1>3, Finishes, DecideStep DEF Judged
  <1>. QED
    BY <1>1, <1>2, <1>3, <1>4 DEF StepOK, HistStep, LockStep, GoalInv, HistInv, LockInv

-----------------------------------------------------------------------------
(* Prompts and the decision to send one.                                   *)

LEMMA PromptEndsStep ==
  ASSUME GoalInv, NEW t \in Task, PromptEnds(t), TableInv', created' = created
  PROVE  StepOK(t)
  <1>1. /\ task' = [task EXCEPT ![t] = Done] /\ lock' \in {lock, NoLock}
        /\ inflight' \subseteq inflight /\ UNCHANGED <<wish, audited, processVars>>
    BY DEF PromptEnds, Unlocked
  <1>2. TaskStep(t) /\ created' \in Nat
    BY <1>1, Finishes, CurrentGoal DEF GoalInv
  <1>. QED
    BY <1>1, <1>2 DEF StepOK, HistStep, LockStep, GoalInv, HistInv, LockInv

LEMMA PromptReturnsStep ==
  ASSUME GoalInv, NEW t \in Task, NEW n \in 0..1, NEW idleTurn \in BOOLEAN,
         NEW stalled \in BOOLEAN, PromptReturns(t, n, idleTurn, stalled)
  PROVE  StepOK(t)
  <1>. DEFINE row == Charged(task[t].id, goals[Current], n)
              row2 == [row EXCEPT !.kind = task[t].kind, !.suppressed = idleTurn,
                                  !.status = IF stalled THEN "paused" ELSE @,
                                  !.reason = IF stalled THEN "no_progress" ELSE @]
  <1>1. PromptEnds(t) /\ UNCHANGED <<wish, audited, processVars>>
    BY DEF PromptReturns, PromptEnds
  <1>2. TableInv' /\ created' = created
    <2>1. CASE Current = 0
      BY <1>1, <2>1, KeepsTable DEF PromptReturns, GoalInv
    <2>2. CASE Current # 0
      <3>1. row.tokens <= MaxTokens /\ Save(row2)
        BY <2>2 DEF PromptReturns
      <3>2. goals[Current] \in Row /\ (goals[Current].status = "complete" => Current \in audited)
        BY <2>2, CurrentGoal DEF GoalInv
      <3>3. row \in Row /\ (row.status = "complete" => Current \in audited)
        BY <3>1, <3>2, ChargedValues
      <3>4. task[t].kind \in PromptKind
        BY <1>1, CallValues DEF PromptEnds, Idle
      <3>. HIDE DEF row
      <3>5. row2 \in Row /\ row2.status \in {row.status, "paused"}
        <4>1. CASE stalled
          <5>1. row2 = [row EXCEPT !.kind = task[t].kind, !.suppressed = idleTurn,
                                   !.status = "paused", !.reason = "no_progress"]
            BY <4>1
          <5>. QED
            BY <5>1, <3>3, <3>4, Names DEF Row
        <4>2. CASE ~stalled
          <5>1. row2 = [row EXCEPT !.kind = task[t].kind, !.suppressed = idleTurn]
            BY <3>3, <4>2 DEF Row
          <5>. QED
            BY <5>1, <3>3, <3>4 DEF Row
        <4>. QED
          BY <4>1, <4>2
      <3>. HIDE DEF row2
      <3>. QED
        BY <1>1, <2>2, <3>1, <3>3, <3>5, SaveStep
    <2>. QED
      BY <2>1, <2>2
  <1>. QED
    BY <1>1, <1>2, PromptEndsStep

LEMMA PromptFailsStep ==
  ASSUME GoalInv, NEW t \in Task, NEW tooOften \in BOOLEAN, PromptFails(t, tooOften)
  PROVE  StepOK(t)
  <1>. DEFINE row == [goals[Current] EXCEPT !.status = "paused", !.reason = "blocked"]
  <1>1. PromptEnds(t) /\ UNCHANGED <<wish, audited, processVars>>
    BY DEF PromptFails, PromptEnds
  <1>2. TableInv' /\ created' = created
    <2>1. CASE tooOften /\ Current # 0 /\ Current = task[t].id
      <3>1. Save(row) /\ goals[Current] \in Row
        BY <2>1, CurrentGoal DEF PromptFails, GoalInv
      <3>2. row \in Row /\ row.status = "paused"
        BY <3>1, Names DEF Row
      <3>. QED
        BY <1>1, <2>1, <3>1, <3>2, SaveStep
    <2>2. CASE ~(tooOften /\ Current # 0 /\ Current = task[t].id)
      BY <1>1, <2>2, KeepsTable DEF PromptFails, GoalInv
    <2>. QED
      BY <2>1, <2>2
  <1>. QED
    BY <1>1, <1>2, PromptEndsStep

LEMMA AbortedStep ==
  ASSUME GoalInv, NEW t \in Task, Aborted(t)
  PROVE  StepOK(t)
  <1>. DEFINE g == IF task[t].ok /\ Current # 0 THEN Current ELSE task[t].id
  <1>1. /\ task[t].pc = "aborting" /\ Prompt(t, task[t].at, g, task[t].kind)
        /\ UNCHANGED <<tableVars, wish, audited, processVars>>
    BY DEF Aborted
  <1>2. /\ task[t].at \in Proc /\ up[task[t].at] = "up" /\ task[t].kind \in PromptKind
        /\ task[t].id \in GoalId \cup {0} /\ task[t].id <= created
    BY <1>1, CallValues DEF Idle
  <1>3. created \in Nat /\ created' = created
        /\ Current \in GoalId \cup {0} /\ Current <= created
    BY <1>1, CurrentGoal DEF tableVars, GoalInv
  <1>4. g \in GoalId \cup {0} /\ g <= created' /\ created' \in Nat
    BY <1>2, <1>3
  <1>. HIDE DEF g
  <1>5. TaskStep(t) /\ LockStep /\ inflight' \subseteq Proc
    BY <1>1, <1>2, <1>4, Prompts DEF GoalInv
  <1>. QED
    BY <1>1, <1>5, QuietStep

\* Any prompt of the current goal by a decision that has saved the goal, or not.
LEMMA CurrentPrompt ==
  ASSUME GoalInv, NEW t \in Task, NEW p \in Proc, up[p] = "up", NEW kind \in PromptKind,
         Prompt(t, p, Current, kind), Current # 0, TableInv', created' = created,
         UNCHANGED <<wish, audited, processVars>>
  PROVE  StepOK(t)
  <1>1. Current \in GoalId \cup {0} /\ Current <= created' /\ created' \in Nat
    BY CurrentGoal DEF GoalInv
  <1>2. TaskStep(t) /\ LockStep /\ inflight' \subseteq Proc
    BY <1>1, Prompts DEF GoalInv
  <1>. QED
    BY <1>1, <1>2 DEF StepOK, HistStep, GoalInv, HistInv

\* A step that saves the table, leaves the rest alone, and ends the call.
LEMMA SaveAndEnd ==
  ASSUME GoalInv, NEW t \in Task, TableInv', created' = created,
         task' = [task EXCEPT ![t] = Done], LockStep, inflight' = inflight,
         UNCHANGED <<wish, audited, processVars>>
  PROVE  StepOK(t)
  <1>1. TaskStep(t) /\ created' \in Nat
    BY Finishes, CurrentGoal DEF GoalInv
  <1>. QED
    BY <1>1 DEF StepOK, HistStep, GoalInv, HistInv, LockInv

\* A call waits for the proof of the current goal.
LEMMA ProveStep ==
  ASSUME GoalInv, NEW t \in Task, NEW p \in Proc, up[p] = "up", Current # 0,
         NEW kind \in PromptKind, UNCHANGED <<tableVars, wish, audited, processVars>>,
         task' = [task EXCEPT ![t] = Waiting("proving", p, Current, goals[Current], kind, FALSE, 0)],
         LockStep, inflight' = inflight
  PROVE  StepOK(t)
  <1>1. /\ "proving" \in Pc /\ FALSE \in BOOLEAN /\ 0 \in 0..1 /\ Current \in GoalId \cup {0}
        /\ Current + 0 <= created' /\ goals[Current] \in Row
        /\ (goals[Current].status = "complete" => Current \in audited')
    BY CurrentGoal DEF Pc, GoalInv, tableVars, GoalId
  <1>2. TaskStep(t)
    BY <1>1, Waits
  <1>. QED
    BY <1>2, QuietStep DEF GoalInv, LockInv

LEMMA TryStep ==
  ASSUME NEW p \in Proc, up[p] = "up", lock' \in {lock, TryLock(p)}
  PROVE  LockStep
  BY DEF LockStep, TryLock

LEMMA DecideQuietSteps ==
  ASSUME GoalInv, NEW t \in Task, DecideSkip(t) \/ DecideImpossible(t) \/ DecideContinue(t)
  PROVE  StepOK(t)
  <1>. DEFINE p == task[t].at
  <1>1. Deciding(t) /\ UNCHANGED <<wish, audited, processVars>>
    BY DEF DecideSkip, DecideImpossible, DecideContinue, Deciding
  <1>2. p \in Proc /\ up[p] = "up" /\ created \in Nat
    BY <1>1, CallValues DEF Deciding, Idle
  <1>3. CASE DecideSkip(t)
    <2>1. lock' \in {lock, TryLock(p)} /\ task' = [task EXCEPT ![t] = Done]
          /\ UNCHANGED <<tableVars, inflight>>
      BY <1>3 DEF DecideSkip
    <2>2. TableInv' /\ created' = created
      BY <1>1, <2>1, KeepsTable DEF GoalInv
    <2>. QED
      BY <1>1, <1>2, <2>1, <2>2, TryStep, SaveAndEnd
  <1>4. CASE DecideImpossible(t)
    <2>1. lock' \in {lock, TryLock(p)} /\ task' = [task EXCEPT ![t] = Done]
          /\ UNCHANGED inflight /\ Save(Hopeless(goals[Current])) /\ Current # 0
      BY <1>4 DEF DecideImpossible, Continuable
    <2>2. Hopeless(goals[Current]) \in Row /\ Hopeless(goals[Current]).status = "impossible"
      BY <2>1, CurrentGoal, Names DEF Hopeless, Row, GoalInv
    <2>3. TableInv' /\ created' = created
      BY <1>1, <2>1, <2>2, SaveStep
    <2>. QED
      BY <1>1, <1>2, <2>1, <2>3, TryStep, SaveAndEnd
  <1>5. CASE DecideContinue(t)
    <2>1. Prompt(t, p, Current, "continuation") /\ Current # 0 /\ UNCHANGED tableVars
      BY <1>5 DEF DecideContinue, Continuable
    <2>2. TableInv' /\ created' = created /\ "continuation" \in PromptKind
      BY <1>1, <2>1, KeepsTable, Names DEF GoalInv
    <2>. QED
      BY <1>1, <1>2, <2>1, <2>2, CurrentPrompt
  <1>. QED
    BY <1>3, <1>4, <1>5

LEMMA DecideLimitStep ==
  ASSUME GoalInv, NEW t \in Task, NEW limited \in BOOLEAN, DecideLimit(t, limited)
  PROVE  StepOK(t)
  <1>. DEFINE p == task[t].at
              row == [goals[Current] EXCEPT !.wrapup = TRUE, !.status = "budget_limited",
                                            !.reason = "budget"]
  <1>1. /\ Deciding(t) /\ UNCHANGED <<wish, audited, processVars>> /\ Current # 0
        /\ Save(row) /\ Prompt(t, p, Current, "budget_limit")
    BY DEF DecideLimit, Deciding, Running
  <1>2. p \in Proc /\ up[p] = "up" /\ "budget_limit" \in PromptKind
    BY <1>1, CallValues, Names DEF Deciding, Idle
  <1>3. row \in Row /\ row.status = "budget_limited"
    BY <1>1, CurrentGoal, Names DEF Row, GoalInv
  <1>4. TableInv' /\ created' = created
    BY <1>1, <1>3, SaveStep
  <1>. QED
    BY <1>1, <1>2, <1>4, CurrentPrompt

-----------------------------------------------------------------------------
(* Completion.                                                             *)

\* What becomes of the current goal when its contract was tampered with, or the claim
\* is too thin.
LEMMA ClaimDenied ==
  ASSUME GoalInv, Current # 0, UNCHANGED <<wish, audited, processVars>>,
         \/ Save([goals[Current] EXCEPT !.status = "paused", !.reason = "audit"])
         \/ Save(Lifted(goals[Current]))
  PROVE  TableInv' /\ created' = created
  <1>. DEFINE r1 == [goals[Current] EXCEPT !.status = "paused", !.reason = "audit"]
              r2 == Lifted(goals[Current])
  <1>1. goals[Current] \in Row /\ (goals[Current].status = "complete" => Current \in audited)
    BY CurrentGoal DEF GoalInv
  <1>2. r1 \in Row /\ r1.status = "paused"
        /\ r2 \in Row /\ r2.status = goals[Current].status
    BY <1>1, Names DEF Row, Lifted
  <1>3. Save(r1) \/ Save(r2)
    OBVIOUS
  <1>. HIDE DEF r1, r2
  <1>4. PICK r \in Row : Save(r) /\ (r.status = "complete" => Current \in audited)
    BY <1>1, <1>2, <1>3
  <1>. QED
    BY <1>4, SaveStep

LEMMA DecideCompleteStep ==
  ASSUME GoalInv, NEW t \in Task, NEW found, DecideComplete(t, found)
  PROVE  StepOK(t)
  <1>. DEFINE p == task[t].at
  <1>1. Deciding(t) /\ UNCHANGED <<wish, audited, processVars>> /\ Current # 0 /\ CanLock(p)
    BY DEF DecideComplete, Deciding, Continuable
  <1>2. p \in Proc /\ up[p] = "up" /\ "continuation" \in PromptKind
    BY <1>1, CallValues, Names DEF Deciding, Idle
  <1>3. CASE found = "proves"
    <2>1. /\ lock' = Locked(p) /\ UNCHANGED <<tableVars, inflight>>
          /\ task' = [task EXCEPT ![t] =
               Waiting("proving", p, Current, goals[Current], "continuation", FALSE, 0)]
      BY <1>3 DEF DecideComplete
    <2>2. LockStep
      BY <1>1, <1>2, <2>1 DEF LockStep
    <2>. QED
      BY <1>1, <1>2, <2>1, <2>2, ProveStep
  <1>4. CASE found # "proves"
    <2>1. /\ Prompt(t, p, Current, "continuation")
          /\ \/ Save([goals[Current] EXCEPT !.status = "paused", !.reason = "audit"])
             \/ Save(Lifted(goals[Current]))
      BY <1>4 DEF DecideComplete
    <2>2. TableInv' /\ created' = created
      BY <1>1, <2>1, ClaimDenied
    <2>. QED
      BY <1>1, <1>2, <2>1, <2>2, CurrentPrompt
  <1>. QED
    BY <1>3, <1>4

LEMMA CompleteFromModelStep ==
  ASSUME GoalInv, NEW t \in Task, NEW p \in Proc, NEW found, CompleteFromModel(t, p, found)
  PROVE  StepOK(t)
  <1>1. Owned(t, p, "complete") /\ Current # 0
        /\ UNCHANGED <<inflight, wish, audited, processVars>>
    BY DEF CompleteFromModel, Running
  <1>2. up[p] = "up" /\ LockStep
    BY <1>1, OwnedStep
  <1>3. CASE found = "proves"
    <2>1. /\ UNCHANGED tableVars
          /\ task' = [task EXCEPT ![t] =
               Waiting("proving", p, Current, goals[Current], "none", FALSE, 0)]
      BY <1>3 DEF CompleteFromModel
    <2>. QED
      BY <1>1, <1>2, <2>1, ProveStep, Names
  <1>4. CASE found # "proves"
    <2>1. /\ task' = [task EXCEPT ![t] = Done]
          /\ \/ Save([goals[Current] EXCEPT !.status = "paused", !.reason = "audit"])
             \/ Save(Lifted(goals[Current]))
      BY <1>4 DEF CompleteFromModel
    <2>2. TableInv' /\ created' = created
      BY <1>1, <2>1, ClaimDenied
    <2>. QED
      BY <1>1, <1>2, <2>1, <2>2, SaveAndEnd
  <1>. QED
    BY <1>3, <1>4

LEMMA ProvedStep ==
  ASSUME GoalInv, NEW t \in Task, NEW host, Proved(t, host)
  PROVE  StepOK(t)
  <1>. DEFINE l == task[t]
              row == [l.row EXCEPT !.status = "paused", !.reason = "blocked"]
              w == Waiting("auditing", l.at, l.id, l.row, l.kind, host = "pass", 0)
  <1>1. /\ l.pc = "proving" /\ UNCHANGED <<lock, inflight, wish, audited, processVars>>
        /\ task' = [task EXCEPT ![t] = w]
        /\ PersistAnd(l.id, row, FALSE) \/ UNCHANGED tableVars
    BY DEF Proved, Persist
  <1>2. /\ l.at \in Proc /\ up[l.at] = "up" /\ l.id \in 1..created /\ l.row \in Row
        /\ (l.row.status = "complete" => l.id \in audited) /\ l.kind \in PromptKind
        /\ created \in Nat
    BY <1>1, CallValues DEF Idle
  <1>3. TableInv' /\ created' = created
    <2>1. CASE UNCHANGED tableVars
      BY <1>1, <2>1, KeepsTable DEF GoalInv
    <2>2. CASE PersistAnd(l.id, row, FALSE)
      <3>1. row \in Row /\ row.status = "paused" /\ FALSE \in BOOLEAN
        BY <1>2, Names DEF Row
      <3>. QED
        BY <1>1, <1>2, <2>2, <3>1, PersistsTable DEF GoalInv
    <2>. QED
      BY <1>1, <2>1, <2>2
  <1>4. Good(w)
    <2>1. l.id \in GoalId
      BY <1>2, GoalAssumption DEF GoalId, GoalInv, TableInv, Known
    <2>2. w \in Local /\ w.pc = "auditing" /\ w.at = l.at /\ w.id = l.id /\ w.row = l.row
          /\ w.rest = 0
      BY <1>2, <2>1 DEF Waiting, Local, Pc
    <2>. QED
      BY <1>1, <1>2, <1>3, <2>2 DEF Good, LocalOK
  <1>. HIDE DEF w
  <1>5. TaskStep(t)
    BY <1>1, <1>4 DEF TaskStep
  <1>. QED
    BY <1>1, <1>2, <1>3, <1>5 DEF StepOK, HistStep, LockStep, GoalInv, HistInv, LockInv

LEMMA AuditDeniedStep ==
  ASSUME GoalInv, NEW t \in Task, NEW verdict \in Verdict, AuditDenied(t, verdict)
  PROVE  StepOK(t)
  <1>. DEFINE l == task[t]
              v == IF verdict = "none" THEN l.row.verdict ELSE verdict
              r1 == Hopeless(goals[Current])
              r2 == [Lifted(goals[Current]) EXCEPT !.verdict = v]
  <1>1. l.pc = "auditing" /\ UNCHANGED <<wish, audited, processVars>>
    BY DEF AuditDenied
  <1>2. /\ l.at \in Proc /\ up[l.at] = "up" /\ l.id \in 1..created /\ l.row \in Row
        /\ l.kind \in PromptKind /\ created \in Nat
    BY <1>1, CallValues DEF Idle
  <1>3. CASE Current # l.id
    <2>1. task' = [task EXCEPT ![t] = Done] /\ UNCHANGED <<tableVars, lock, inflight>>
      BY <1>3 DEF AuditDenied
    <2>. QED
      BY <1>1, <2>1, KeepsTable, SaveAndEnd DEF GoalInv, LockStep
  <1>4. CASE Current = l.id
    <2>1. Current # 0 /\ goals[Current] \in Row
          /\ (goals[Current].status = "complete" => Current \in audited)
      BY <1>2, <1>4, CurrentGoal DEF GoalInv
    <2>2. r1 \in Row /\ r1.status = "impossible" /\ r2 \in Row /\ r2.status = goals[Current].status
      <3>1. v \in Verdict
        BY <1>2 DEF Row
      <3>2. Lifted(goals[Current]) \in Row /\ Lifted(goals[Current]).status = goals[Current].status
        BY <2>1 DEF Row, Lifted
      <3>. HIDE DEF v
      <3>. QED
        BY <2>1, <3>1, <3>2, Names DEF Hopeless, Row
    <2>3. Save(r1) \/ Save(r2)
      BY <1>4 DEF AuditDenied
    <2>4. TableInv' /\ created' = created
      <3>. HIDE DEF r1, r2
      <3>. QED
        BY <1>1, <2>1, <2>2, <2>3, SaveStep
    <2>5. CASE l.kind = "none"
      <3>1. task' = [task EXCEPT ![t] = Done] /\ UNCHANGED <<lock, inflight>>
        BY <1>4, <2>5 DEF AuditDenied
      <3>. QED
        BY <1>1, <2>4, <3>1, SaveAndEnd DEF LockStep
    <2>6. CASE l.kind # "none"
      <3>1. Prompt(t, l.at, Current, l.kind)
        BY <1>4, <2>6 DEF AuditDenied
      <3>. QED
        BY <1>1, <1>2, <2>1, <2>4, <3>1, CurrentPrompt
    <2>. QED
      BY <2>5, <2>6
  <1>. QED
    BY <1>3, <1>4

LEMMA AuditPassedStep ==
  ASSUME GoalInv, NEW t \in Task, NEW verdict \in Verdict, AuditPassed(t, verdict)
  PROVE  StepOK(t)
  <1>. DEFINE l == task[t]
              whole == [goals[Current] EXCEPT !.status = "complete", !.suppressed = TRUE,
                                              !.verdict = "met"]
              queue == NextQueued \ {l.id}
  <1>1. l.pc = "auditing" /\ UNCHANGED <<wish, processVars>>
    BY DEF AuditPassed
  <1>2. /\ l.at \in Proc /\ up[l.at] = "up" /\ l.id \in 1..created /\ l.id \in GoalId
        /\ created \in Nat /\ created \in created..MaxGoals
    BY <1>1, CallValues, GoalAssumption DEF Idle, GoalInv, TableInv, Known, GoalId
  <1>3. CASE Current # l.id
    <2>1. task' = [task EXCEPT ![t] = Done] /\ UNCHANGED <<tableVars, lock, inflight, audited>>
      BY <1>3 DEF AuditPassed
    <2>. QED
      BY <1>1, <2>1, KeepsTable, SaveAndEnd DEF GoalInv, LockStep
  <1>4. CASE Current = l.id
    <2>1. /\ Current # 0 /\ Current \in GoalId /\ Current \in exists /\ goals[Current] \in Row
      BY <1>2, <1>4, CurrentGoal DEF GoalInv
    <2>2. whole \in Row /\ whole.status = "complete"
      BY <2>1, Names DEF Row
    <2>3. audited' = audited \cup {l.id}
      BY <1>4 DEF AuditPassed, Approved
    <2>4. HistStep
      BY <1>1, <1>2, <2>3 DEF HistStep, GoalInv, HistInv
    <2>5. CASE queue = {}
      <3>1. Save(whole) /\ task' = [task EXCEPT ![t] = Done] /\ UNCHANGED <<lock, inflight>>
        BY <1>4, <2>5 DEF AuditPassed
      <3>2. TableInv' /\ created' = created
        <4>1. SaveOver(snap, whole) /\ wish' = wish /\ Current \in audited'
          BY <1>1, <1>4, <2>3, <3>1 DEF Save
        <4>. QED
          BY <2>1, <2>2, <2>4, <4>1, SavesTable DEF GoalInv, TableInv, HistStep, HistInv
      <3>3. TaskStep(t)
        BY <1>2, <3>1, <3>2, Finishes
      <3>. QED
        BY <1>1, <1>2, <2>4, <3>1, <3>2, <3>3 DEF StepOK, LockStep, GoalInv, LockInv
    <2>6. CASE queue # {}
      <3>. DEFINE g == CHOOSE q \in queue : \A h \in queue : q <= h
                  row == Capped(Activated([goals[g] EXCEPT !.focused = TRUE]))
                  back == [whole EXCEPT !.focused = FALSE]
      <3>1. /\ goals' = [Unfocused EXCEPT ![l.id] = back, ![g] = row]
            /\ last' = g /\ snap' = SnapshotOf(g, row)
            /\ Prompt(t, l.at, g, "start")
            /\ exists' = exists /\ created' = created
        BY <1>4, <2>6 DEF AuditPassed
      <3>2. g \in exists /\ g \in GoalId /\ g # l.id /\ g <= created
        <4>1. queue \subseteq exists /\ exists \subseteq 1..created /\ l.id \notin queue
          BY DEF NextQueued, GoalInv, TableInv, Known
        <4>. HIDE DEF queue
        <4>2. queue \subseteq 1..created /\ queue \subseteq Nat
          BY <1>2, <4>1
        <4>3. \E q \in queue : \A h \in queue : q <= h
          BY <2>6, <4>2, Smallest
        <4>4. g \in queue
          BY <4>3
        <4>5. g \in 1..created /\ g # l.id
          BY <4>1, <4>2, <4>4
        <4>. HIDE DEF g
        <4>. QED
          BY <1>2, <4>1, <4>4, <4>5, GoalAssumption DEF GoalId
      <3>. HIDE DEF g
      <3>3. RowOK(g, row, "run", audited)
        <4>. DEFINE a == Activated([goals[g] EXCEPT !.focused = TRUE])
        <4>1. a \in Row /\ a.status = "active"
          <5>1. goals[g] \in Row
            BY <3>2 DEF GoalInv, TableInv
          <5>. QED
            BY <5>1, Names DEF Activated, Row
        <4>. HIDE DEF a
        <4>2. RowOK(g, Capped(a), "run", audited)
          BY <4>1, CappedValues DEF RowOK
        <4>. QED
          BY <4>2 DEF a
      <3>4. back \in Row /\ back.status = "complete"
        BY <2>2 DEF Row
      <3>. HIDE DEF row, back
      <3>5. TableInv'
        <4>0. Unfocused \in [GoalId -> Row]
          BY TableRows DEF Unfocused, RowOK, GoalInv
        <4>1. goals' = [h \in GoalId |-> IF h = g THEN row ELSE IF h = l.id THEN back
                                         ELSE Unfocused[h]]
          BY <1>2, <3>1, <3>2, <4>0
        <4>2. ASSUME NEW h \in GoalId PROVE RowOK(h, goals'[h], wish'[h], audited')
          <5>1. CASE h = g
            BY <2>3, <3>3, <4>1, <5>1 DEF RowOK
          <5>2. CASE h = l.id
            BY <2>3, <3>2, <3>4, <4>1, <5>2 DEF RowOK
          <5>3. CASE h \notin {g, l.id}
            <6>1. goals'[h] = Unfocused[h] /\ wish'[h] = wish[h]
              BY <1>1, <4>1, <5>3
            <6>. QED
              BY <2>3, <6>1, TableRows DEF RowOK, GoalInv
          <5>. QED
            BY <5>1, <5>2, <5>3
        <4>3. SnapOK(snap', created', audited')
          <5>1. row \in Row /\ (row.status = "complete" => g \in audited')
            BY <2>3, <3>3 DEF RowOK
          <5>. QED
            BY <1>2, <3>1, <3>2, <5>1, SnapshotValues
        <4>4. /\ exists' \subseteq 1..created' /\ (last' \in exists' \/ (last' = 0 /\ exists' = {}))
              /\ \A h \in 1..created' : h \notin exists' => wish'[h] = "clear"
          BY <1>1, <3>1, <3>2 DEF GoalInv, TableInv, Known
        <4>5. DOMAIN goals' = GoalId /\ goals' = [h \in GoalId |-> goals'[h]]
          BY <4>1
        <4>6. Focused' \subseteq {last'}
          <5>1. \A h \in GoalId : ~Unfocused[h].focused
            BY DEF Unfocused, GoalInv, TableInv, Row
          <5>2. ~back.focused
            BY <2>2 DEF back, Row
          <5>3. exists' \subseteq GoalId
            BY <1>2, <3>1, <4>4, GoalAssumption DEF GoalId
          <5>4. ASSUME NEW h \in GoalId, h # g PROVE ~goals'[h].focused
            BY <4>1, <5>1, <5>2, <5>4
          <5>. QED
            BY <3>1, <5>3, <5>4, FocusedIn
        <4>. QED
          BY <1>2, <3>1, <4>2, <4>3, <4>4, <4>5, <4>6, FocusOfLast, NewTable DEF GoalInv
      <3>6. TaskStep(t) /\ LockStep /\ inflight' \subseteq Proc
        <4>1. "start" \in PromptKind /\ g \in GoalId \cup {0} /\ g <= created' /\ created' \in Nat
          BY <1>2, <3>1, <3>2, Names
        <4>. QED
          BY <1>2, <3>1, <4>1, Prompts DEF GoalInv
      <3>. QED
        BY <1>1, <1>2, <2>4, <3>1, <3>5, <3>6 DEF StepOK
    <2>. QED
      BY <2>5, <2>6
  <1>. QED
    BY <1>3, <1>4

-----------------------------------------------------------------------------
(* Recovery, and the processes.                                            *)

LEMMA ReopenedValues ==
  ASSUME NEW row \in Row, ShouldAutoResume(row)
  PROVE  Reopened(row) \in Row /\ Reopened(row).status # "complete"
  <1>1. CASE row.status = "budget_limited"
    <2>1. Reopened(row) = [row EXCEPT !.reason = "budget", !.suppressed = FALSE]
      BY <1>1 DEF Reopened
    <2>. QED
      BY <1>1, <2>1, Names DEF Row
  <1>2. CASE row.status # "budget_limited"
    BY <1>2, Names DEF Reopened, Activated, Row
  <1>. QED
    BY <1>1, <1>2

\* The import of a snapshot: its goal was cleared or replaced.
LEMMA ImportedTable ==
  ASSUME TableInv, HistInv, Imports, NEW row \in Row, row.status = "complete" => snap.id \in audited,
         goals' = [goals EXCEPT ![snap.id] = row],
         exists' = exists \cup {snap.id}, last' = IF exists = {} THEN snap.id ELSE last,
         SnapOK(snap', created, audited), UNCHANGED <<created, wish, audited>>
  PROVE  TableInv' /\ snap.id \in GoalId
  <1>1. /\ snap.id \in 1..created /\ snap.id \in GoalId /\ snap.id \notin exists
        /\ wish[snap.id] = "clear" /\ created' = created /\ created \in created..MaxGoals
    BY GoalAssumption DEF Imports, TableInv, Known, SnapOK, Snapshot, GoalId
  <1>2. ASSUME NEW g \in GoalId PROVE RowOK(g, goals'[g], wish'[g], audited')
    BY <1>1, TableRows DEF RowOK, TableInv
  <1>3. /\ exists' \subseteq 1..created' /\ last' \in exists'
        /\ \A g \in 1..created' : g \notin exists' => wish'[g] = "clear"
        /\ DOMAIN goals' = GoalId /\ goals' = [g \in GoalId |-> goals'[g]]
    BY <1>1 DEF TableInv, Known
  <1>4. FocusInv'
    <2>1. Focused' \subseteq Focused \cup {snap.id} /\ Focused \subseteq Focused'
      BY <1>1 DEF Focused, TableInv, Known
    <2>2. CASE exists = {}
      BY <2>1, <2>2, FocusOfLast DEF Focused
    <2>3. CASE exists # {} /\ \A g \in Focused : wish[g] = "clear"
      BY <1>1, <2>1, <2>3 DEF FocusInv, OneFocused
    <2>4. CASE exists # {} /\ \E g \in Focused : wish[g] # "clear"
      <3>1. PICK h \in Focused : wish[h] # "clear"
        BY <2>4
      <3>2. last' = last /\ wish[Current] # "clear" /\ Current # 0 /\ Current \in Focused
        BY <2>4, <3>1, <1>1, CurrentFocus, CurrentGoal DEF TableInv, FocusInv, Known
      <3>3. Current' = Current
        <4>1. CASE last \in Focused
          BY <2>1, <3>2, <4>1, CurrentFocus DEF Current, TableInv
        <4>2. CASE last \notin Focused
          <5>1. h <= Current /\ snap.id < h /\ \A g \in Focused : g <= Current
            BY <1>1, <3>1, <4>2, CurrentFocus DEF TableInv, FocusInv, Known, Focused
          <5>2. Current \in Int /\ snap.id \in Int /\ h \in Int
            BY <1>1, <3>1, <3>2 DEF TableInv, Known, Focused
          <5>3. Newest' = {Current}
            <6>1. \A g \in Focused' : g \in Int /\ g <= Current
              <7>1. Focused \subseteq Int
                <8>1. created \in Nat /\ exists \subseteq 1..created
                  BY GoalAssumption DEF TableInv, Known
                <8>2. 1..created \subseteq Int
                  BY <8>1
                <8>3. Focused \subseteq exists
                  BY DEF Focused
                <8>. QED
                  BY <8>1, <8>2, <8>3
              <7>2. snap.id <= Current
                BY <5>1, <5>2
              <7>. QED
                BY <2>1, <5>1, <5>2, <7>1, <7>2
            <6>2. Current \in Focused'
              BY <2>1, <3>2
            <6>3. Current \in Newest'
              BY <6>1, <6>2 DEF Newest
            <6>4. ASSUME NEW g \in Newest' PROVE g = Current
              <7>1. g \in Focused' /\ Current <= g
                BY <6>2, <6>4 DEF Newest
              <7>. QED
                BY <5>2, <6>1, <7>1
            <6>. QED
              BY <6>3, <6>4
          <5>4. last \notin Focused'
            BY <1>1, <2>1, <2>4, <4>2 DEF TableInv, Known
          <5>. QED
            BY <3>2, <5>3, <5>4 DEF Current
        <4>. QED
          BY <4>1, <4>2
      <3>. QED
        BY <1>1, <2>1, <3>2, <3>3 DEF FocusInv, OneFocused, TableInv
    <2>. QED
      BY <2>2, <2>3, <2>4
  <1>. QED
    BY <1>1, <1>2, <1>3, <1>4, NewTable

LEMMA RecoveredStep ==
  ASSUME GoalInv, NEW t \in Task, Recovered(t)
  PROVE  StepOK(t)
  <1>. DEFINE l == task[t]
  <1>1. /\ l.pc = "recovering" /\ UNCHANGED <<inflight, wish, audited, processVars>>
        /\ lock' \in {lock, TryLock(l.at)}
    BY DEF Recovered
  <1>2. /\ l.at \in Proc /\ up[l.at] = "up" /\ l.id \in 1..created /\ l.row \in Row
        /\ created \in Nat
    BY <1>1, CallValues DEF Idle
  <1>3. LockStep
    BY <1>1, <1>2, TryStep
  <1>4. CASE ShouldAutoResume(l.row) /\ CanLock(l.at)
    <2>1. PersistAnd(l.id, Reopened(l.row), FALSE) /\ Listen(t, l.at)
      BY <1>4 DEF Recovered, Persist
    <2>2. Reopened(l.row) \in Row /\ Reopened(l.row).status # "complete" /\ FALSE \in BOOLEAN
      BY <1>2, <1>4, ReopenedValues
    <2>3. TableInv' /\ created' = created
      BY <1>1, <1>2, <2>1, <2>2, PersistsTable DEF GoalInv
    <2>4. TaskStep(t)
      BY <1>2, <2>1, <2>3, ListenStep
    <2>. QED
      BY <1>1, <1>2, <1>3, <2>3, <2>4 DEF StepOK, HistStep, GoalInv, HistInv, LockInv
  <1>5. CASE ~(ShouldAutoResume(l.row) /\ CanLock(l.at))
    <2>1. task' = [task EXCEPT ![t] = Done] /\ UNCHANGED tableVars
      BY <1>5 DEF Recovered
    <2>. QED
      BY <1>1, <1>3, <2>1, KeepsTable, SaveAndEnd DEF GoalInv
  <1>. QED
    BY <1>4, <1>5

LEMMA HandleResumeStep ==
  ASSUME GoalInv, NEW t \in Task, NEW p \in Proc, HandleResume(t, p)
  PROVE  StepOK(t)
  <1>1. up[p] = "up" /\ UNCHANGED <<lock, inflight, wish, audited, processVars>>
    BY DEF HandleResume, Calls
  <1>2. created \in Nat
    BY CurrentGoal DEF GoalInv
  <1>3. TableInv' /\ created' = created
    <2>1. CASE Current # 0 /\ ShouldAutoResume(goals[Current])
      <3>1. Save(Reopened(goals[Current])) /\ goals[Current] \in Row
        BY <2>1, CurrentGoal DEF HandleResume, GoalInv
      <3>. QED
        BY <1>1, <2>1, <3>1, ReopenedValues, SaveStep
    <2>2. CASE Current # 0 /\ ~ShouldAutoResume(goals[Current])
      BY <1>1, <2>2, KeepsTable DEF HandleResume, GoalInv
    <2>3. CASE Current = 0
      <3>1. Imports /\ exists = {} /\ exists' = exists \cup {snap.id} /\ created' = created
            /\ last' = IF exists = {} THEN snap.id ELSE last
        BY <2>3, CurrentGoal DEF HandleResume, GoalInv
      <3>2. snap.row \in Row /\ (snap.row.status = "complete" => snap.id \in audited)
            /\ SnapOK(snap, created, audited) /\ snap.id <= created /\ snap.id \in GoalId \cup {0}
        BY DEF GoalInv, TableInv, SnapOK, Snapshot
      <3>3. CASE ShouldAutoResume(snap.row)
        <4>. DEFINE row == Capped(Reopened(snap.row))
        <4>1. goals' = [goals EXCEPT ![snap.id] = row] /\ snap' = SnapshotOf(snap.id, row)
          BY <2>3, <3>3 DEF HandleResume
        <4>2. row \in Row /\ row.status # "complete"
          BY <3>2, <3>3, ReopenedValues, CappedValues
        <4>. HIDE DEF row
        <4>3. SnapOK(SnapshotOf(snap.id, row), created, audited)
          BY <1>2, <3>2, <4>2, SnapshotValues
        <4>. QED
          BY <1>1, <3>1, <4>1, <4>2, <4>3, ImportedTable DEF GoalInv
      <3>4. CASE ~ShouldAutoResume(snap.row)
        <4>1. goals' = [goals EXCEPT ![snap.id] = snap.row] /\ snap' = snap
          BY <2>3, <3>4 DEF HandleResume
        <4>. QED
          BY <1>1, <3>1, <3>2, <4>1, ImportedTable DEF GoalInv
      <3>. QED
        BY <3>3, <3>4
    <2>. QED
      BY <2>1, <2>2, <2>3
  <1>4. TaskStep(t)
    <2>1. Listen(t, p) \/ task' = [task EXCEPT ![t] = Done]
      BY DEF HandleResume
    <2>. QED
      BY <1>1, <1>2, <1>3, <2>1, ListenStep, Finishes
  <1>. QED
    BY <1>1, <1>2, <1>3, <1>4 DEF StepOK, HistStep, LockStep, GoalInv, HistInv, LockInv

LEMMA StartServerKeeps ==
  ASSUME GoalInv, NEW t \in Task, NEW p \in Proc, StartServer(t, p), History
  PROVE  GoalInv'
  <1>1. /\ up[p] = "new" /\ up' = [up EXCEPT ![p] = "up"] /\ lock' = Held /\ task[t].pc = "new"
        /\ UNCHANGED <<created, snap, owner, inflight, wish, audited>>
    BY DEF StartServer
  <1>2. created \in Nat /\ created' = created
    BY <1>1, CurrentGoal DEF GoalInv
  <1>3. TableInv'
    <2>1. CASE Imports
      <3>1. goals' = [goals EXCEPT ![snap.id] = snap.row] /\ exists' = exists \cup {snap.id}
            /\ last' = IF exists = {} THEN snap.id ELSE last
        BY <2>1 DEF StartServer, ImportSnapshot
      <3>2. snap.row \in Row /\ (snap.row.status = "complete" => snap.id \in audited)
            /\ SnapOK(snap', created, audited)
        BY <1>1 DEF GoalInv, TableInv, SnapOK, Snapshot
      <3>. QED
        BY <1>1, <2>1, <3>1, <3>2, ImportedTable DEF GoalInv
    <2>2. CASE ~Imports
      <3>1. UNCHANGED tableVars
        BY <1>1, <2>2 DEF StartServer, ImportSnapshot, tableVars
      <3>. QED
        BY <1>1, <3>1, KeepsTable DEF GoalInv
    <2>. QED
      BY <2>1, <2>2
  <1>4. PICK l : /\ task' = [task EXCEPT ![t] = l] /\ LocalOK(l, created', audited')
                 /\ l.pc # "prompting" /\ (l.pc \notin Idle => l.at = p)
    <2>1. CASE UNCHANGED task
      <3>1. task' = [task EXCEPT ![t] = task[t]]
        BY <2>1 DEF GoalInv, TaskInv
      <3>. QED
        BY <1>1, <1>2, <3>1 DEF GoalInv, TaskInv, Idle
    <2>2. CASE ~UNCHANGED task
      <3>1. PICK g \in Recoverable : task' = [task EXCEPT ![t] =
                                       Waiting("recovering", p, g, goals'[g], "none", FALSE, 0)]
        BY <2>2 DEF StartServer
      <3>. DEFINE w == Waiting("recovering", p, g, goals'[g], "none", FALSE, 0)
      <3>2. g \in exists' /\ g \in 1..created' /\ g \in GoalId /\ goals'[g] \in Row
            /\ (goals'[g].status = "complete" => g \in audited') /\ g # 0
        BY <1>2, <1>3, GoalAssumption DEF Recoverable, TableInv, Known, Audited, GoalId
      <3>3. w \in Local /\ w.pc = "recovering" /\ w.at = p /\ w.id = g /\ w.row = goals'[g]
            /\ w.rest = 0
        BY <3>2, Names DEF Waiting, Local, Pc
      <3>0. task' = [task EXCEPT ![t] = w]
        BY <3>1
      <3>. HIDE DEF w
      <3>4. LocalOK(w, created', audited') /\ w.pc # "prompting"
        BY <1>2, <3>2, <3>3 DEF LocalOK
      <3>. QED
        BY <3>0, <3>3, <3>4
    <2>. QED
      BY <2>1, <2>2
  <1>5. TaskInv'
    <2>1. TaskInv /\ created' \in Nat /\ created <= created' /\ audited \subseteq audited'
      BY <1>1, <1>2 DEF GoalInv
    <2>2. LocalOK(l, created', audited') /\ task' = [task EXCEPT ![t] = l]
      BY <1>4
    <2>. QED
      BY <1>2, <2>1, <2>2, TaskKeeps
  <1>6. HistInv'
    BY <1>1 DEF GoalInv, HistInv, History, Robbed
  <1>7. LockStep
    BY <1>1 DEF LockStep
  <1>8. LockInv'
    BY <1>1, <1>7, LockKeeps DEF GoalInv, LockInv
  <1>9. DriveInv'
    <2>. SUFFICES ASSUME NEW u \in Task
                  PROVE  /\ task'[u].pc \notin Idle => up'[task'[u].at] = "up"
                         /\ task'[u].pc = "prompting" =>
                              lock'.owner = owner'[task'[u].at] \/ u \in lost'
      BY DEF DriveInv
    <2>1. CASE u = t
      BY <1>1, <1>4, <2>1 DEF GoalInv, TaskInv, LockInv
    <2>2. CASE u # t
      <3>1. task'[u] = task[u]
        BY <1>4, <2>2 DEF GoalInv, TaskInv
      <3>2. task[u].pc \notin Idle => up[task[u].at] = "up" /\ task[u].at \in Proc
        BY DEF GoalInv, DriveInv, TaskInv, LocalOK
      <3>3. task[u].pc = "prompting" => lock'.owner = owner'[task'[u].at] \/ u \in lost'
        BY <1>1, <1>7, <3>1, <3>2, DriveKeeps DEF GoalInv, DriveInv, Idle
      <3>. QED
        BY <1>1, <3>1, <3>2, <3>3 DEF GoalInv, LockInv
    <2>. QED
      BY <2>1, <2>2
  <1>. QED
    BY <1>3, <1>5, <1>6, <1>8, <1>9 DEF GoalInv

\* The steps of processes and of time.
LEMMA ProcessKeeps ==
  ASSUME GoalInv, History, UNCHANGED <<tableVars, wish, audited>>, LockStep,
         up' \in [Proc -> {"new", "up", "dead"}], owner' \in [Proc -> Proc],
         inflight' \subseteq inflight, DOMAIN task' = Task, task' = [u \in Task |-> task'[u]],
         \A u \in Task :
           \/ task'[u] = Done
           \/ task'[u] = task[u] /\ (task[u].pc \notin Idle =>
                /\ up'[task[u].at] = "up" /\ owner'[task[u].at] = owner[task[u].at])
  PROVE  GoalInv'
  <1>1. TableInv' /\ created' = created /\ created \in Nat
    BY KeepsTable, CurrentGoal DEF GoalInv
  <1>2. HistInv'
    BY DEF GoalInv, HistInv, History, Robbed
  <1>3. LockInv'
    BY LockKeeps DEF GoalInv, LockInv
  <1>4. LocalOK(Done, created, audited) /\ Done.pc \in Idle
    BY <1>1, LocalValues
  <1>5. TaskInv'
    <2>1. ASSUME NEW u \in Task PROVE LocalOK(task'[u], created', audited')
      BY <1>1, <1>4 DEF GoalInv, TaskInv
    <2>. QED
      BY <2>1 DEF TaskInv, LocalOK
  <1>6. DriveInv'
    <2>. SUFFICES ASSUME NEW u \in Task
                  PROVE  /\ task'[u].pc \notin Idle => up'[task'[u].at] = "up"
                         /\ task'[u].pc = "prompting" =>
                              lock'.owner = owner'[task'[u].at] \/ u \in lost'
      BY DEF DriveInv
    <2>1. CASE task'[u] = Done
      BY <1>4, <2>1 DEF Idle
    <2>2. CASE task'[u] # Done
      <3>1. task'[u] = task[u] /\ (task[u].pc \notin Idle =>
              /\ up'[task[u].at] = "up" /\ owner'[task[u].at] = owner[task[u].at])
        BY <2>2
      <3>2. task[u].pc \notin Idle => task[u].at \in Proc
        BY DEF GoalInv, TaskInv, LocalOK
      <3>3. task[u].pc = "prompting" => lock'.owner = owner'[task'[u].at] \/ u \in lost'
        BY <3>1, <3>2, DriveKeeps DEF GoalInv, DriveInv, Idle
      <3>. QED
        BY <3>1, <3>3
    <2>. QED
      BY <2>1, <2>2
  <1>. QED
    BY <1>1, <1>2, <1>3, <1>5, <1>6 DEF GoalInv

LEMMA LifecycleKeeps ==
  ASSUME GoalInv, Lifecycle, History
  PROVE  GoalInv'
  <1>0. /\ \A u \in Task : task[u].pc \notin Idle => task[u].at \in Proc /\ up[task[u].at] = "up"
        /\ DOMAIN task = Task /\ task = [u \in Task |-> task[u]]
    BY DEF GoalInv, TaskInv, LocalOK, DriveInv
  <1>1. CASE \E t \in Task, p \in Proc : StartServer(t, p)
    BY <1>1, StartServerKeeps
  <1>2. ASSUME NEW p \in Proc, StartTui(p) PROVE GoalInv'
    <2>1. /\ up[p] = "new" /\ up' = [up EXCEPT ![p] = "up"]
          /\ UNCHANGED <<tableVars, lock, inflight, task, wish, audited>>
      BY <1>2 DEF StartTui
    <2>2. owner' = owner \/ \E q \in Proc : owner' = [owner EXCEPT ![p] = owner[q]]
      BY <1>2 DEF StartTui
    <2>3. /\ up' \in [Proc -> {"new", "up", "dead"}] /\ owner' \in [Proc -> Proc]
          /\ \A q \in Proc \ {p} : up'[q] = up[q] /\ owner'[q] = owner[q]
      BY <2>1, <2>2 DEF GoalInv, LockInv
    <2>4. \A u \in Task : task[u].pc \notin Idle =>
            up'[task[u].at] = "up" /\ owner'[task[u].at] = owner[task[u].at]
      BY <1>0, <2>1, <2>3
    <2>. QED
      BY <1>0, <2>1, <2>3, <2>4, ProcessKeeps DEF LockStep
  <1>3. ASSUME NEW p \in Proc, NEW graceful \in BOOLEAN, Ends(p, graceful) PROVE GoalInv'
    <2>1. /\ up' = [up EXCEPT ![p] = "dead"] /\ inflight' \subseteq inflight
          /\ task' = [u \in Task |-> IF task[u].at = p THEN Done ELSE task[u]]
          /\ lock' \in {lock, NoLock} /\ owner' = owner
          /\ UNCHANGED <<tableVars, wish, audited>>
      BY <1>3 DEF Ends, Unlocked
    <2>2. up' \in [Proc -> {"new", "up", "dead"}] /\ owner' \in [Proc -> Proc]
          /\ \A q \in Proc \ {p} : up'[q] = up[q]
      BY <2>1 DEF GoalInv, LockInv
    <2>3. \A u \in Task :
            \/ task'[u] = Done
            \/ task'[u] = task[u] /\ (task[u].pc \notin Idle =>
                 /\ up'[task[u].at] = "up" /\ owner'[task[u].at] = owner[task[u].at])
      BY <1>0, <2>1, <2>2
    <2>4. LockStep /\ DOMAIN task' = Task /\ task' = [u \in Task |-> task'[u]]
      BY <2>1 DEF LockStep
    <2>. QED
      BY <2>1, <2>2, <2>3, <2>4, ProcessKeeps
  <1>4. CASE Tick
    <2>1. /\ lock # NoLock
          /\ lock' = [lock EXCEPT !.age = IF @ = "fresh" THEN "stale" ELSE "hard"]
          /\ UNCHANGED <<tableVars, inflight, task, wish, audited, processVars>>
      BY <1>4 DEF Tick
    <2>2. LockStep
      BY <2>1 DEF LockStep, Age
    <2>. QED
      BY <1>0, <2>1, <2>2, ProcessKeeps DEF GoalInv, LockInv, processVars
  <1>. QED
    BY <1>1, <1>2, <1>3, <1>4 DEF Lifecycle

-----------------------------------------------------------------------------
(* The theorems.                                                           *)

LEMMA CallStep ==
  ASSUME GoalInv, NEW t \in Task, NEW p \in Proc, Call(t, p)
  PROVE  StepOK(t)
  <1>0. {"none", "start"} \subseteq PromptKind /\ {"none", "continuation"} \subseteq PromptKind
    BY Names
  <1>1. CASE \E restricted \in BOOLEAN, kind \in {"none", "start"} :
               \/ \E b \in Budget : Set(t, p, restricted, b, kind)
               \/ Add(t, p, restricted, kind)
               \/ Sequence(t, p, restricted, kind)
    <2>1. PICK restricted \in BOOLEAN, kind \in PromptKind :
               \/ \E b \in Budget : Set(t, p, restricted, b, kind)
               \/ Add(t, p, restricted, kind)
               \/ Sequence(t, p, restricted, kind)
      BY <1>0, <1>1
    <2>2. CASE \E b \in Budget : Set(t, p, restricted, b, kind)
      BY <2>2, ReplaceStep DEF Set
    <2>. QED
      BY <2>1, <2>2, AddStep, SequenceStep
  <1>2. CASE \E restricted \in BOOLEAN, b \in Budget : Create(t, p, restricted, b)
    <2>1. PICK restricted \in BOOLEAN, b \in Budget : Create(t, p, restricted, b)
      BY <1>2
    <2>2. Owned(t, p, "create") /\ Replace(t, p, restricted, b, "none") /\ "none" \in PromptKind
      BY <2>1, Names DEF Create
    <2>. QED
      BY <2>2, ReplaceStep
  <1>3. CASE \E kind \in {"none", "start"} : SetSame(t, p, kind)
    BY <1>0, <1>3, FreezeSameStep
  <1>4. CASE \E kind \in {"none", "continuation"} :
               \/ \E g \in GoalId : Focus(t, p, g, kind)
               \/ Resume(t, p, kind)
               \/ Edit(t, p, kind)
    <2>1. PICK kind \in PromptKind : \/ \E g \in GoalId : Focus(t, p, g, kind)
                                     \/ Resume(t, p, kind)
                                     \/ Edit(t, p, kind)
      BY <1>0, <1>4
    <2>. QED
      BY <2>1, FocusStep, CommandSteps
  <1>5. CASE Dogfood(t, p)
    BY <1>0, <1>5, FreezeSameStep
  <1>6. CASE Pause(t, p) \/ Unmet(t, p) \/ \E b \in Budget : SetBudget(t, p, b)
    BY <1>0, <1>6, CommandSteps
  <1>7. CASE CommandRefused(t, p) \/ HandleIdle(t, p) \/ Watchdog(t, p)
    BY <1>7, QuietCalls
  <1>8. CASE NoteHumanMessage(t, p) \/ HandleInterrupt(t, p)
    BY <1>8, StoppedStep
  <1>9. CASE Clear(t, p) \/ HandleResume(t, p)
    BY <1>9, ClearStep, HandleResumeStep
  <1>10. CASE \E found \in {"proves", "tampered", "thin"} : CompleteFromModel(t, p, found)
    BY <1>10, CompleteFromModelStep
  <1>. QED
    BY <1>1, <1>2, <1>3, <1>4, <1>5, <1>6, <1>7, <1>8, <1>9, <1>10 DEF Call

LEMMA ContinuesStep ==
  ASSUME GoalInv, NEW t \in Task, Continues(t)
  PROVE  StepOK(t)
  <1>1. CASE Frozen(t) \/ Aborted(t)
    BY <1>1, FrozenStep, AbortedStep
  <1>2. CASE \E n \in 0..1, idleTurn, stalled \in BOOLEAN : PromptReturns(t, n, idleTurn, stalled)
    BY <1>2, PromptReturnsStep
  <1>3. CASE \E tooOften \in BOOLEAN : PromptFails(t, tooOften)
    BY <1>3, PromptFailsStep
  <1>4. CASE SessionBusy(t)
    <2>1. task[t].at \in Proc
      BY <1>4, CallValues DEF SessionBusy, Idle
    <2>. QED
      BY <1>4, <2>1, QuietCalls
  <1>5. CASE \E n \in 0..1, streak, loop, gated \in BOOLEAN : Account(t, n, streak, loop, gated)
    BY <1>5, AccountStep
  <1>6. CASE \E verdict \in Verdict, unusable \in BOOLEAN : Judged(t, verdict, unusable)
    BY <1>6, JudgedStep
  <1>7. CASE DecideSkip(t) \/ DecideImpossible(t) \/ DecideContinue(t)
    BY <1>7, DecideQuietSteps
  <1>8. CASE \E limited \in BOOLEAN : DecideLimit(t, limited)
    BY <1>8, DecideLimitStep
  <1>9. CASE \E found \in {"proves", "tampered", "thin"} : DecideComplete(t, found)
    BY <1>9, DecideCompleteStep
  <1>10. CASE \E host \in {"pass", "fail", "infra"} : Proved(t, host)
    BY <1>10, ProvedStep
  <1>11. CASE \E verdict \in Verdict : AuditDenied(t, verdict) \/ AuditPassed(t, verdict)
    BY <1>11, AuditDeniedStep, AuditPassedStep
  <1>12. CASE Recovered(t)
    BY <1>12, RecoveredStep
  <1>. QED
    BY <1>1, <1>2, <1>3, <1>4, <1>5, <1>6, <1>7, <1>8, <1>9, <1>10, <1>11, <1>12 DEF Continues

LEMMA InitGoalInv == Init => GoalInv
  <1>. SUFFICES ASSUME Init PROVE GoalInv
    OBVIOUS
  <1>1. TableInv
    <2>1. goals \in [GoalId -> Row] /\ Limited /\ Audited
      BY RowValues DEF Init, Limited, Audited, OverBudget
    <2>2. Known
      BY GoalAssumption DEF Init, Known
    <2>3. SnapOK(snap, created, audited)
      BY RowValues DEF Init, SnapOK, NoSnapshot, Snapshot
    <2>4. FocusInv
      BY DEF Init, FocusInv, OneFocused, Focused, Current, Newest
    <2>. QED
      BY <2>1, <2>2, <2>3, <2>4 DEF TableInv
  <1>2. HistInv /\ LockInv
    BY DEF Init, HistInv, Wishes, LockInv, NoLock, Lock, Age
  <1>3. LocalOK(New, created, audited) /\ New.pc \in Idle
    BY LocalValues DEF Init
  <1>4. TaskInv /\ DriveInv
    BY <1>3 DEF Init, TaskInv, DriveInv, LocalOK, Idle
  <1>. QED
    BY <1>1, <1>2, <1>4 DEF GoalInv

\* GoalInv is an invariant: every handler of the engine, at every await, and every
\* start and end of a process keeps what is true of rows, snapshot, lock and calls.
THEOREM GoalInvariant == Spec => []GoalInv
  <1>1. GoalInv /\ [Next]_vars => GoalInv'
    <2>. SUFFICES ASSUME GoalInv, [Next]_vars PROVE GoalInv'
      OBVIOUS
    <2>1. CASE UNCHANGED vars
      <3>1. TableInv'
        BY <2>1, KeepsTable DEF vars, tableVars, GoalInv
      <3>. QED
        BY <2>1, <3>1 DEF vars, GoalInv, HistInv, LockInv, TaskInv, LocalOK, DriveInv
    <2>2. ASSUME NEW t \in Task, NEW p \in Proc, Call(t, p), History PROVE GoalInv'
      BY <2>2, CallStep, StepKeeps
    <2>3. ASSUME NEW t \in Task, Continues(t), History PROVE GoalInv'
      BY <2>3, ContinuesStep, StepKeeps
    <2>4. CASE Lifecycle /\ History
      BY <2>4, LifecycleKeeps
    <2>. QED
      BY <2>1, <2>2, <2>3, <2>4 DEF Next
  <1>. QED
    BY <1>1, InitGoalInv, PTL DEF Spec

\* Every variable of the session keeps its type, whichever handlers interleave.
THEOREM SessionTypes == Spec => []TypeOK
  <1>1. TableInv => /\ goals \in [GoalId -> Row] /\ exists \subseteq GoalId
                    /\ last \in GoalId \cup {0} /\ created \in 0..MaxGoals
                    /\ snap \in Snapshot
    <2>1. Known => exists \subseteq GoalId
      BY GoalAssumption DEF Known, GoalId
    <2>. QED
      BY <2>1 DEF TableInv, Known, SnapOK
  <1>2. GoalInv => TypeOK
    <2>. SUFFICES ASSUME GoalInv PROVE TypeOK
      OBVIOUS
    <2>1. /\ wish \in [GoalId -> {"none", "run", "stop", "clear"}]
          /\ audited \subseteq GoalId /\ lost \subseteq Task
      BY DEF GoalInv, HistInv, Wishes
    <2>2. /\ lock \in Lock /\ inflight \subseteq Proc
          /\ up \in [Proc -> {"new", "up", "dead"}] /\ owner \in [Proc -> Proc]
      BY DEF GoalInv, LockInv
    <2>3. task \in [Task -> Local]
      BY DEF GoalInv, TaskInv
    <2>. QED
      BY <1>1, <2>1, <2>2, <2>3 DEF GoalInv, TypeOK
  <1>. QED
    BY <1>2, GoalInvariant, PTL

\* Whatever is written from stale goal objects, by promotion, recovery or import, no
\* goal is complete in the table or in the snapshot that has not passed its audit.
THEOREM OnlyAuditedComplete == Spec => []CompleteIsAudited
  <1>1. GoalInv => CompleteIsAudited
    BY GoalAssumption
       DEF GoalInv, TableInv, Known, Audited, SnapOK, CompleteIsAudited, GoalId
  <1>. QED
    BY <1>1, GoalInvariant, PTL

\* No writer leaves a goal active that has used up its token budget, unless the user
\* had cleared it.
THEOREM BudgetRespected == Spec => []ActiveWithinBudget
  <1>1. GoalInv => ActiveWithinBudget
    BY GoalAssumption DEF GoalInv, TableInv, Known, Limited, ActiveWithinBudget, GoalId
  <1>. QED
    BY <1>1, GoalInvariant, PTL

\* Whatever creates, focuses, promotes, writes or imports goals, at most one goal of
\* the session is focused that the user has not cleared.
THEOREM OneGoalFocused == Spec => []OneFocused
  <1>1. GoalInv => OneFocused
    BY DEF GoalInv, TableInv, FocusInv
  <1>. QED
    BY <1>1, GoalInvariant, PTL

\* Of two prompts of different owners one has lost the lock, by its expiry or to a
\* handler of its own owner: tryLock() itself never gives a session to two drivers.
THEOREM TwoDriversLostLock == Spec => []DriversLostLock
  <1>1. GoalInv => DriversLostLock
    BY DEF GoalInv, DriveInv, DriversLostLock
  <1>. QED
    BY <1>1, GoalInvariant, PTL

\* Recovery and takeover leave a live owner alone: the lock goes from one owner to
\* another only when its process is gone, or it is past the hard limit.
THEOREM OwnerlessTakeover == Spec => TakesOverOwnerless
  <1>. DEFINE Takes == lock.owner # 0 /\ lock'.owner \notin {0, lock.owner}
                         => up[lock.pid] # "up" \/ lock.age = "hard"
  <1>1. ASSUME GoalInv, [Next]_vars PROVE [Takes]_vars
    <2>1. CASE UNCHANGED vars
      BY <2>1
    <2>2. CASE Next
      <3>1. LockStep
        <4>1. ASSUME NEW t \in Task, NEW p \in Proc, Call(t, p) PROVE LockStep
          BY <1>1, <4>1, CallStep DEF StepOK
        <4>2. ASSUME NEW t \in Task, Continues(t) PROVE LockStep
          BY <1>1, <4>2, ContinuesStep DEF StepOK
        <4>3. CASE Lifecycle
          BY <4>3 DEF Lifecycle, StartServer, StartTui, Ends, Unlocked, Tick, LockStep, Age
        <4>. QED
          BY <2>2, <4>1, <4>2, <4>3 DEF Next
      <3>2. lock'.owner # lock.owner => lock'.owner = 0 \/ lock.owner = 0 \/ Expired
        BY <1>1, <3>1, LockMoves DEF GoalInv, NoLock
      <3>. QED
        BY <3>2 DEF Expired
    <2>. QED
      BY <1>1, <2>1, <2>2
  <1>. QED
    BY <1>1, GoalInvariant, PTL DEF Spec, TakesOverOwnerless
=============================================================================
