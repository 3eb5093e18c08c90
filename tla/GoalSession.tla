---------------------------- MODULE GoalSession ----------------------------
(***************************************************************************)
(* The goals of one OpenCode session (packages/opencode-goal): the rows of *)
(* the goal store, its session lock and its snapshot file, under the       *)
(* handlers of GoalService in one or several processes.                    *)
(*                                                                         *)
(* A task is one call of a handler; an action is the code it runs between  *)
(* two awaits.  What the model, the host checks, the contract author and   *)
(* the session answer, and when, is external.                              *)
(***************************************************************************)
EXTENDS Integers, FiniteSets

CONSTANTS
  Proc,        \* processes that load the plugin, each started once
  Tui,         \* those that are the terminal of a server process
  Task,        \* calls of handlers, each made once
  Handlers,    \* the handlers that are called
  Budget,      \* token budgets users set; 0 is none
  MaxGoals,    \* bound on the goals created
  MaxTokens,   \* bound on the tokens counted for a goal
  AutoResumeInterrupted  \* the option of that name

Handler == {"set", "setSame", "add", "sequence", "focus", "dogfood", "clear", "pause",
            "resume", "budget", "edit", "create", "unmet", "complete", "human",
            "interrupt", "idle", "watchdog", "created", "die", "close"}

ASSUME GoalAssumption ==
  /\ Tui \subseteq Proc
  /\ Handlers \subseteq Handler
  /\ Budget \subseteq Nat
  /\ MaxGoals \in Nat
  /\ MaxTokens \in Nat
  /\ AutoResumeInterrupted \in BOOLEAN
  /\ 0 \notin Proc

\* Goals are numbered in the order of created_at; 0 is no goal.
GoalId == 1..MaxGoals

VARIABLES
  goals, exists, last, created,  \* the table thread_goals, the goal written last
  snap,                          \* the snapshot file of the session
  lock,                          \* the session's row in goal_locks
  up, owner, inflight,           \* per process
  task,
  wish, audited, lost            \* history, for the properties

tableVars == <<goals, exists, last, created, snap>>
processVars == <<up, owner>>
vars == <<goals, exists, last, created, snap, lock, up, owner, inflight, task,
          wish, audited, lost>>

GoalStatus == {"active", "paused", "budget_limited", "complete", "impossible", "unmet"}
PauseReason == {"none", "user", "interrupt", "budget", "audit", "blocked", "plan",
                "no_progress", "loop", "queued"}
Verdict == {"none", "met", "not_met", "impossible"}
PromptKind == {"none", "start", "continuation", "budget_limit"}
Row == [status : GoalStatus, reason : PauseReason, tokens : 0..MaxTokens,
        budget : Nat, verdict : Verdict, kind : PromptKind, suppressed : BOOLEAN,
        wrapup : BOOLEAN, focused : BOOLEAN, auto : BOOLEAN]
Snapshot == [id : GoalId \cup {0}, row : Row]
Age == {"fresh", "stale", "hard"}
Lock == [owner : Proc \cup {0}, pid : Proc \cup {0}, age : Age]

\* createGoal() and defaultGoalFields().
NewRow == [status |-> "active", reason |-> "none", tokens |-> 0, budget |-> 0,
           verdict |-> "none", kind |-> "none", suppressed |-> FALSE,
           wrapup |-> FALSE, focused |-> TRUE, auto |-> FALSE]
\* In a restricted (plan) agent a goal is created paused.
NewGoal(restricted) ==
  IF restricted THEN [NewRow EXCEPT !.status = "paused", !.reason = "plan"] ELSE NewRow
\* Mutant: a queued goal gets a status of its own.
MutQueued == [NewRow EXCEPT !.status = "queued", !.focused = FALSE, !.auto = TRUE]

Queued == [NewRow EXCEPT !.status = "paused", !.reason = "queued",
                         !.focused = FALSE, !.auto = TRUE]

NoSnapshot == [id |-> 0, row |-> NewRow]
NoLock == [owner |-> 0, pid |-> 0, age |-> "fresh"]

\* A task waits at pc in process at.  id and row are the goal object it has read,
\* kind the prompt it sends or is about to send, ok what it carries over an await,
\* rest the goals of a sequence it has still to freeze.
Pc == {"new", "freezing", "aborting", "prompting", "listening", "judging", "deciding",
       "proving", "auditing", "recovering", "refused", "done"}
Waiting(pc, p, g, row, kind, ok, rest) ==
  [pc |-> pc, at |-> p, id |-> g, row |-> row, kind |-> kind, ok |-> ok, rest |-> rest]
New == Waiting("new", 0, 0, NewRow, "none", FALSE, 0)
Done == Waiting("done", 0, 0, NewRow, "none", FALSE, 0)
Refused == Waiting("refused", 0, 0, NewRow, "none", FALSE, 0)
Local == [pc : Pc, at : Proc \cup {0}, id : GoalId \cup {0}, row : Row,
          kind : PromptKind, ok : BOOLEAN, rest : 0..1]

Init ==
  /\ goals = [g \in GoalId |-> NewRow]
  /\ exists = {} /\ last = 0 /\ created = 0
  /\ snap = NoSnapshot /\ lock = NoLock
  /\ up = [p \in Proc |-> "new"]
  /\ owner = [p \in Proc |-> p]
  /\ inflight = {}
  /\ task = [t \in Task |-> New]
  /\ wish = [g \in GoalId |-> "none"] /\ audited = {} /\ lost = {}

-----------------------------------------------------------------------------
(* The store.                                                              *)

Focused == {g \in exists : goals[g].focused}

\* get(): the focused row, else the row written last.
Newest == {g \in Focused : \A h \in Focused : h <= g}
Current == IF Newest = {} \/ last \in Focused THEN last ELSE CHOOSE g \in Newest : TRUE

OverBudget(row) == row.budget # 0 /\ row.tokens >= row.budget

\* Mutant: update() does not look at the budget.
MutCapped(row) == row

\* update() turns an active goal that has used its budget into a limited one.
Capped(row) ==
  IF row.status = "active" /\ OverBudget(row)
    THEN [row EXCEPT !.status = "budget_limited", !.reason = "budget"] ELSE row

\* snapshotFromGoal() followed by goalFromSnapshot().
SnapshotOf(g, row) ==
  [id |-> g, row |-> [row EXCEPT !.kind = "none", !.suppressed = FALSE,
                                 !.wrapup = FALSE, !.focused = TRUE, !.auto = FALSE]]

\* update() of the current goal, and the persist() of the result that follows it;
\* before is the snapshot to keep when the goal is not focused.
SaveOver(before, row) ==
  /\ goals' = [goals EXCEPT ![Current] = Capped(row)]
  /\ last' = Current
  /\ snap' = IF row.focused THEN SnapshotOf(Current, Capped(row)) ELSE before
  /\ UNCHANGED <<exists, created>>
Save(row) == SaveOver(snap, row)

\* persist() of a goal object that was read before an await; then, if it is
\* steered, takeOver() lifts the suppression of the current goal.
Lifted(row) == [row EXCEPT !.suppressed = FALSE]
PersistAnd(g, row, steered) ==
  LET written == IF row.focused THEN SnapshotOf(g, row) ELSE snap IN
  IF g = Current THEN Save(IF steered THEN Lifted(row) ELSE row)
  ELSE IF steered /\ Current # 0 THEN SaveOver(written, Lifted(goals[Current]))
  ELSE snap' = written /\ UNCHANGED <<goals, exists, last, created>>
Persist(g, row) == PersistAnd(g, row, FALSE)

\* Mutant: createGoal() leaves the other goals focused.
MutUnfocused == goals

\* Rows of the table once nothing is focused.
Unfocused == [g \in GoalId |-> [goals[g] EXCEPT !.focused = FALSE]]

\* Mutant: expireStaleLocks() does not look whether the process lives.
MutExpired == lock.age # "fresh"

\* expireStaleLocks(): a lock is dropped at the hard limit, or when it is stale and
\* its process is gone.
Expired ==
  lock.age = "hard" \/ (lock.age = "stale" /\ lock.pid # 0 /\ up[lock.pid] # "up")
Held == IF Expired THEN NoLock ELSE lock

\* Mutant: tryLock() does not compare owners.
MutCanLock(p) == TRUE

\* tryLock(), and the row it leaves behind.
CanLock(p) == Held.owner \in {0, owner[p]}
Locked(p) == [owner |-> owner[p], pid |-> IF Held.owner = 0 THEN p ELSE Held.pid,
              age |-> "fresh"]
TryLock(p) == IF CanLock(p) THEN Locked(p) ELSE lock

ForeignOwnerLive(p) ==
  /\ lock.owner \notin {0, owner[p]}
  /\ lock.age = "fresh" \/ (lock.age = "stale" /\ up[lock.pid] = "up")

Unlocked(p) == IF lock.owner = owner[p] THEN NoLock ELSE lock

\* Prompts that lose the lock of their process in this step because their own owner
\* releases it, or because it has expired.
Robbed ==
  {t \in Task : /\ task[t].pc = "prompting" /\ task'[t].pc = "prompting"
                /\ lock.owner = owner[task[t].at] /\ lock'.owner # lock.owner
                /\ \/ lock' = NoLock
                   \/ lock.age = "hard"
                   \/ lock.age = "stale" /\ up[lock.pid] # "up"}
History == lost' = lost \cup Robbed

-----------------------------------------------------------------------------
(* Prompting.                                                              *)

\* The head of prompt(): it gives up without the lock.
Prompt(t, p, g, kind) ==
  /\ lock' = TryLock(p)
  /\ IF CanLock(p)
       THEN /\ inflight' = inflight \cup {p}
            /\ task' = [task EXCEPT ![t] = Waiting("prompting", p, g, NewRow, kind, FALSE, 0)]
       ELSE /\ task' = [task EXCEPT ![t] = Done]
            /\ UNCHANGED inflight

\* The finally block of prompt().
PromptEnds(t) ==
  LET p == task[t].at IN
  /\ task[t].pc = "prompting"
  /\ task' = [task EXCEPT ![t] = Done]
  /\ lock' = Unlocked(p)
  /\ inflight' = inflight \ {p}
  /\ UNCHANGED <<wish, audited, processVars>>

\* account(): only a goal that is running is charged.
Charged(g, row, n) ==
  IF g = Current /\ row.status \in {"active", "budget_limited"}
    THEN Capped([row EXCEPT !.tokens = @ + n]) ELSE row

\* The prompt was answered.  Its result goes to the goal that is current by now.
PromptReturns(t, n, idleTurn, stalled) ==
  LET row == Charged(task[t].id, goals[Current], n)
      kind == task[t].kind IN
  /\ PromptEnds(t)
  /\ idleTurn \/ stalled => kind = "continuation"
  /\ IF Current = 0 THEN UNCHANGED tableVars
     ELSE /\ row.tokens <= MaxTokens
          /\ Save([row EXCEPT !.kind = kind, !.suppressed = idleTurn,
                              !.status = IF stalled THEN "paused" ELSE @,
                              !.reason = IF stalled THEN "no_progress" ELSE @])

\* The prompt failed; after maxPromptFailures in a row the goal is paused.
PromptFails(t, tooOften) ==
  /\ PromptEnds(t)
  /\ IF tooOften /\ Current # 0 /\ Current = task[t].id
       THEN Save([goals[Current] EXCEPT !.status = "paused", !.reason = "blocked"])
       ELSE UNCHANGED tableVars

\* takeOver() has aborted the running turn: send the prompt.  set on an unchanged
\* objective and sequence prompt the goal that is current by now (ok).
Aborted(t) ==
  LET g == IF task[t].ok /\ Current # 0 THEN Current ELSE task[t].id IN
  /\ task[t].pc = "aborting"
  /\ Prompt(t, task[t].at, g, task[t].kind)
  /\ UNCHANGED <<tableVars, wish, audited, processVars>>

-----------------------------------------------------------------------------
(* Commands of the user.  They need the lock.                              *)

Calls(t, p, h) == task[t].pc = "new" /\ up[p] = "up" /\ h \in Handlers

\* ensureOwned() throws session_owned_elsewhere.
Owned(t, p, h) == Calls(t, p, h) /\ CanLock(p) /\ lock' = Locked(p)

CommandRefused(t, p) ==
  /\ \E h \in Handlers \ {"human", "interrupt", "idle", "watchdog", "created", "die", "close"} :
       Calls(t, p, h)
  /\ ~CanLock(p)
  /\ task' = [task EXCEPT ![t] = Refused]
  /\ UNCHANGED <<tableVars, lock, inflight, wish, audited, processVars>>

\* Where a command goes when it is through: to takeOver() and a prompt, or back.
Then(t, p, g, kind, ok) ==
  task' = [task EXCEPT ![t] = IF kind = "none" THEN Done
                              ELSE Waiting("aborting", p, g, NewRow, kind, ok, 0)]
Steered(row, kind) == IF kind = "none" THEN row ELSE Lifted(row)

\* createGoal(): the new goal is focused.  table is what is left of the others.
Insert(table, left, row) ==
  /\ created < MaxGoals
  /\ created' = created + 1
  /\ exists' = left \cup {created + 1}
  /\ goals' = [table EXCEPT ![created + 1] = row]

Freezes(t, p, g, row, kind, ok, rest) ==
  task' = [task EXCEPT ![t] = Waiting("freezing", p, g, row, kind, ok, rest)]

\* set: replace() deletes the focused goal.
Replace(t, p, restricted, budget, kind) ==
  LET row == [NewGoal(restricted) EXCEPT !.budget = budget] IN
  /\ Insert([g \in GoalId |-> IF g \in Focused THEN NewRow ELSE goals[g]],
            exists \ Focused, row)
  /\ last' = created + 1
  /\ snap' = SnapshotOf(created + 1, row)
  /\ Freezes(t, p, created + 1, row, kind, FALSE, 0)
  /\ wish' = [g \in GoalId |-> IF g \in Focused THEN "clear"
                              ELSE IF g = created + 1 THEN "run" ELSE wish[g]]
  /\ UNCHANGED <<inflight, audited, processVars>>

Set(t, p, restricted, budget, kind) ==
  Owned(t, p, "set") /\ Replace(t, p, restricted, budget, kind)

\* createFromModel(): only on a session without goals, and without a prompt.
Create(t, p, restricted, budget) ==
  /\ exists = {}
  /\ Owned(t, p, "create")
  /\ Replace(t, p, restricted, budget, "none")

\* set with the objective of the current goal; the prompt does not ask its status.
SetSame(t, p, kind) ==
  /\ Current # 0
  /\ Owned(t, p, "setSame")
  /\ Save(goals[Current])
  /\ Freezes(t, p, Current, Capped(goals[Current]), kind, TRUE, 0)
  /\ wish' = [wish EXCEPT ![Current] = "run"]
  /\ UNCHANGED <<inflight, audited, processVars>>

\* add: the current goal goes to the background.
Add(t, p, restricted, kind) ==
  LET prev == Current
      row == NewGoal(restricted)
      rest == IF prev # 0 /\ goals[prev].status = "active"
                THEN [Unfocused EXCEPT ![prev].status = "paused", ![prev].reason = "none",
                                       ![prev].suppressed = FALSE]
                ELSE Unfocused IN
  /\ Owned(t, p, "add")
  /\ Insert(rest, exists, row)
  /\ last' = created + 1
  /\ snap' = SnapshotOf(created + 1, row)
  /\ Freezes(t, p, created + 1, row, kind, FALSE, 0)
  /\ wish' = [wish EXCEPT ![created + 1] = "run"]
  /\ UNCHANGED <<inflight, audited, processVars>>

\* sequence of two objectives: the first is focused, the second queued.
Sequence(t, p, restricted, kind) ==
  LET g == created + 1
      row == [NewGoal(restricted) EXCEPT !.auto = TRUE] IN
  /\ g + 1 <= MaxGoals
  /\ Owned(t, p, "sequence")
  /\ created' = g + 1
  /\ exists' = exists \cup {g, g + 1}
  /\ goals' = [Unfocused EXCEPT ![g] = row, ![g + 1] = Queued]
  /\ last' = g + 1
  /\ Freezes(t, p, g, row, kind, TRUE, 1)
  /\ wish' = [wish EXCEPT ![g] = "run", ![g + 1] = "run"]
  /\ UNCHANGED <<snap, inflight, audited, processVars>>

\* freezeGoalContract() has its contract and persists the goal it was given.  A
\* sequence is prompted when its first goal was created active.
Frozen(t) ==
  LET l == task[t]
      kind == IF l.rest = 0 /\ ~ForeignOwnerLive(l.at) /\ (l.ok \/ l.row.status = "active")
                THEN l.kind ELSE "none" IN
  /\ l.pc = "freezing"
  /\ PersistAnd(l.id, l.row, kind # "none")
  /\ IF l.rest = 1
       THEN Freezes(t, l.at, l.id + 1, Queued,
                    IF l.row.status = "active" THEN l.kind ELSE "none", TRUE, 0)
       ELSE Then(t, l.at, l.id, kind, l.ok)
  /\ UNCHANGED <<lock, inflight, wish, audited, processVars>>

\* dogfood on: freezes the contract again.
Dogfood(t, p) ==
  /\ Current # 0
  /\ Owned(t, p, "dogfood")
  /\ Save(goals[Current])
  /\ Freezes(t, p, Current, Capped(goals[Current]), "none", FALSE, 0)
  /\ UNCHANGED <<inflight, wish, audited, processVars>>

Activated(row) ==
  [row EXCEPT !.status = "active", !.reason = "none", !.suppressed = FALSE]

\* focus: a backgrounded or queued goal is activated as well.
Focus(t, p, g, kind) ==
  LET row == [goals[g] EXCEPT !.focused = TRUE]
      kept == Capped(IF row.reason \in {"queued", "none"}
                        /\ row.status \in {"paused", "budget_limited"}
                       THEN Activated(row) ELSE row)
      next == IF kept.status = "active" THEN Steered(kept, kind) ELSE kept IN
  /\ g \in exists
  /\ Owned(t, p, "focus")
  /\ goals' = [Unfocused EXCEPT ![g] = next]
  /\ last' = g
  /\ snap' = SnapshotOf(g, next)
  /\ Then(t, p, g, IF next.status = "active" THEN kind ELSE "none", FALSE)
  /\ wish' = [wish EXCEPT ![g] = IF next.status = "active" THEN "run" ELSE @]
  /\ UNCHANGED <<exists, created, inflight, audited, processVars>>

Clear(t, p) ==
  /\ Calls(t, p, "clear") /\ CanLock(p)
  /\ goals' = [g \in GoalId |-> NewRow]
  /\ exists' = {} /\ last' = 0 /\ snap' = NoSnapshot
  /\ lock' = NoLock
  /\ task' = [task EXCEPT ![t] = Done]
  /\ wish' = [g \in GoalId |-> IF g \in exists THEN "clear" ELSE wish[g]]
  /\ UNCHANGED <<created, inflight, audited, processVars>>

\* A command that writes the current goal, and may go on to prompt it.
Command(t, p, h, row, kind, w) ==
  /\ Current # 0
  /\ Owned(t, p, h)
  /\ Save(Steered(row, kind))
  /\ Then(t, p, Current, kind, FALSE)
  /\ wish' = [wish EXCEPT ![Current] = w]
  /\ UNCHANGED <<inflight, audited, processVars>>

Pause(t, p) ==
  Command(t, p, "pause",
          Lifted([goals[Current] EXCEPT !.status = "paused", !.reason = "user"]),
          "none", "stop")

Resume(t, p, kind) ==
  /\ Current # 0 /\ goals[Current].status \notin {"complete", "impossible"}
  /\ Command(t, p, "resume", Activated(goals[Current]), kind, "run")

SetBudget(t, p, b) ==
  Command(t, p, "budget", [goals[Current] EXCEPT !.budget = b], "none", wish[Current])

Edit(t, p, kind) ==
  Command(t, p, "edit", goals[Current], kind, IF kind = "none" THEN wish[Current] ELSE "run")

Running == Current # 0 /\ goals[Current].status \in {"active", "budget_limited"}

\* markUnmet(), called by the model.
Unmet(t, p) ==
  /\ Running
  /\ Command(t, p, "unmet", [goals[Current] EXCEPT !.status = "unmet", !.suppressed = TRUE],
             "none", wish[Current])

-----------------------------------------------------------------------------
(* What happens to the session.                                            *)

\* noteHumanMessage() and handleInterrupt() pause a goal that is active.
Stopped(t, p, h, reason) ==
  /\ Calls(t, p, h)
  /\ ~ForeignOwnerLive(p)
  /\ Current # 0 /\ goals[Current].status = "active"
  /\ Save([goals[Current] EXCEPT !.status = "paused", !.reason = reason,
                                 !.suppressed = @ /\ reason # "user"])
  /\ task' = [task EXCEPT ![t] = Done]
  /\ wish' = [wish EXCEPT ![Current] = IF reason = "user" THEN "stop" ELSE @]
  /\ UNCHANGED <<lock, inflight, audited, processVars>>

NoteHumanMessage(t, p) == Stopped(t, p, "human", "user")
HandleInterrupt(t, p) == Stopped(t, p, "interrupt", "interrupt")

\* handleIdle() asks for the session, its children and its messages.
Listen(t, p) ==
  task' = [task EXCEPT ![t] = IF ForeignOwnerLive(p) THEN Done
                              ELSE Waiting("listening", p, 0, NewRow, "none", FALSE, 0)]

HandleIdle(t, p) ==
  /\ Calls(t, p, "idle")
  /\ ~ForeignOwnerLive(p)
  /\ Listen(t, p)
  /\ UNCHANGED <<tableVars, lock, inflight, wish, audited, processVars>>

\* The watchdog has found the session not busy.
Watchdog(t, p) ==
  /\ Calls(t, p, "watchdog")
  /\ task' = [task EXCEPT ![t] = Waiting("deciding", p, 0, NewRow, "none", FALSE, 0)]
  /\ UNCHANGED <<tableVars, lock, inflight, wish, audited, processVars>>

\* accountLatestTurn(), and refreshVerdict() up to the judge.  The goal may be gone,
\* the gate of the judge closed.
Account(t, n, streak, loop, gated) ==
  LET l == task[t]
      row == Charged(Current, goals[Current], n)
      turn == Current # 0 /\ goals[Current].kind = "continuation"
      next == IF ~turn THEN row
              ELSE IF loop THEN Capped([row EXCEPT !.status = "paused", !.reason = "loop"])
              ELSE Capped([row EXCEPT !.suppressed = streak]) IN
  /\ l.pc = "listening"
  /\ streak \/ loop => turn
  /\ ~(streak /\ loop)
  /\ IF Current = 0
       THEN n = 0 /\ ~turn /\ UNCHANGED tableVars
       ELSE /\ next.tokens <= MaxTokens
            /\ goals' = [goals EXCEPT ![Current] = next]
            /\ last' = Current
            /\ snap' = IF turn /\ next.focused THEN SnapshotOf(Current, next) ELSE snap
            /\ UNCHANGED <<exists, created>>
  /\ task' = [task EXCEPT ![t] =
       IF Current # 0 /\ next.status = "active" /\ ~gated
         THEN Waiting("judging", l.at, Current, NewRow, "none", FALSE, 0)
         ELSE Waiting("deciding", l.at, 0, NewRow, "none", FALSE, 0)]
  /\ UNCHANGED <<lock, inflight, wish, audited, processVars>>

\* handleIdle() stops early on a busy session.
SessionBusy(t) ==
  /\ task[t].pc = "listening"
  /\ task' = [task EXCEPT ![t] = Done]
  /\ UNCHANGED <<tableVars, lock, inflight, wish, audited, processVars>>

\* The judge of refreshVerdict() has answered; the third unusable answer in a row
\* pauses the goal.  A goal that is not current any more makes it throw.
Judged(t, verdict, unusable) ==
  LET l == task[t]
      row == goals[Current] IN
  /\ l.pc = "judging"
  /\ unusable => verdict = "not_met"
  /\ IF verdict # "none" /\ Current # l.id
       THEN /\ task' = [task EXCEPT ![t] = Done]
            /\ UNCHANGED tableVars
       ELSE /\ task' = [task EXCEPT ![t] = Waiting("deciding", l.at, 0, NewRow, "none", FALSE, 0)]
            /\ IF verdict = "none" THEN UNCHANGED tableVars
               ELSE IF unusable
                 THEN Save([row EXCEPT !.status = "paused", !.reason = "audit"])
                 ELSE Save([row EXCEPT !.verdict = verdict])
  /\ UNCHANGED <<lock, inflight, wish, audited, processVars>>

-----------------------------------------------------------------------------
(* maybeContinue().                                                        *)

\* markImpossible().
Hopeless(row) == [row EXCEPT !.status = "impossible", !.verdict = "impossible",
                             !.suppressed = TRUE]

Deciding(t) ==
  /\ task[t].pc = "deciding"
  /\ UNCHANGED <<wish, audited, processVars>>
\* None of the reasons to skip that lie outside the goal holds.
Free(p) == p \notin inflight /\ ~ForeignOwnerLive(p)
\* The goal may be continued at all.
Continuable ==
  /\ Current # 0
  /\ goals[Current].status = "active" /\ ~goals[Current].suppressed
\* wrapupNeeded() by tokens at a ratio of 0.8, or hardLimitReached().
TokenLimit(row) ==
  /\ row.budget # 0
  /\ \/ ~row.wrapup /\ row.kind # "budget_limit" /\ row.tokens >= (4 * row.budget) \div 5
     \/ row.tokens >= row.budget

\* Skipped: a prompt is in flight, another process owns the session, the session is
\* busy, in plan mode, cooling down and so on, or the goal is not to be continued.
DecideSkip(t) ==
  LET p == task[t].at IN
  /\ Deciding(t)
  /\ lock' = IF Free(p) /\ Running THEN TryLock(p) ELSE lock
  /\ task' = [task EXCEPT ![t] = Done]
  /\ UNCHANGED <<tableVars, inflight>>

\* The judge has called the goal impossible.
DecideImpossible(t) ==
  LET p == task[t].at IN
  /\ Deciding(t) /\ Free(p) /\ Continuable
  /\ goals[Current].verdict = "impossible"
  /\ Save(Hopeless(goals[Current]))
  /\ lock' = TryLock(p)
  /\ task' = [task EXCEPT ![t] = Done]
  /\ UNCHANGED inflight

\* A limit is reached: tokens, or turns or time (limited), which are not counted here.
DecideLimit(t, limited) ==
  LET p == task[t].at
      row == goals[Current] IN
  /\ Deciding(t) /\ Free(p) /\ Running
  /\ row.kind # "budget_limit"
  /\ \/ row.status = "budget_limited"
     \/ /\ Continuable /\ row.verdict \notin {"impossible", "met"}
        /\ limited \/ TokenLimit(row)
  /\ Save([row EXCEPT !.wrapup = TRUE, !.status = "budget_limited", !.reason = "budget"])
  /\ Prompt(t, p, Current, "budget_limit")

DecideContinue(t) ==
  LET p == task[t].at IN
  /\ Deciding(t) /\ Free(p) /\ Continuable
  /\ goals[Current].verdict \notin {"impossible", "met"}
  /\ ~TokenLimit(goals[Current])
  /\ Prompt(t, p, Current, "continuation")
  /\ UNCHANGED tableVars

\* The judge has called the goal met: completeFromModel(), see below.
DecideComplete(t, found) ==
  LET p == task[t].at IN
  /\ Deciding(t) /\ Free(p) /\ Continuable
  /\ goals[Current].verdict = "met"
  /\ CanLock(p)
  /\ \/ /\ found = "proves"
        /\ lock' = Locked(p)
        /\ task' = [task EXCEPT ![t] =
             Waiting("proving", p, Current, goals[Current], "continuation", FALSE, 0)]
        /\ UNCHANGED <<tableVars, inflight>>
     \/ /\ found = "tampered"
        /\ Save([goals[Current] EXCEPT !.status = "paused", !.reason = "audit"])
        /\ Prompt(t, p, Current, "continuation")
     \/ /\ found = "thin"
        /\ Save(Lifted(goals[Current]))
        /\ Prompt(t, p, Current, "continuation")

-----------------------------------------------------------------------------
(* completeFromModel().                                                    *)

\* The model claims completion: the contract was tampered with, or the claim is too
\* thin, or it has to be proved.
CompleteFromModel(t, p, found) ==
  /\ Running
  /\ Owned(t, p, "complete")
  /\ \/ /\ found = "proves"
        /\ task' = [task EXCEPT ![t] =
             Waiting("proving", p, Current, goals[Current], "none", FALSE, 0)]
        /\ UNCHANGED tableVars
     \/ /\ found = "tampered"
        /\ Save([goals[Current] EXCEPT !.status = "paused", !.reason = "audit"])
        /\ task' = [task EXCEPT ![t] = Done]
     \/ /\ found = "thin"
        /\ Save(Lifted(goals[Current]))
        /\ task' = [task EXCEPT ![t] = Done]
  /\ UNCHANGED <<inflight, wish, audited, processVars>>

\* proveHost() has run the contract or the checks.
Proved(t, host) ==
  LET l == task[t] IN
  /\ l.pc = "proving"
  /\ IF host = "infra"
       THEN Persist(l.id, [l.row EXCEPT !.status = "paused", !.reason = "blocked"])
       ELSE UNCHANGED tableVars
  /\ task' = [task EXCEPT ![t] =
       Waiting("auditing", l.at, l.id, l.row, l.kind, host = "pass", 0)]
  /\ UNCHANGED <<lock, inflight, wish, audited, processVars>>

\* Mutant: host proof alone completes a goal.
MutApproved(t, verdict) == task[t].ok /\ verdict # "impossible"

Approved(t, verdict) == task[t].ok /\ verdict = "met"

\* The judge does not confirm; handleIdle() goes on with a prompt.
AuditDenied(t, verdict) ==
  LET l == task[t]
      row == goals[Current] IN
  /\ l.pc = "auditing"
  /\ ~Approved(t, verdict)
  /\ IF Current # l.id
       THEN /\ task' = [task EXCEPT ![t] = Done]
            /\ UNCHANGED <<tableVars, lock, inflight>>
       ELSE /\ IF verdict = "impossible" THEN Save(Hopeless(row))
               ELSE Save([Lifted(row) EXCEPT
                            !.verdict = IF verdict = "none" THEN l.row.verdict ELSE verdict])
            /\ IF l.kind = "none"
                 THEN /\ task' = [task EXCEPT ![t] = Done]
                      /\ UNCHANGED <<lock, inflight>>
                 ELSE Prompt(t, l.at, Current, l.kind)
  /\ UNCHANGED <<wish, audited, processVars>>

NextQueued == {g \in exists : goals[g].auto /\ goals[g].status = "paused"
                                /\ goals[g].reason = "queued"}

\* The goal is complete; promoteNext() starts the next goal of the sequence.
AuditPassed(t, verdict) ==
  LET l == task[t]
      whole == [goals[Current] EXCEPT !.status = "complete", !.suppressed = TRUE,
                                      !.verdict = "met"]
      queue == NextQueued \ {l.id} IN
  /\ l.pc = "auditing"
  /\ Approved(t, verdict)
  /\ IF Current # l.id
       THEN /\ task' = [task EXCEPT ![t] = Done]
            /\ UNCHANGED <<tableVars, lock, inflight, audited>>
       ELSE /\ audited' = IF l.ok /\ verdict = "met" THEN audited \cup {l.id} ELSE audited
            /\ IF queue = {}
                 THEN /\ Save(whole)
                      /\ task' = [task EXCEPT ![t] = Done]
                      /\ UNCHANGED <<lock, inflight>>
                 ELSE LET g == CHOOSE q \in queue : \A h \in queue : q <= h
                          row == Capped(Activated([goals[g] EXCEPT !.focused = TRUE])) IN
                      /\ goals' = [Unfocused EXCEPT ![l.id] = [whole EXCEPT !.focused = FALSE],
                                                    ![g] = row]
                      /\ last' = g
                      /\ snap' = SnapshotOf(g, row)
                      /\ Prompt(t, l.at, g, "start")
                      /\ UNCHANGED <<exists, created>>
  /\ UNCHANGED <<wish, processVars>>

-----------------------------------------------------------------------------
(* Processes: start, recovery, end.                                        *)

ShouldAutoResume(row) ==
  \/ row.status \in {"active", "budget_limited"}
  \/ row.status = "paused" /\ row.reason = "interrupt" /\ AutoResumeInterrupted

\* The goal object that reopen() persists.
Reopened(row) ==
  IF row.status = "budget_limited" THEN [row EXCEPT !.reason = "budget", !.suppressed = FALSE]
  ELSE Activated(row)

\* importMissing() of the snapshot, when its goal is not in the table.
Imports == snap.id # 0 /\ snap.id \notin exists
ImportSnapshot ==
  IF Imports
    THEN /\ exists' = exists \cup {snap.id}
         /\ goals' = [goals EXCEPT ![snap.id] = snap.row]
         /\ last' = IF exists = {} THEN snap.id ELSE last
    ELSE UNCHANGED <<exists, goals, last>>

\* listContinuable(), after the import.
Recoverable ==
  {g \in exists' : goals'[g].focused
                     /\ \/ goals'[g].status \in {"active", "budget_limited"}
                        \/ goals'[g].status = "paused" /\ goals'[g].reason = "interrupt"}

\* A server starts and recovers its goals: recoverActive() up to its first await.
StartServer(t, p) ==
  /\ task[t].pc = "new" /\ up[p] = "new" /\ p \notin Tui
  /\ up' = [up EXCEPT ![p] = "up"]
  /\ lock' = Held
  /\ ImportSnapshot
  /\ \/ /\ Recoverable = {}
        /\ UNCHANGED task
     \/ \E g \in Recoverable :
          task' = [task EXCEPT ![t] =
                     Waiting("recovering", p, g, goals'[g], "none", FALSE, 0)]
  /\ UNCHANGED <<created, snap, owner, inflight, wish, audited>>

\* The terminal adopts the owner of a server that runs.
StartTui(p) ==
  /\ up[p] = "new" /\ p \in Tui
  /\ up' = [up EXCEPT ![p] = "up"]
  /\ \/ \E q \in Proc \ Tui : up[q] = "up" /\ owner' = [owner EXCEPT ![p] = owner[q]]
     \/ (\A q \in Proc \ Tui : up[q] # "up") /\ UNCHANGED owner
  /\ UNCHANGED <<tableVars, lock, inflight, task, wish, audited>>

\* recoverActive() reaches the goal in its list, after other sessions' goals.
Recovered(t) ==
  LET l == task[t] IN
  /\ l.pc = "recovering"
  /\ lock' = IF ShouldAutoResume(l.row) THEN TryLock(l.at) ELSE lock
  /\ IF ShouldAutoResume(l.row) /\ CanLock(l.at)
       THEN Persist(l.id, Reopened(l.row)) /\ Listen(t, l.at)
       ELSE task' = [task EXCEPT ![t] = Done] /\ UNCHANGED tableVars
  /\ UNCHANGED <<inflight, wish, audited, processVars>>

\* handleResume(), when OpenCode opens the session.
HandleResume(t, p) ==
  /\ Calls(t, p, "created")
  /\ ~ForeignOwnerLive(p)
  /\ \/ /\ Current # 0
        /\ IF ShouldAutoResume(goals[Current])
             THEN Save(Reopened(goals[Current])) /\ Listen(t, p)
             ELSE task' = [task EXCEPT ![t] = Done] /\ UNCHANGED tableVars
     \/ /\ Current = 0 /\ Imports
        /\ exists' = {snap.id} /\ last' = snap.id
        /\ IF ShouldAutoResume(snap.row)
             THEN /\ goals' = [goals EXCEPT ![snap.id] = Capped(Reopened(snap.row))]
                  /\ snap' = SnapshotOf(snap.id, Capped(Reopened(snap.row)))
                  /\ Listen(t, p)
             ELSE /\ goals' = [goals EXCEPT ![snap.id] = snap.row]
                  /\ task' = [task EXCEPT ![t] = Done]
                  /\ UNCHANGED snap
        /\ UNCHANGED created
  /\ UNCHANGED <<lock, inflight, wish, audited, processVars>>

\* The process ends; close() releases the locks of its owner, a crash does not.
Ends(p, graceful) ==
  /\ up[p] = "up"
  /\ IF graceful THEN "close" \in Handlers ELSE "die" \in Handlers
  /\ up' = [up EXCEPT ![p] = "dead"]
  /\ inflight' = inflight \ {p}
  /\ task' = [t \in Task |-> IF task[t].at = p THEN Done ELSE task[t]]
  /\ lock' = IF graceful THEN Unlocked(p) ELSE lock
  /\ UNCHANGED <<tableVars, owner, wish, audited>>

\* 90 seconds without a touch, then ten minutes.
Tick ==
  /\ lock # NoLock
  /\ lock.age # "hard"
  /\ lock' = [lock EXCEPT !.age = IF @ = "fresh" THEN "stale" ELSE "hard"]
  /\ UNCHANGED <<tableVars, inflight, task, wish, audited, processVars>>

-----------------------------------------------------------------------------
\* A call of process p, by the user, the model or the host.
Call(t, p) ==
  /\ task[t].pc = "new" /\ up[p] = "up"
  /\ \/ CommandRefused(t, p)
     \/ \E restricted \in BOOLEAN, kind \in {"none", "start"} :
          \/ \E b \in Budget : Set(t, p, restricted, b, kind)
          \/ Add(t, p, restricted, kind)
          \/ Sequence(t, p, restricted, kind)
     \/ \E restricted \in BOOLEAN, b \in Budget : Create(t, p, restricted, b)
     \/ \E kind \in {"none", "start"} : SetSame(t, p, kind)
     \/ \E kind \in {"none", "continuation"} :
          \/ \E g \in GoalId : Focus(t, p, g, kind)
          \/ Resume(t, p, kind)
          \/ Edit(t, p, kind)
     \/ Dogfood(t, p)
     \/ Clear(t, p)
     \/ Pause(t, p)
     \/ \E b \in Budget : SetBudget(t, p, b)
     \/ Unmet(t, p)
     \/ NoteHumanMessage(t, p)
     \/ HandleInterrupt(t, p)
     \/ HandleIdle(t, p)
     \/ Watchdog(t, p)
     \/ HandleResume(t, p)
     \/ \E found \in {"proves", "tampered", "thin"} : CompleteFromModel(t, p, found)

\* A call goes on after an await.
Continues(t) ==
  /\ task[t].pc \notin {"new", "done", "refused"}
  /\ \/ Frozen(t)
     \/ Aborted(t)
     \/ \E n \in 0..1, idleTurn, stalled \in BOOLEAN : PromptReturns(t, n, idleTurn, stalled)
     \/ \E tooOften \in BOOLEAN : PromptFails(t, tooOften)
     \/ SessionBusy(t)
     \/ \E n \in 0..1, streak, loop, gated \in BOOLEAN : Account(t, n, streak, loop, gated)
     \/ \E verdict \in Verdict, unusable \in BOOLEAN : Judged(t, verdict, unusable)
     \/ DecideSkip(t)
     \/ DecideImpossible(t)
     \/ \E limited \in BOOLEAN : DecideLimit(t, limited)
     \/ DecideContinue(t)
     \/ \E found \in {"proves", "tampered", "thin"} : DecideComplete(t, found)
     \/ \E host \in {"pass", "fail", "infra"} : Proved(t, host)
     \/ \E verdict \in Verdict : AuditDenied(t, verdict) \/ AuditPassed(t, verdict)
     \/ Recovered(t)

Lifecycle ==
  \/ \E t \in Task, p \in Proc : StartServer(t, p)
  \/ \E p \in Proc : StartTui(p)
  \/ \E p \in Proc, graceful \in BOOLEAN : Ends(p, graceful)
  \/ Tick

Next ==
  /\ \/ \E t \in Task : (\E p \in Proc : Call(t, p)) \/ Continues(t)
     \/ Lifecycle
  /\ History

Spec == Init /\ [][Next]_vars

-----------------------------------------------------------------------------
(* Properties.                                                             *)

\* Every variable keeps its type.
TypeOK ==
  /\ goals \in [GoalId -> Row] /\ exists \subseteq GoalId
  /\ last \in GoalId \cup {0} /\ created \in 0..MaxGoals
  /\ snap \in Snapshot /\ lock \in Lock
  /\ up \in [Proc -> {"new", "up", "dead"}] /\ owner \in [Proc -> Proc]
  /\ inflight \subseteq Proc
  /\ task \in [Task -> Local]
  /\ wish \in [GoalId -> {"none", "run", "stop", "clear"}]
  /\ audited \subseteq GoalId /\ lost \subseteq Task

\* A goal that the table or the snapshot calls complete has passed host proof and
\* judge: no stale write, promotion, recovery or import makes one of another status.
CompleteIsAudited ==
  /\ \A g \in exists : goals[g].status = "complete" => g \in audited
  /\ snap.id # 0 /\ snap.row.status = "complete" => snap.id \in audited

\* An active goal has not used up its budget, whoever wrote it last: accounting,
\* commands, stale goal objects or recovery.  A goal the user has cleared may come
\* back over budget, since an import is written as it is.
ActiveWithinBudget ==
  \A g \in exists : goals[g].status = "active" /\ wish[g] # "clear" => ~OverBudget(goals[g])

\* At most one goal of the session is focused, except for one the user has cleared
\* and a late write has brought back.
OneFocused ==
  \A g, h \in Focused : g # h => "clear" \in {wish[g], wish[h]}

\* Of two prompts of different owners one has lost the lock of the session: to the
\* expiry of the lock, or to another handler of its own owner that released it.
DriversLostLock ==
  \A t, u \in Task :
    /\ task[t].pc = "prompting" /\ task[u].pc = "prompting"
    /\ owner[task[t].at] # owner[task[u].at]
    => t \in lost \/ u \in lost

\* A goal the user has paused stays paused until the user says otherwise.
UserPauseHeld ==
  \A g \in exists : wish[g] = "stop" => goals[g].status # "active"

\* A lock changes hands only when its process is gone or it has not been touched for
\* ten minutes: recovery and takeover leave a live owner alone.
TakesOverOwnerless ==
  [][lock.owner # 0 /\ lock'.owner \notin {0, lock.owner}
       => up[lock.pid] # "up" \/ lock.age = "hard"]_vars

=============================================================================
