# Formal models of opencode-multimodel

TLA+ modules, TLC configurations and TLAPS proofs kept beside the TypeScript
packages of opencode-multimodel: `codex-delegator` drives Codex seats,
`opencode-codex-delegate` exposes them to OpenCode, `opencode-goal` keeps a
session working on a goal, `opencode-multimodel` runs fleets of models and
workflows, `opencode-btw` answers side questions.

Run everything from this directory:

    tlc -workers 2 -config SeatFair.cfg MCDelegateSeat.tla
    tlc -workers 2 -config GoalLife.cfg MCGoalSession.tla
    tlc -workers 2 -config RunJoin.cfg MCRunService.tla
    tlc -workers 2 -config ProviderSeats.cfg MCProviderSeats.tla
    tlc -workers 2 -config SideRunner.cfg SideRunner.tla
    tlc -workers 2 -config FleetResume.cfg MCFleetRun.tla
    tlc -workers 2 -config CodexLogin.cfg MCCodexLogin.tla
    tlapm DelegateSeatProofs.tla
    tlapm GoalSessionProofs.tla
    tlapm RunServiceProofs.tla
    tlapm ProviderSeatsProofs.tla
    tlapm SideRunnerProofs.tla
    tlapm FleetRunProofs.tla
    tlapm CodexLoginProofs.tla

| Module | Models | Checked by | Proved in |
|---|---|---|---|
| `FifoLane` | what a seat promises its callers | `SeatFair` | `DelegateSeatProofs` |
| `DelegateSeat` | one Codex seat | `SeatFair`, `SeatResume` | `DelegateSeatProofs` |
| `GoalSession` | the goals of one OpenCode session | `GoalLife`, `GoalPaused` | `GoalSessionProofs` |
| `DagRules` | the decisions over the steps of a declarative workflow | `RunJoin`, `RunDisposed` | `RunServiceProofs` |
| `RunService` | one workflow run: row, lease, executions in several processes | `RunJoin`, `RunDisposed` | `RunServiceProofs` |
| `ProviderSeats` | the Codex seats of one OpenCode session: tools, provider, attachment file | `ProviderSeats`, `ProviderRetry` | `ProviderSeatsProofs` |
| `SideRunner` | the side questions about one OpenCode session | `SideRunner` | `SideRunnerProofs` |
| `FleetRun` | the agent calls of collaboration, script and module runs | `FleetResume`, `FleetRuns` | `FleetRunProofs` |
| `RpcTransport` | one JSON-RPC transport and its app-server | `CodexLogin` | `CodexLoginProofs` |
| `BoundedCommand` | one child process under a deadline, a signal and an output bound | `CodexLogin` | `CodexLoginProofs` |
| `CodexLogin` | probes, logins, `closeAll()` and exec turns over both | `CodexLogin` | `CodexLoginProofs` |

The `MC` modules hold the definitions and symmetry sets of the runs; `SideRunner`
needs none.

## 1. Inventory

| Component | State it keeps | Operations | What is hard | What makes it correct |
|---|---|---|---|---|
| Codex seat (`codex-delegator/src/delegator.ts`) | one `Runtime` record per seat: status, delivery, controller, active turn, transport, lane tail, closing promise | create, resume, turn, review, steer, cancel, close, closeAll, approvals | requests queue on a promise chain while cancel, steer, approvals, timers and the transport act outside it; the host may die | one live turn, first come first served, nothing runs while a seat is being released, ambiguity is never lost, every call returns |
| Codex connections (`delegator.ts`: probe, connect, closeAll) | one login transport and its timer, shared by all calls | probe, connect, closeLoginTransport, closeAll | calls overlap over the shared fields; the app-server and its timers act between any two awaits | no app-server stays that nobody will close; every call ends |
| JSON-RPC transport (`json-rpc.ts`) | pending requests, write queue, failure, child process | request, notify, subscribe, respond, close, fail | answers race timeouts and aborts; failure while requests wait | each request settles once, with its own answer; a failed or closed transport settles all |
| Attachment store (`store.ts`) | `attachments.json`, a write chain per file | get, getSeat, list, put | several processes, 128 newest kept, size bound | an attachment written last is the one read |
| Codex exec (`codex-exec.ts`, `process.ts`) | a child process per turn | run, abort, output bounds | deadline, cancellation, overflow and the exit race; descendants hold the pipes | a result for every child, and the right one |
| Events, usage, changes, redaction, worktrees | none or git | normalise, diff, redact | output bounds | data conversions |
| Provider and plugin (`opencode-codex-delegate/src`) | maps of seats, attaching and closing promises per session and agent; last message and result | run, attach, open, resolveHandle, closeHandle, closeSession, dispose | an await between every look at a map and the next write | one app-server per thread; a turn runs as its call asked; nobody waits for what is over; a repeated message runs one turn |
| Goal engine (`opencode-goal/src/engine.ts`) | in-flight set, failure counters, human-turn counter, watchdogs, loop notes | user commands, model tools, idle and interrupt events, resume, recovery | long awaits (prompt, judge, host proof) between reading a goal and writing it | a user's pause wins; a finished goal stays finished; the token budget is respected |
| Goal store (`store.ts`, `snapshot.ts`) | goal rows, session locks, snapshots | get, insert, replace, update, account, focus, clear, tryLock, unlock, expire | two OpenCode processes on one database; lock expiry | one focused goal, one driver of a session |
| Goal pure functions (`policy.ts`, `trajectory.ts`, `limits.ts`, `judge.ts`, `evidence.ts`) | none | decideContinuation, loop detection, no-progress, claim inspection | boundaries | agree with their definition |
| Run service (`opencode-multimodel/src/orchestration.ts`) | active runs with controller and heartbeat | start, resume, pause, stop, cancel, steer, restartAgent, dispose | resume races itself; stop races completion; reload of the plugin | one executor per run; a terminal status is final |
| Run store (`state.ts`) | runs, steps, cached calls, leases, control, events | createRun, saveRun, claim and renew lease, initialize, prune | processes that stall past their lease | a run is written by its lease holder |
| DAG workflows (`workflow.ts`, `concurrency.ts`) | the run's steps | runWorkflow, executeStep, cancelBlockedSteps | concurrent steps, failure propagation, abort in the middle | dependencies first, no step after a hard failure |
| Collaboration (`collaborate.ts`, `jury.ts`, `budget.ts`) | replies, call budget | lead, pair, handoff, round, council, orchestrate, jury | lanes, optional failures, aborts between two calls | budget never exceeded; nothing goes on after the end |
| Script and module workflows (`script.ts`, `workflow-module.ts`) | call counter, steps | pipeline, parallel, agent with fallback seats | gates, seat timers, the order of counting | limits hold; a resumed run sees the calls it made |
| Agent runner (`opencode.ts`, tables of `state.ts`) | active prompts, sessions and workspaces per member, recorded calls | run, cancel, cleanupWorkspaces, close | an abort while a session is created; sessions shared by runs; cleanup of what is in use | an abort reaches every prompt; replay matches; isolation holds |
| Side questions (`opencode-btw/src`) | flights, children, threads, rings of answers, overlay | ask, askThread, endThread, cancelFor, dispose, askSide | two awaits between the limit check and the registration; follow-ups, `--end` and timers of one thread | no leaked child, a usable thread, a truthful screen, every question ends |

How they interact: OpenCode calls the plugins' tools and event hooks; the Codex
plugin and provider call the seat operations; a seat calls its transport (or a
`codex exec` child) and writes its attachment; the goal engine prompts the
OpenCode session through its client and holds the session lock in the goal
database, looking at the multimodel database to stay quiet while a run is
active; the run service executes workflows and collaborations through an agent
runner and persists every step.

The hazards of the code, each at the line where it bites and with the
properties about it, are in `PROJECT.json`.

## 2. Plan

Done:

1. `DelegateSeat`, refining `FifoLane`, with `DelegateSeatProofs`.
2. `GoalSession`: the goals of one session under the engine and the store,
   several processes, the lock, with `GoalSessionProofs`.
3. `RunService` over `DagRules`: a declarative run under the run service, the
   workflow engine and the run store, in several processes.
4. `ProviderSeats`: attaching, replacing, closing and deduplicating the seats of
   a session, with the attachment file and another process that writes it.
5. `SideRunner`: flights, threads and child sessions of side questions.
6. `FleetRun`: the recorded calls, child sessions and worktrees of collaboration,
   script and module runs, their replay, aborts and cleanup.
7. `RpcTransport` and `BoundedCommand`, composed by `CodexLogin` with the calls
   that share the login transport.

8. `SideRunnerProofs`, `FleetRunProofs` and `CodexLoginProofs`: the safety
   properties of side questions, fleet runs and connections.
9. `RunServiceProofs`: those of a workflow run, with lemmas about the decisions
   of `DagRules`.
10. `ProviderSeatsProofs`: those of the seats of a session.

Next:

11. Pure functions (loop detection, majority) against reference definitions over
   bounded inputs, in one module that holds no theorem.

Questions of one component that one instance can answer share a run. The `note`
of a component in `PROJECT.json` says what of it is still missing.

Each module declares its parameters as CONSTANTS with a named assumption, has
one action per operation and uses no RECURSIVE operator, so that it can be
proved about.

## 3. The Codex seat

### Modules

* `DelegateSeat` models one `Runtime` of `delegator.ts`. An action is the code
  between two awaits. Its requests are the calls of `turn()` and `review()`:

  | `pc` of a request | where the code is |
  |---|---|
  | `new` | not called |
  | `queued` | in `lane()`, awaiting the previous promise |
  | `starting` | `stream()` awaits the response to `turn/start` or `review/start` |
  | `streaming` | the turn is accepted, `wait()` for completion |
  | `interrupting` | deadline passed, awaiting `turn/interrupt` |
  | `finalizing` | the result is chosen, `finalizeTurn` reads the worktree |
  | `exec` | `runExec` of the fallback transport |
  | `settled` | the result is assigned, the attachment is being written |
  | `done` | returned, or threw |
  | `lost` | its process died |

  `prev`, `gate` and `tail` are the promise chain of `lane()`; `status`,
  `delivery`, `controller`, `activeTurnId`, `transport`, `thread` are the fields
  of `Runtime`; `stored` is the delivery in the attachment file. `cpc` holds the
  calls of `cancel()`: the outside ones, the one `closeRuntime` makes, and the
  one each request's abort listener makes. `apc` holds the approvals waiting for
  their callback, `closePc` the progress of `closeRuntime`. `ticket`,
  `issued`, `unresolved` and `signalled` record history for properties.
* The app-server child is external: it reads its stdin in order (`wire`), may
  refuse a turn, run it as long as it likes, end it, answer an interrupt, or
  die. An orphan left by a host crash goes on running.
* `FifoLane` is the promise of a seat, without any of its mechanism: callers
  arrive, the first in line gets the free seat or is turned away.
* `MCDelegateSeat` adds the symmetry sets for TLC.

Timers are not modelled as clocks: a deadline is an action that may fire at any
time its await is pending.

### Runs

| Run | Instance | Shows |
|---|---|---|
| `SeatFair` | a turn, a review, one close, app-server, `FairSpec` | `TypeOK`; one live request (`LaneExclusive`); nothing live while the thread is released (`CleanupAfterDrain`); the seat implements `FifoLane` (`LaneOrder`); every turn and every close returns (`CallsReturn`) |
| `SeatResume` | a signalled and an unsignalled turn, a cancel, an approval, a host restart, both transports | accepted turns never overlap in the app-server during one life of the host (`AcceptedTurnsSerial`); an unresolved ambiguity stays recorded (`AmbiguityRecorded`) |

Bounds: two requests and the calls of `close()` are enough for one to hold the seat,
one to wait and a third party to wait for both; what holds of more requests is
proved, except liveness; one outside cancel meets all its positions
relative to two requests; one close and one restart likewise, as a second close
of an open seat starts from a state the first one passes through. `MaxClose` and
`MaxResume` bound the calls of `close()` and the restarts; the lane itself is
finite because each request is made once. The instances are symmetric in the
turns, cancels and approvals, which no action tells apart.

Fairness: `FairSpec` assumes weak fairness of what the process does by itself
(promise reactions, and timers, which bound every await of a request: the start
deadline, the turn deadline, the five seconds of an interrupt), of the two
awaits of `cancel()`, and of `closeRuntime`. Nothing is assumed of the callers,
of the approval callbacks or of the app-server: they may stop for ever.

### Proofs

`DelegateSeatProofs` proves, for every set of requests, cancels and approvals
and every bound, `Spec => []SeatInv` and from it the theorems listed in
`PROJECT.json`. `LaneExclusive` is not inductive: that the gate of the
predecessor is open says nothing of the earlier requests. `SeatInv` adds what
the promise chain keeps true: tickets are unique and follow the order of arrival
(`Tickets`), a gate is open exactly when its request is past the lane (`Gates`),
requests that are past the lane form a prefix of the order (`Past`), each queued
request is behind the request that arrived just before it (`Predecessor`), the
tail is the last arrival (`LastIn`), and the controller belongs to the live
request (`Control`). `CleanupAfterDrain` rests on `CloseInv`: while a seat is
closing nobody is admitted, so after the tail the close waited for is through
nobody is live. `FirstComeFirstServed` maps every step to a step or a stutter of
`FifoLane` from the same invariant. The assumptions are those of
`SeatAssumption`: the different kinds of calls are distinct and there is at
least one transport.

`AcceptedSerially` proves `AcceptedTurnsSerial`, which is stated for a host that
has not been restarted (an orphaned app-server goes on with its turn, and a
resumed thread gets a new process). It needs a second invariant, `SerialInv`, on
top of `SeatInv`, about what is on its way to the child: each turn is started
once and the last start in the pipe is the live request's (`StartsOnce`); a
stream that timed out has at most one interrupt of its own in the pipe, naming
its own turn (`StreamAsks`, `Begun`); an accepted turn that still runs after its
stream gave it up has an interrupt in the pipe ahead of every start (`GivenUp`);
a transport that is not up has no child that runs anything (`DeadIsQuiet`). As
the child reads its input in order, which is the one thing assumed of it, the
first turn ends before the second begins. The property itself is not inductive:
`Serial` adds that beside an accepted running turn no running turn still waits
for its acceptance. TLC confirmed `SerialInv` on seats of three requests before
it was proved.

Only model-checked: the two liveness properties in `CallsReturn`
(liveness under fairness is out of the prover's reach). `BusyUnreachable` is a
theorem only: no run repeats it.

### Not modelled

`steer()` and `inspect()` (no effect on the seat's own state), rate limits (a kind of failed result), the text of events, the diff
of the worktree, a terminal status in the response to `turn/start`, and the
review's own turn id handling.

## 4. The goals of a session

### Module

`GoalSession` models one OpenCode session under `opencode-goal`: the rows of
`thread_goals`, the session's row of `goal_locks`, its snapshot file, and the
handlers of `GoalService` in several processes that share them. A task is one
call of a handler; an action is the code it runs between two awaits, with every
store write in it (SQLite is synchronous, so that such a block is atomic in its
process; each write of it is a transaction, and the model takes the block as one
step of the session).

| `pc` of a task | where the code is |
|---|---|
| `new` | not called |
| `freezing` | `freezeGoalContract` awaits the contract author |
| `aborting` | `takeOver` awaits `session.abort` |
| `prompting` | `prompt` awaits `session.prompt` |
| `listening` | `handleIdle` awaits the session, its children and messages |
| `judging` | `refreshVerdict` awaits the judge |
| `deciding` | `maybeContinue` awaits status and plan mode |
| `proving` | `proveHost` awaits contract or checks |
| `auditing` | `completeFromModel` awaits the judge |
| `recovering` | `recoverActive` awaits goals earlier in its list |
| `refused`, `done` | threw `session_owned_elsewhere`; returned, or its process ended |

| Variable | Code |
|---|---|
| `goals`, `exists`, `last`, `created` | the rows, which of them there are, the one with the latest `updated_at`, the goals created so far (goals are numbered by `created_at`) |
| `snap` | the session's file under `.opencode/goals` |
| `lock` | owner, pid and age of the lock; the age is fresh, stale (90 s) or past the hard limit (10 min), and `Tick` lets it grow |
| `up`, `owner`, `inflight` | a process, the lock owner it uses (a terminal adopts its server's), and whether it has a prompt in flight |
| `task[t].row`, `.id` | the goal object a handler read before its await, and writes or looks for after it |
| `wish`, `audited`, `lost` | history: what the user last said of a goal, which goals passed host proof and judge, which prompts lost the lock to something else than a second driver's `tryLock` |

`Current` is `store.get()`: the focused row, else the row written last. The code
writes by session and not by goal, so a result that arrives late is written to
whatever goal is current by then; the model does the same. `Save` is `update()`
with its cap at the budget, followed by `persist()`; `PersistAnd` is `persist()`
of a goal object that was read earlier, which writes the snapshot even if that
goal is not current any more. `Command` is the shape of the user commands; `Set`,
`Add`, `Sequence`, `Focus`, `Clear` and so on are the others. `Decide...` are the
outcomes of `maybeContinue`, `AuditDenied` and `AuditPassed` (with
`promoteNext`) those of `completeFromModel`, which `handleIdle` and the model's
tool both call (`kind` tells which). `StartServer`, `StartTui`, `Recovered` and
`HandleResume` are the starts and the recovery; `Ends` is a crash or `close()`.

Abstractions, each of which allows more than the code does unless it says
otherwise: counts of turns, seconds, failures, idle turns and repeated calls are
left out and their thresholds are choices of the step (`limited`, `tooOften`,
`streak`, `stalled`, `loop`); what the judge, the checks and the client answer,
and when, is free; tokens are charged zero or one at a time, by the prompt and
again by the next idle event, as the code may; `add`, `sequence` and the prompts
of commands carry the same agent the caller passed; the steering option is on;
the pause of eight seconds after a steer is part of what `DecideSkip` may skip
for; recovery reaches one goal of its list, which is the session's. Less than the
code: an import of a snapshot into a table with other rows is taken as older than
the row written last; a sequence has two objectives; `contract apply`, a missing
client and `steerWithoutPause` are not modelled.

### Runs

| Run | Instance | Shows |
|---|---|---|
| `GoalLife` | two servers and a terminal that end, crash, recover and go quiet; two calls of any command, tool or event; two goals, budgets of none or one token | `TypeOK`, `CompleteIsAudited`, `ActiveWithinBudget`, `OneFocused`, `DriversLostLock`, `TakesOverOwnerless` |
| `GoalPaused` | one process, three calls of set and pause | violated: a pause made while the contract is authored is undone |

Bounds: two calls are enough for one to hold a stale goal object and the other to
change the table under it, and each call starts a chain of up to six awaits, so
that twelve steps interleave with those of three processes; three calls at once
are left to the proofs; two goals
are enough for a current one and another one; a budget of one token is used up
by the first charge. `MaxGoals` and `MaxTokens` are bounds of the model: a step
that would pass them is not taken. `Handlers` selects the calls
an instance makes, since the product of all of them is out of reach; the proofs
below cover every selection. Deadlock is not checked, because a session in which
every call has been made stops. Calls, and servers, are symmetric.

No fairness is assumed, and no liveness is stated: whether a goal goes on depends
on the host sending idle events and on the answers of models.

### Proofs

`GoalSessionProofs` proves, for every set of processes, calls, handlers and
budgets and all bounds that satisfy `GoalAssumption` (the sets are of the right
kind, and 0 is not a process), `Spec => []GoalInv`, and from it every property
of `GoalLife`. None of them is inductive by itself:

* `TableInv` types the rows and states the properties for the whole table, and
  for the snapshot (`SnapOK`), since an import makes a row of it. `Known` says a
  goal that is created but gone was cleared or replaced, which is what ties a
  goal that a late write brings back to the exception in the properties.
* `FocusInv` adds two facts to `OneFocused`: if the current goal was cleared, so
  were all focused ones; and if the row written last is not focused, no goal that
  is later than a focused one is missing. Without them a write to `Current`, or
  an import, could focus a second goal.
* `TaskInv` says of the goal object a call carries over an await what the table
  says of a row, except for the budget: it may have been used up meanwhile, which
  is why `update()` caps what it writes.
* `LockInv` and `DriveInv` tie calls to living processes and prompts to the lock:
  a prompt's owner holds the lock unless it is in `lost`.

The proof of a step is that of its action: a lemma per handler shows what it
makes of the table, of the lock and of its own task, and lemmas about those three
kinds of change (`Save`, `PersistAnd`, `Insert`, `Prompt`) show the parts of
`GoalInv`.

Only `UserPauseHeld`, which the code violates, stays with TLC.

### Not modelled

Schema migrations, the index of snapshots, several sessions in one database, the
texts of prompts and notes, the text of contracts (a contract is authored, and
proves, fails, or was tampered with), claim inspection and loop detection beyond
their outcome, and the wiring of the plugin surfaces.

## 5. A workflow run

### Modules

`DagRules` holds what `workflow.ts` decides over the recorded statuses of a
definition's steps: `Reset` at the start of `runWorkflow`, `CancelBlocked`,
`Ready`, `HardFailure`, and `Finalize` of a failed execution. Steps are numbered
in the order of the definition; what `validateWorkflow` lets through is
`DagAssumption`.

`RunService` models one run in the shared SQLite file and the plugin processes
that work on it. A task is one call of `startWorkflow`, `resume` or
`restartAgent`, together with the execution it starts.

| `pc` of a task | where the code is |
|---|---|
| `restarting`, `resuming` | `restartAgent` before `saveRun`, and before it calls `resume` |
| `claiming`, `rerunning` | `resume` before `claimLease`, and before `setRunControl` |
| `start` | `executeWorkflow` before or in its `waitUntilRunnable` |
| `routing`, `routed` | the lead's routing call; before the `saveRun` after it |
| `entering` | at the beginning of `runWorkflow` |
| `level` | before or in `beforeStep` of a level |
| `working` | `mapLimit` over the ready steps |
| `synth`, `synthesizing` | the gate and the call of the synthesis |
| `finishing` | before the last `update` of the `try` |
| `failing`, `cancelling` | the `catch` of `runWorkflow`, and its `runner.cancel` |
| `returned` | the `then` of `executeWorkflow` |
| `rejecting` | its `catch` |
| `done` | the promise settled, though a lane may still be at work |

| Variable | Code |
|---|---|
| `row` | the row of `runs` with its `run_steps` |
| `control` | its column `control` |
| `lease` | its row of `leases`; `live` is `expires_at >= now` |
| `up` | a process: not started, up, in `dispose()`, gone |
| `task[e].base`, `.run` | the run object `executeWorkflow` was given, and the clone `runWorkflow` edits |
| `task[e].todo`, `.calls`, `.lanes` | the work of `mapLimit`: steps no lane has taken, steps whose agent is called, lanes that have not thrown |
| `task[e].reason`, `.asleep` | `signal.reason` of the controller, and whether the gate sleeps |
| `events`, `lapsed`, `strayed`, `swept` | the bound's counter; processes whose lease expired while they worked for the run, processes where a lane outlived its run, and whether executions gave up on steps and why |

An action is one transaction with the code around it. All methods of the store
are synchronous after their first `await`, so a promise chain of store calls
resolves within one turn of the event loop: while one of its tasks is inside
such a turn (`InTurn`) a process takes no call, timer or answer. Other processes
interleave between any two transactions. Timers (the heartbeat, the sixty seconds
of the lease, the budget, the 250 ms of the gate) are actions that may fire
whenever they are armed. What agents answer is free; the fallback seats of a
step are one call, as they touch the run only at its end. A result that cannot
be saved is an error of its seat; the model takes the attempts of the other
seats, which meet the same refusal, as one.

### Runs

| Run | Instance | Shows |
|---|---|---|
| `RunJoin` | steps 1 and 2 side by side and 3 that needs both; step 1 may fail, step 2 may lose its member; two processes, two calls, one event | `TypeOK`; an execution with an agent at work holds the lease (`DrivesUnderLease`) and the row is its copy (`RowIsDrivers`); `NeedsMet`; "Workflow cannot make progress" unreachable (`NeverStuck`); nothing a crash cut short is missing from a completed run (`CompletedMeansDone`) |
| `RunDisposed` | two steps in a chain, two processes, one event | violated: a run disposed and resumed is completed without its steps |

Bounds: `MaxEvents` counts halts, aborts, disposals and leases that expire while
their owner works for the run; one of them meets any position of two executions,
together with any crashes, pauses and expired leases of owners that are gone or
idle, which are not bounded (a process boots once). Two calls give one execution
and a second that resumes or restarts what the first left, in the same process
or in the other, also while the first is still at work. Three steps are enough
for two lanes and a step that joins them. Resuming an active run and renewing a
lease are not bounded either. Processes are symmetric; calls are numbered in the
order they are made, so that they need no symmetry. Deadlock is not checked: a
run that is over, with all calls made, stops.

Exceptions in the properties, each for something the code does allow:

* `lapsed`: a process that works for the run but did not renew its lease for a
  minute. Until it saves again it does not know that it lost the run; the
  properties speak of it again only after it has ended.
* `strayed`: `Promise.all` of `mapLimit` rejects with the first lane that throws
  while the others go on; see section 10.
* `swept`: an execution that fails, is stopped, cancelled or timed out records
  its open steps `cancelled`, and a later resume leaves them so. `CompletedMeansDone`
  speaks of runs that only crashes, expired leases, pauses and resumes interrupted,
  `DisposedRunsResume` of those that were disposed as well, of which the comment
  in `dispose()` says that they stay resumable.
* `NeedsMet` and `CompletedMeansDone` are stated for definitions that list a step
  after what it needs (`Topological`), which both instances do; see section 10 for
  the others.

No fairness is assumed and no liveness is checked of this module.

### Proofs

`RunServiceProofs` proves, for every definition that satisfies `DagAssumption`
(step numbers, a width of at least one, and needs without a cycle) and every set of
processes and calls, lanes, members named by their model and bound on events
that satisfy `RunAssumption` (calls are numbers, no process is `None`),
`Spec => []RunInv` and from it every property of `RunJoin`. Its parts, and why they
are needed:

* `Sound` says of the row and of each copy of the run what `NeedsMet` and
  `CompletedMeansDone` say of the row, and that a cancelled step has a need that
  blocks it (`Justified`), as long as no execution has given up on steps. A run
  object goes from a call to the row and back, so that all of them must be sound.
  From `Justified` follows that a finished run without a hard failure has no
  cancelled step: the first of them would need an earlier one (`CarriedOut`).
* `Placed` and `Stepped` tell which lanes, statuses and reasons there are at each
  `pc`. A level that begins has only pending and settled steps, which with
  the rank of `DagAssumption` gives `NeverStuck` (`ReadyExists`).
* `Clear`: what a step in a lane needs is settled and in no lane itself, so that a
  lane that ends, in any order, takes nothing from under another. It holds of
  lanes that outlive their run, too.
* `Lodged`: one call at a time is busy in a process, and the process is alive. It is
  why a resume or a restart in a process does not meet its own execution.
* `Leads`: whoever is past the claim and before the end of its execution has the
  lease, unless its process is in `lapsed` or `strayed`, and the row mirrors its
  copy. `WritesAlone` shows that nobody else's write is then accepted.

`Topological` is assumed where the properties assume it: `Sound` and `Clear` fail
without it (section 10). The lemmas about `CancelBlocked`, `Ready`, `Reset` and
`Finalize` are the facts the steps use of `DagRules`; `Blocked` is the least
set the pass has a reason to cancel (`BlockedIs`). Each action has a lemma;
`StepKeeps` is what all steps of a call have in common, `SaveKeeps` and `MoveKeeps`
those with and without a save, and `WorldKeeps` what boots, crashes and leases do.

Only `DisposedRunsResume`, which the code violates, stays with TLC.

### Not modelled

Collaboration, script and module runs, agent calls and workspaces (see
`FleetRun`), several runs in one store (which meet only in pruning and in the
runner), events, the
second start of one message (it returns the first run), and a run that is
deleted by pruning.

## 6. The seats of a session

### Module

`ProviderSeats` models one OpenCode session under `opencode-codex-delegate`: the
tool seats of `plugin.ts` and the provider seats of `provider-runtime.ts`, one
per agent, over one `CodexDelegator` and its attachment file. What a seat, a
runtime and an attachment record are is named by the call that opened them.

| `pc` of a call | where the code is |
|---|---|
| `waitAttach`, `waitClose` | awaits another call's entry of `attaching`, or of `closing` |
| `closingOld` | closes the seat whose configuration it replaces |
| `reading`, `opening` | reads the attachment file; awaits the app-server |
| `attach`, `attached` | ready to run: about to look at the maps, or to use the seat it was given |
| `queued`, `running` | its turn waits for, or has, the runtime |
| `closing` | `codex_close` closes the handle it names |
| `eventTools`, `eventSeats` and so on | the stages of a `session.deleted` |
| `disposeTools`, `closeAll` and so on | the stages of the plugin's `dispose()` |

| Variable | Code |
|---|---|
| `seats`, `attaching`, `closing` | the maps of both files, by tool seat or agent |
| `seat[c]` | the fields of a seat that runs change: its last message, and whether it continues |
| `rt[c]` | the `Runtime` that the call opened: its configuration, thread and transport |
| `sessions` | `CodexDelegator.sessions` |
| `file`, `snap` | `attachments.json`, its `MaxRecords` newest records, and the copy another process has read and not yet renamed over it |
| `stray`, `answered`, `retries` | history |

JavaScript runs a continuation to its next await, and every ready continuation
before the next I/O event. Calls, answers and files therefore come only when the
process is `Quiet`; the order of the ready continuations is free. How a runtime
admits turns and drains is `DelegateSeat`: here it runs one turn at a time.

### Runs

| Run | Instance | Shows |
|---|---|---|
| `ProviderSeats` | two runs of one agent, a `codex_delegate`, a `codex_review`, a `codex_close`, a deleted session, a disposal and a foreign write; two configurations | `TypeOK`; `ThreadHasOneRuntime`; `TurnUnderItsConfiguration`; `MapsHoldLiveSeats`; nobody waits for what is over (`WaitsEnd`) |
| `ProviderRetry` | three runs with two messages | violated: a message is run again once the seat has completed another one (`RetryRunsOnce`) |

Bounds: `MaxCalls` lets any three of the calls be made, which is one that holds a
seat, one that waits for it and one that ends or replaces it; two records make
the file evict one when a third is written. Deadlock is not checked, because a
process with all calls made stops. No fairness is assumed and no liveness is
stated, since a turn may last for ever; `WaitsEnd` is the safe half of it.

`stray` holds the runtimes that the maps have dropped with their transport open:
those whose `thread/delete` failed, and those whose entry a `codex_close` removed
while it closed another handle. `ThreadHasOneRuntime` excepts them, see section 10.
`MapsHoldLiveSeats` excepts what `closeAll()` of a disposal has closed (`Over`): a call
that `dispose()` misses may put its seat in the map before `closeAll()` closes it, and
nobody removes it. That takes four calls, one more than the run makes (a provider run,
two `codex_delegate` of different configurations, a disposal); the proof asked for it.

### Proofs

`ProviderSeatsProofs` proves `Spec => []SeatsInv` for any calls, agents, tool seats,
configurations, messages and foreign writers that satisfy `SeatsAssumption` (the kinds of
calls are distinct, the file keeps at least one record), and any `MaxCalls`. From it
follow all five invariants of the run. Its parts:

* `Openers`: a seat has one call that opens it, which is its entry in `attaching` and has
  emptied its entry in `seats`. After `dispose()` has cleared `attaching` the opener is
  there no more, and the invariant must say instead that no call is left to open the seat
  again (`Late`), because no call arrives after a disposal has begun.
* `Waiters`, `Closings` and `Drains`: whom a waiting call awaits still goes on. A run
  that waits for a closing seat of the provider waits for the call in `closing`, and
  while that entry is there nobody opens the seat; with them `WaitsEnd` holds.
* `Runtimes` and `Records`: the id and the thread of a runtime, of an attachment that a
  call has read and of every record in the file, and in the copies of other processes,
  are of the seat that they are stored for, and the file has one record of an id. This is
  what a resume relies on, and through it threads of different seats differ.
* `Held`: a seat in the map is registered under its id, and one that is being closed is
  named by the `codex_close` that will drop it (`Taken`). It is inductive only because
  every other closer drops the entry before it closes.
* `Given`: the runtime a call was given is still registered under its id when it starts
  its turn, since no opening settles between. It gives `TurnUnderItsConfiguration`.
* `Sole`: two open runtimes of one seat are the same, but for strays; the one there is is
  in the map, unless a disposal has dropped it and nobody is left to open the seat
  (`Retired`). With `Runtimes` it gives `ThreadHasOneRuntime`.

The lemmas `WithoutIs` and `PutIs` say what a write of the file keeps. `RetryRunsOnce` is
violated, and stays with TLC.

### Not modelled

The adoption of records without a session, the exec fallback of a seat, several
sessions, the parts of a stream, prompts and permissions, `codex_status`,
`codex_steer`, and the bridge to the goal plugin.

## 7. Side questions

### Module

`SideRunner` models the side questions about one session: the `btw` tool of the
server plugin, `/btw`, `/btw --thread` and `/btw --end` of the terminal plugin,
each plugin with a `SideRunner` and a `SideRegistry` of its own, and `askSide()`
of the OpenCode 2 entry. The OpenCode server is external: any request may be
answered late, or fail.

| `pc` of a call | where the code is |
|---|---|
| `snapshot` | reads the parent's messages |
| `creating` | awaits the child session |
| `prompting` | awaits the answer, the timer or the signal |
| `answered`, `refused` | deletes its child (`askSide()`: interrupts it) after an answer, or an error |
| `aborting`, `deleting` | an `--end` awaits the abort, then the deletion, of the thread's child |
| `interrupting` | `askSide()` interrupts its session after a failed attempt |
| `disposing` | a disposal awaits the aborts of what is in flight |

`child` is what the server has; `inFlight`, `children` and `thread` are the maps
of the runners; `ring` holds the answers each registry keeps, `overlay` what the
terminal shows. A child is named by the call that created it.

### Runs

| Run | Instance | Shows |
|---|---|---|
| `SideRunner` | a tool call, a `/btw`, two follow-ups, an `--end`, an `askSide()`, a deleted session and a disposal; `concurrency` 2, `history` 1 | `TypeOK`; `AskLeavesNothing`; `ThreadUsable`; `OverlayTruthful`; under `FairSpec` every question ends (`QuestionsEnd`) |

Bounds: `MaxCalls` lets any three calls be made: two questions over one thread and
one that ends, deletes or disposes it, or three questions for two slots. One
answer in a ring is enough for the next to push it out; `Attempts` is the code's
own three. The safety properties were also explored once with four calls.

`FairSpec` is weak fairness of the steps that follow an answer or a failure of a
request, and of the timers, which the code arms for every prompt: it says that the
server answers requests other than prompts, or fails. No model has to answer, no
user has to ask, and no signal has to be aborted.

### Proofs

`SideRunnerProofs` proves `Spec => []SideInv` for any calls that satisfy
`SideAssumption`: the kinds of calls are distinct, `concurrency` is 1, 2 or 3 as its
option allows, and rings and attempts have any length. From it follow all four
invariants of the run. Its parts:

* `ChildInv` ties the child that a call prompts to its step: a call prompts its own
  open child or, a follow-up only, that of another question and then has none.
* `ThreadInv`: the thread is an open child of a question that has been answered, and what
  an `--end` is closing is such a child, too, but not the thread any more. It is why
  a follow-up that starts while an `--end` awaits OpenCode does not ask the child that goes.
* `FlightInv`: an entry of `inFlight` is of a call that prompts that child. With
  `ThreadInv` it gives `ThreadUsable`.
* `AttemptInv` and `UnstartedInv` bound the attempts of `askSide()`, which
  `AskLeavesNothing` and the types need.

`QuestionsEnd` is liveness and stays with TLC.

### Not modelled

The text of answers and its streaming into the overlay, the rendering of the
snapshot, dialogs and keys, `--send`, which merges an answer into the session, and
steering a child.

## 8. The calls of a fleet run

### Module

`FleetRun` models the agent calls of collaboration modes, confined scripts and
authored modules over one `OpenCodeAgentRunner` and its tables. A mode is a set of
programs (`Programs`): a program is a sequence of calls in stages, and `mapLimit`
makes the calls of a stage in lanes. An execution is one pass over the program of
its run; a resume or a restart from a step is another execution, which finds the
calls recorded before it.

| `at` of a call | where the code is |
|---|---|
| `idle`, `lost` | not taken by a lane; its process is gone |
| `gate` | waits for the run to be runnable |
| `workspace`, `creating` | awaits the worktree, or the child session |
| `prompting` | awaits the answer |
| `done`, `failed`, `threw` | replied; left an error text or null in place of a reply; threw |

| Variable | Code |
|---|---|
| `rows` | `agent_calls` of a run, by call index |
| `saved`, `kept` | `child_sessions`, and the `workspaces` that are not removed |
| `sessions` | `OpenCodeAgentRunner.sessions`: by member, and by run if the member is isolated |
| `count` | the calls an execution has counted against its budget |
| `item[e][i].told` | OpenCode was asked to abort the session of the prompt |
| `cleaning` | what `cleanupWorkspaces()` has still to remove |
| `prior` | history: the recorded calls an execution found |

`Takes` is a call up to its first wait: the signal, the budget and the count, then
the gate of scripts and modules or `Runs`, which is the replay of a recorded reply
or the search for a session. `Ends` covers every way out of an execution. A fallback
seat of a module's call is a further prompt of the same call (`tried`).

Abstractions: a plan always assigns the same tasks to one run; a prompt quotes the
replies of all earlier stages; a module may fall back to any member it has not
tried; the row and the lease of the run are those of `RunService` and are left out
here: `Starts` takes from there that no two executions of one run go on at once,
while the stray lanes of an earlier one may.

### Runs

| Run | Instance | Shows |
|---|---|---|
| `FleetResume` | a lead, two workers, one run; `council`, `orchestrate` or `parallel`; two executions, one crash | `AbortReaches`; `KeepsPrefix`; `ReplayMatches`; `CollabEndsQuiet` |
| `FleetRuns` | an isolated lead, one worker; `lead` or `module`; two runs, two executions | `TypeOK` with the budgets; `SessionsHold`; under `FairSpec` an aborted execution ends (`AbortEnds`) |

Bounds: two executions are one that is cut or restarted and one that replays it,
or two side by side; an assignment of two tasks to one worker, with two lanes, is
enough for lanes to race for a session and to finish in either order. The modes
`pair`, `handoff`, `round`, `jury` and `pipeline` are in the module and take no
further action: an instance reaches them through `Mode`; the two runs leave them
out, since their stages are prefixes and combinations of those that run.

`FairSpec`: continuations run, OpenCode answers its requests for sessions and
worktrees, a prompt whose session is aborted returns, and an aborted run does not
stay paused. Nothing is assumed of models.

`KeepsPrefix` does not speak of modules, whose call index is not the position of
the call: lanes count as they come through the gate. It excepts a record that quotes a
reply which a later execution has replaced, and `prior` leaves out the records that
a stray lane is at when the execution starts. `CollabEndsQuiet` speaks of
collaborations only; section 10 says what scripts do.

### Proofs

`FleetRunProofs` proves `Spec => []FleetInv` for any fleet, modes, assignments,
isolated members, limits, runs, executions and crashes that satisfy `FleetAssumption` (the
lead is not a worker, an assignment has a task, and `None` and `Failure` are no
members or runs), and from it all six invariants of the two runs. Its parts:

* `Types` has the types and the budgets; `Started` says which executions have calls.
* `Orderly`: what a call has by the step it is at, and the order of stages: a later
  stage has not begun unless the earlier ones are over, and an execution that has
  completed or failed has no call in progress in any lane. It needs that a program's
  stages follow each other and that a call which may end the run has its stage for
  itself, which `ProgramsShaped` proves of every mode.
* `Maps` and `PromptsHold`: what the runner remembers is what is saved, a prompt is in
  a session of its member, and an aborted execution's sessions have been told.
* `Origins`: a recorded reply was made by an execution of the run, whose own calls
  still say what its prompt quoted. So a record, a replay and the execution that
  made the reply agree, which is `ReplayMatches`.
* `Kept`: what an execution found and may use is still recorded, is what it reuses,
  and is being asked by nobody: neither by its own lanes nor by a stray one.

`RepliesStay` is about steps: no step changes a reply that a call has settled with, or
the run or the calls of an execution that has started. `AbortEnds` is liveness and
stays with TLC.

### Not modelled

`steer()`, a script's `shell()`, `log()` steps, the evaluation of confined
scripts, the discovery and loading of workflow files, the text of prompts, and
agent calls of declarative workflows (in `RunService` they are external).

## 9. Connections and children

### Modules

`RpcTransport` is one `JsonRpcTransport` with its app-server: what its callers do
to it within one turn of the event loop are operators on its record, and what the
child, the pipes and the timers do are actions. `BoundedCommand` is `runBounded`:
one child with its two streams, deadline, signal and output bound, and perhaps a
descendant that holds its pipes. `CodexLogin` composes them with the calls of a
`CodexDelegator` that has no seats: `probe()`, `connect()` with its login,
`closeAll()`, the timer that ends a login, and an exec turn.

A probe is a connect that does not go on to log in; `<<c, 1>>` is the transport of
its probe, `<<c, 2>>` that of its login. `conn[x]` keeps the promises of the
requests (`reply`), the map `pending`, the requests the child has read (`wire`)
and the frames it has written that nobody has read (`out`); `close` is how far
`close()` and its escalation are. `login`, `timer` and `armed` are
`loginTransport`, `loginTimer` and the timers not yet cleared. A call that is
resumed runs to its next await before the next event (`Idle`); several frames of
one chunk may be read in a row. The three commands of a probe are one event each.

### Runs

| Run | Instance | Shows |
|---|---|---|
| `CodexLogin` | two connects, a `closeAll()`, an exec turn | `TypeOK`; `Settlements`: a request settles once and with its own answer; `NoStrayServer`; under `FairSpec` every call ends (`CallsEnd`) |

Bounds: two connects overlap in every way, or one of them meets `closeAll()`; exec
turns share nothing with the other calls, so that `MaxCalls` leaves them out and
an instance runs one apart from the others. `MaxOut` frames wait in a pipe, enough
for two to be read in one chunk and for one to be lost at the exit. The safety
properties were also explored once with all three calls.

`FairSpec`: calls are resumed, pipes are read, exits are noticed, timers fire, and
a SIGKILL ends the group it is sent to. Nothing is assumed of what children do by
themselves.

`NoStrayServer` excepts login transports that a second login has displaced
(`stray`), and `CallsEnd` an exec turn whose codex has exited while a descendant
holds its pipes (`Outlived`); see section 10 for both.

### Proofs

`CodexLoginProofs` proves `Spec => []LoginInv` for any calls, transports, requests and
bounds that satisfy `CallsAssumption`, and from it all three invariants of the run.
Besides the types and `NoStrayServer` it says:

* `Sound` of every transport: a request waits exactly when it is in `pending`; one that
  has failed or is closed has none pending; one that failed and is not closed has lost
  its child; one nobody opened has no frames. `Later` is what every operator and event
  keeps of a transport (sound, closed if it was, not brought up again), so that each
  operator is looked into once.
* `Awaits`: the transport, request or close that a call uses at each `pc`. A call that
  was resumed by a close really has its transport closed.
* `Succeeded`: the transport a connect logs in over is `login`, has been displaced, or
  is closed. With `Unborn`, that nobody has yet opened the transports of a later call, it
  makes `NoStrayServer` inductive.

`CallsEnd` is liveness and stays with TLC. Of exec turns only the types are proved.

### Not modelled

Notifications and their subscribers, requests of the server, stderr, notices, the
arguments of codex and the events of an exec turn.

## 10. Other disagreements observed

The violated runs above are findings of `PROJECT.json`. Running the
models, or reading the code for them, also showed these, which no run keeps:

* **Seat, overlap.** When `turn/start` times out, fails or is aborted before it is
  answered, the lane moves on although the app-server may have started the turn; the next turn
  then runs beside it. The attachment says `ambiguous` in that case, unless the
  caller cancelled.
* **Seat, closed is final.** An approval callback that answers after `close()`
  sets the status back to `running` (`delegator.ts:1070`).
* **Seat, queued abort.** A signal that is aborted while its request waits in the
  lane fires before `stream()` listens, and the turn runs
  (`delegator.ts:800`).
* **Seat, close without cleanup.** `close()` without cleanup after the transport
  has failed rejects instead of closing.
* **Goals, cleared stays cleared.** `persist()` of a goal that was cleared during
  an await writes its snapshot, and the next start imports it
  (`opencode-goal/README.md:142`: `clear` "removes every goal in the session").
* **Goals, only the focused one is continued.** After an import two rows may be
  focused, one of them cleared before, and both active
  (`opencode-goal/README.md:133`).
* **Goals, the lock of a prompt.** The `finally` block of `prompt()` releases the
  lock of the owner even when another prompt of that owner is running, and a
  second process may take the session (`opencode-goal/README.md:235`, `:238`).
* **Goals, refusal.** A command is refused for 90 seconds by the lock of a process
  that has died, and for ten minutes by a lock that a living process no longer
  touches: `expireStaleLocks` looks at the process only of locks that are stale
  (`opencode-goal/README.md:235-236`: locks expire 90 seconds after the last
  touch, "or immediately when the owning process has died").
* **Runs, resumed after a stop.** What `RunDisposed` shows of `dispose()` holds of
  every abort and of a refused seat: the catch of `runWorkflow` cancels the steps,
  a resume does not reset cancelled ones, and the run is recorded `completed`
  (`workflow.ts:119`, `:235`). `restartAgent` after a hard failure likewise leaves
  the steps before the restarted one cancelled.
* **Runs, restart in another order.** `restartAgent` resets the steps that follow in
  the definition, not those that need the step (`orchestration.ts:238`): a
  definition that lists a step before one it needs keeps what it made of the old
  answer. A step that was cancelled because of the restarted one stays cancelled
  when it is listed before it, and the run is recorded `completed` without it.
* **Runs, stale read.** `resume()` reads the row before it claims the lease
  (`orchestration.ts:147`, `:189`): if the executor ends in between, the resume
  carries out finished steps again.
* **Runs, lease of a refused resume.** The lease is claimed before the definition is
  compared with the run (`orchestration.ts:189`, `:195`); when that throws, the
  run stays leased until the lease expires.
* **Runs, stray lanes.** When one lane throws (a member named by its model, which
  `workflowMember` does not know, or a refused save), the others go on after the
  run has failed. If the run is resumed in the same process meanwhile, the old lane
  saves its copy over the row of the new execution, and its `failed` releases the
  lease (`concurrency.ts:18`).
* **Seat, cancel.** `cancel()` reads `activeController` again after it has awaited
  the interrupt, and aborts the turn that was queued and is active by then
  (`delegator.ts:680`).
* **Seat, ambiguity.** An approval that answers over an ambiguous delivery sets the
  status to `running`, and the next turn is admitted unreviewed
  (`delegator.ts:1070`, `:1121`; `tests/delegator.test.ts:424`).
* **Goals, completed.** `prompt()` writes a pause for lack of progress over a goal
  that was completed meanwhile, and `resume` accepts it (`engine.ts:1052`, `:288`).
* **Provider, close.** `codex_close` removes the tool seat after it has closed the
  provider's handle (`plugin.ts:474`); a close that fails to delete its thread
  leaves the seat dropped with its app-server running; and with managed worktrees
  the default close deletes the thread, which `opencode-codex-delegate/README.md:38`
  calls persistent.
* **Provider, deleted and disposed.** A run after `session.deleted` may resume a
  thread while its old runtime is closing. A call that waits for a seat with
  another configuration attaches after `dispose()` has gathered what it closes, and
  `closeAll()` misses it (`opencode-codex-delegate/README.md:114`).
* **Provider, continuing.** After a resume a seat sends only the latest prompt, even
  if no turn of its thread ever completed; a call that waits for an opening fails
  with the opener's error; two sessions may adopt one record that has no session.
* **Side questions, limit.** The limit is counted before the child is created
  (`runner.ts:248`), so that more questions run than `concurrency` allows
  (`opencode-btw/README.md:70`); follow-ups are not counted.
* **Side questions, children.** Two first `--thread` questions leave the first
  child behind (`runner.ts:164`), and so do a child that is gone (`:155`), a new
  thread that fails beside another (`:170`), deletions that fail, a disposal, which
  skips the children of threads (`:134`), and every `askSide()`.
* **Side questions, history.** An answer that arrives after `session.deleted` enters
  the history again.
* **Fleet, budget.** A plan with more tasks than workers exceeds the budget, and the
  lead never synthesizes (`collaborate.ts:225`, `budget.ts:21`;
  `opencode-multimodel/README.md:168`).
* **Fleet, lanes.** `parallel` of a script leaves calls running after the run has
  failed, stray lanes take further calls (`concurrency.ts:18`), and their end is
  published over a run that was resumed meanwhile. An aborted module ends while
  prompts of other lanes still return.
* **Fleet, sessions.** Two calls of one member side by side create two child
  sessions; a session of a member that is not isolated serves every run of its
  parent, so that cancelling one run aborts the other's prompt (`opencode.ts:576`,
  `:246`); cleanup removes the worktree of a call that runs (`:292`, `:342`).
* **Fleet, restart from an agent.** In a module with `log()` or fallback steps the
  index of a step is not that of a call (`orchestration.ts:250`).
* **Connections, overlapping logins.** A second `connect()` displaces the first
  login's app-server, which nobody closes, and the first timer ends the second
  login early; an error of one closes the login of the other. A transport that a
  probe, connect or creation is still opening is missed by `closeAll()`
  (`opencode-codex-delegate/README.md:114`).
* **Connections, exec turns.** A turn that times out and still exits with 0 is
  completed; one whose descendant holds its pipes outlasts every deadline
  (`process.ts:58`).
* **Connections, transport.** An answer in the pipe is lost when the exit is noticed
  first; `request()` throws at once where its callers expect a rejection.
