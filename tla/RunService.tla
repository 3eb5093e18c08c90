----------------------------- MODULE RunService -----------------------------
(***************************************************************************)
(* One declarative workflow run under RunService                           *)
(* (packages/opencode-multimodel/src/orchestration.ts, workflow.ts): its   *)
(* row, its control word and its lease in the shared SQLite file           *)
(* (state.ts), the plugin processes that execute it, and the calls that    *)
(* start, resume, restart, pause, stop and dispose it.                     *)
(*                                                                         *)
(* An action is one transaction with the code around it.  The awaits of    *)
(* the store resolve within the turn of the event loop that made them, so  *)
(* a process takes no other event while one of its tasks is inside a turn; *)
(* other processes share only the file and interleave anywhere.  What the  *)
(* agents answer, and when, is external.                                   *)
(***************************************************************************)
EXTENDS DagRules

CONSTANTS
  Proc,       \* plugin processes, each booted once
  Task,       \* calls of start, resume and restartAgent, numbered as they are made
  None,       \* no process
  Misnamed,   \* steps that name their member by its model, see Take
  Synthesize, \* the definition asks for a synthesis
  MaxEvents   \* bound on the halts, aborts, disposals and leases an executing owner loses

ASSUME RunAssumption ==
  /\ Task \subseteq Nat
  /\ None \notin Proc
  /\ Misnamed \subseteq Step
  /\ Synthesize \in BOOLEAN
  /\ MaxEvents \in Nat

VARIABLES
  row,      \* the run's row and its steps
  control,  \* its control column
  lease,    \* its row in leases
  up,       \* per process
  task,
  events,   \* how many of the bounded events have happened
  lapsed,   \* history: processes at work whose lease expired
  strayed,  \* history: living processes where a lane outlived its run
  swept     \* history: what made executions give up on steps

vars == <<row, control, lease, up, task, events, lapsed, strayed, swept>>
history == <<events, lapsed, strayed, swept>>

Final == {"completed", "failed", "cancelled", "stopped"}
InFlight == {"pending", "running", "paused"}
RunStatus == InFlight \cup Final \cup {"interrupted"}
Reason == {"stopped", "cancelled", "disposed", "timeout"}
Run == [status : RunStatus \cup {"absent"}, steps : Steps]
Absent == [status |-> "absent", steps |-> Fresh]
NoLease == [owner |-> None, live |-> FALSE]

\* A call waits at pc in process at.  base is the run object it was given, run the
\* copy runWorkflow works on; todo are the ready steps no lane has taken, calls the
\* steps an agent works for, lanes the lanes of mapLimit that have not thrown;
\* reason is what aborted its controller, asleep whether it waits out a pause.
Pc == {"idle", "restarting", "resuming", "claiming", "rerunning", "start", "routing",
       "routed", "entering", "level", "working", "synth", "synthesizing", "finishing",
       "failing", "cancelling", "returned", "rejecting", "done"}
Origin == {"started", "resumed"}
Idle == [pc |-> "idle", at |-> None, origin |-> "resumed", base |-> Absent, run |-> Absent,
         todo |-> {}, calls |-> {}, lanes |-> 0, reason |-> "none", asleep |-> FALSE]
\* What is left of a call once nothing of it goes on.
Over == [Idle EXCEPT !.pc = "done"]
Local == [pc : Pc, at : Proc \cup {None}, origin : Origin, base : Run, run : Run,
          todo : SUBSET Step, calls : SUBSET Step, lanes : 0..Width,
          reason : Reason \cup {"none"}, asleep : BOOLEAN]

Init ==
  /\ row = Absent
  /\ control = "run"
  /\ lease = NoLease
  /\ up = [p \in Proc |-> "new"]
  /\ task = [e \in Task |-> Idle]
  /\ lapsed = {}
  /\ strayed = {}
  /\ swept = "nothing"
  /\ events = 0

----------------------------------------------------------------------------
(* Processes, and whose turn it is.                                         *)

Alive(p) == p \in Proc /\ up[p] \in {"up", "disposing"}

\* this.active has an entry for the run.
Executing == {"start", "routing", "routed", "entering", "level", "working", "synth",
              "synthesizing", "finishing", "failing", "cancelling", "returned", "rejecting"}
Active(e) == task[e].pc \in Executing /\ Alive(task[e].at)
ActiveAt(p) == \E e \in Task : task[e].at = p /\ Active(e)

\* A lane is free for the next step: mapLimit goes on with it, even when another
\* lane has thrown and the run is over.
LaneFree(e) == task[e].todo # {} /\ Cardinality(task[e].calls) < task[e].lanes

\* The task goes on without waiting for an event.
InTurn(e) ==
  \/ task[e].pc \in {"restarting", "resuming", "claiming", "rerunning", "routed", "entering",
                     "finishing", "failing", "returned", "rejecting"}
  \/ task[e].pc \in {"start", "level", "synth"} /\ ~task[e].asleep
  \/ task[e].pc = "working" /\ task[e].todo = {} /\ task[e].calls = {}
  \/ LaneFree(e)

Free(p) == Alive(p) /\ \A e \in Task : task[e].at = p => ~InTurn(e)
Runs(e) == Alive(task[e].at) /\ (InTurn(e) \/ Free(task[e].at))

\* A call is made in a process that has not been disposed.
Callable(p) == up[p] = "up" /\ Free(p)
NextCall(e) == task[e].pc = "idle" /\ \A f \in Task : task[f].pc = "idle" => e <= f

\* A bounded event, and what is remembered of executions that give up on steps.
Event == events < MaxEvents /\ events' = events + 1
Swept(reason) == IF reason = "disposed" /\ swept # "other" THEN "disposal" ELSE "other"

----------------------------------------------------------------------------
(* The lease and the row (state.ts).                                        *)

\* tryAcquireLeaseSync.  Mutant: the comparison with expires_at turned round.
MutMayAcquire(p) == lease.owner \in {None, p} \/ lease.live
MayAcquire(p) == lease.owner \in {None, p} \/ ~lease.live
Held(p) == [owner |-> p, live |-> TRUE]

\* Mutant: a run that is not live is saved whoever has the lease.
MutMaySave(p, snapshot) == snapshot.status \in {"running", "paused"} => MayAcquire(p)

\* saveRun: a live run needs the lease, any other only that no other has one.
MaySave(p, snapshot) ==
  IF snapshot.status \in {"running", "paused"}
  THEN MayAcquire(p)
  ELSE lease.owner \in {None, p}
\* saveRun's effect on the lease: acquired, or released with the end of the run.
LeaseAfter(p, snapshot) ==
  IF snapshot.status \in {"running", "paused"} THEN Held(p)
  ELSE IF lease.owner = p /\ snapshot.status # "pending" THEN NoLease
  ELSE lease
Save(p, snapshot) ==
  /\ MaySave(p, snapshot)
  /\ row' = snapshot
  /\ lease' = LeaseAfter(p, snapshot)
Refuse(p, snapshot) ==
  /\ ~MaySave(p, snapshot)
  /\ UNCHANGED <<row, lease>>

\* The task saves a snapshot and goes on as one record or, when saveRun throws, as
\* another.
SaveThen(e, snapshot, saved, refused) ==
  \/ Save(task[e].at, snapshot) /\ task' = [task EXCEPT ![e] = saved]
  \/ Refuse(task[e].at, snapshot) /\ task' = [task EXCEPT ![e] = refused]

At(e, pc) == [task[e] EXCEPT !.pc = pc]
Became(e, pc) == task' = [task EXCEPT ![e].pc = pc]

\* The call is over, but for lanes that still go on.
Ended(e) == IF task[e].calls = {} THEN Over ELSE At(e, "done")
Ends(e) == task' = [task EXCEPT ![e] = Ended(e)]

----------------------------------------------------------------------------
(* Calls on the service.                                                    *)

\* startWorkflow: createRun inserts the row and takes its lease.  A second start
\* for the same message finds the row and changes nothing.
StartWorkflow(e, p) ==
  /\ NextCall(e) /\ row.status = "absent"
  /\ row' = [status |-> "pending", steps |-> Fresh]
  /\ lease' = Held(p)
  /\ task' = [task EXCEPT ![e] = [Idle EXCEPT !.pc = "start", !.at = p, !.origin = "started",
                                              !.base = row']]
  /\ UNCHANGED <<control, up, history>>

\* resume of a run this process executes.
ResumeActive(p) ==
  /\ ActiveAt(p)
  /\ control' = "run"
  /\ UNCHANGED <<row, lease, up, task, history>>

\* resume of any other run reads the row first ...
Resume(e, p) ==
  /\ NextCall(e) /\ row.status # "absent" /\ ~ActiveAt(p)
  /\ task' = [task EXCEPT ![e] = [Idle EXCEPT !.pc = "claiming", !.at = p, !.base = row]]
  /\ UNCHANGED <<row, control, lease, up, history>>

\* ... then claims the lease ...
Claim(e) ==
  /\ task[e].pc = "claiming"
  /\ \/ MayAcquire(task[e].at) /\ lease' = Held(task[e].at) /\ Became(e, "rerunning")
     \/ ~MayAcquire(task[e].at) /\ UNCHANGED lease /\ Ends(e)
  /\ UNCHANGED <<row, control, up, history>>

\* ... then lets the run run, and executes what it read, unless the definition has
\* lost a step the row records.
Rerun(e) ==
  /\ task[e].pc = "rerunning"
  /\ control' = "run"
  /\ Became(e, "start") \/ Ends(e)
  /\ UNCHANGED <<row, lease, up, history>>

\* Mutant: the steps that follow keep what they recorded.
MutRestartAgent(e, p, s) ==
  /\ NextCall(e) /\ row.status # "absent" /\ ~ActiveAt(p)
  /\ task' = [task EXCEPT ![e] =
       [Idle EXCEPT !.pc = "restarting", !.at = p,
                    !.base = [status |-> "interrupted",
                              steps |-> Mark(row.steps, {s}, "pending")]]]
  /\ UNCHANGED <<row, control, lease, up, history>>

\* restartAgent: the step and all that follow it in the definition are pending
\* again, the run interrupted.
RestartAgent(e, p, s) ==
  /\ NextCall(e) /\ row.status # "absent" /\ ~ActiveAt(p)
  /\ task' = [task EXCEPT ![e] =
       [Idle EXCEPT !.pc = "restarting", !.at = p,
                    !.base = [status |-> "interrupted",
                              steps |-> Mark(row.steps, s..N, "pending")]]]
  /\ UNCHANGED <<row, control, lease, up, history>>

RestartSave(e) ==
  /\ task[e].pc = "restarting"
  /\ SaveThen(e, task[e].base, At(e, "resuming"), Over)
  /\ UNCHANGED <<control, up, history>>

\* It ends in resume, which reads the row again.
RestartResume(e) ==
  /\ task[e].pc = "resuming"
  /\ task' = [task EXCEPT ![e].pc = "claiming", ![e].base = row]
  /\ UNCHANGED <<row, control, lease, up, history>>

Pause(p) ==
  /\ row.status # "absent"
  /\ control' = "pause"
  /\ UNCHANGED <<row, lease, up, task, history>>

\* The controllers of the given tasks abort, unless they have.
Abort(es, reason) ==
  LET aborted == {e \in es : task[e].reason = "none"} IN
    /\ task' = [e \in Task |-> IF e \in aborted THEN [task[e] EXCEPT !.reason = reason]
                               ELSE task[e]]
    /\ swept' = IF aborted = {} THEN swept ELSE Swept(reason)
    /\ Event
    /\ UNCHANGED <<lapsed, strayed>>
ActiveTasks(p) == {e \in Task : task[e].at = p /\ Active(e)}

\* stop and cancel.
Halt(p, reason) ==
  /\ row.status # "absent"
  /\ control' = "stop"
  /\ Abort(ActiveTasks(p), reason)
  /\ UNCHANGED <<row, lease, up>>

\* The signal of a start, and the wall-clock budget of any execution, which a pause
\* suspends.
CallerAbort(e) ==
  /\ Active(e) /\ Free(task[e].at) /\ task[e].origin = "started" /\ task[e].reason = "none"
  /\ Abort({e}, "cancelled")
  /\ UNCHANGED <<row, control, lease, up>>
Timeout(e) ==
  /\ Active(e) /\ Free(task[e].at) /\ ~task[e].asleep /\ task[e].reason = "none"
  /\ Abort({e}, "timeout")
  /\ UNCHANGED <<row, control, lease, up>>

----------------------------------------------------------------------------
(* Processes and leases.                                                    *)

\* A process boots: StateStore.initialize marks what no live lease covers.
Boot(p) ==
  /\ up[p] = "new"
  /\ up' = [up EXCEPT ![p] = "up"]
  /\ row' = IF row.status \in InFlight /\ ~lease.live
            THEN [status |-> "interrupted",
                  steps |-> Mark(row.steps, {s \in Step : row.steps[s] = "running"},
                                 "interrupted")]
            ELSE row
  /\ lease' = IF lease.live THEN lease ELSE NoLease
  /\ UNCHANGED <<control, task, history>>

\* Nothing goes on in a process that is over.
Leave(p) ==
  /\ task' = [e \in Task |-> IF task[e].at = p THEN Over ELSE task[e]]
  /\ lapsed' = lapsed \ {p}
  /\ strayed' = strayed \ {p}
  /\ UNCHANGED swept

Crash(p) ==
  /\ Alive(p)
  /\ up' = [up EXCEPT ![p] = "gone"]
  /\ Leave(p)
  /\ UNCHANGED <<row, control, lease, events>>

\* dispose aborts what the process executes and ends the heartbeats ...
Dispose(p) ==
  /\ up' = [up EXCEPT ![p] = "disposing"]
  /\ Abort(ActiveTasks(p), "disposed")
  /\ UNCHANGED <<row, control, lease>>

\* ... waits for it, releases the leases and closes the store.
Disposed(p) ==
  /\ up[p] = "disposing" /\ Free(p) /\ ~ActiveAt(p)
  /\ up' = [up EXCEPT ![p] = "gone"]
  /\ lease' = IF lease.owner = p THEN NoLease ELSE lease
  /\ Leave(p)
  /\ UNCHANGED <<row, control, events>>

\* Sixty seconds pass without a heartbeat: the owner is gone, or does nothing about the
\* run, or is slow.
Slow == {p \in {lease.owner} : Alive(p) /\ \E e \in Task : task[e].at = p /\ task[e].pc # "done"}
Expire ==
  /\ lease.live
  /\ lease' = [lease EXCEPT !.live = FALSE]
  /\ lapsed' = lapsed \cup Slow
  /\ IF Slow # {} THEN Event ELSE UNCHANGED events
  /\ UNCHANGED <<row, control, up, task, strayed, swept>>

\* The heartbeat of an execution.
Renew(p) ==
  /\ ActiveAt(p)
  /\ MayAcquire(p)
  /\ lease' = Held(p)
  /\ UNCHANGED <<row, control, up, task, history>>

----------------------------------------------------------------------------
(* The gate: waitUntilRunnable.                                             *)

AtGate(e) == task[e].pc \in {"start", "level", "synth"}

\* The object the gate is given: the run itself before it starts, later a copy,
\* which alone says that the run is paused.
Gated(e) ==
  IF task[e].pc = "start" THEN task[e].base
  ELSE [task[e].run EXCEPT !.status = IF task[e].asleep THEN "paused" ELSE "running"]

\* Where the execution goes when the gate throws, and the throw itself.
Thrown(e) == IF task[e].pc = "start" THEN "rejecting" ELSE "failing"
Throw(e) == [task[e] EXCEPT !.pc = Thrown(e), !.asleep = FALSE]

\* The controller is aborted, or the control word says stop, which aborts it.
GateHalt(e) ==
  /\ AtGate(e)
  /\ task[e].reason # "none" \/ control = "stop"
  /\ task' = [task EXCEPT ![e] =
       [Throw(e) EXCEPT !.reason = IF @ = "none" THEN "stopped" ELSE @]]
  /\ swept' = IF task[e].reason = "none" THEN "other" ELSE swept
  /\ UNCHANGED <<row, control, lease, up, events, lapsed, strayed>>

\* The task's record with the gated object's status.
Status(e, status) ==
  IF task[e].pc = "start" THEN [task[e] EXCEPT !.base.status = status] ELSE task[e]

GatePause(e) ==
  /\ AtGate(e) /\ task[e].reason = "none" /\ control = "pause"
  /\ IF Gated(e).status = "paused"
     THEN task' = [task EXCEPT ![e].asleep = TRUE] /\ UNCHANGED <<row, lease>>
     ELSE SaveThen(e, [Gated(e) EXCEPT !.status = "paused"],
                   [Status(e, "paused") EXCEPT !.asleep = TRUE],
                   [Status(e, "paused") EXCEPT !.pc = Thrown(e)])
  /\ UNCHANGED <<control, up, history>>

\* What an open gate leads to.  A start may have the lead route the steps that name
\* no member; a resumed definition names one for each.
Level(e) ==
  LET st == CancelBlocked(task[e].run.steps)
      ready == Ready(st)
  IN IF ready = {} /\ Pending(st) # {}
     THEN [Throw(e) EXCEPT !.run.steps = st]
     ELSE [task[e] EXCEPT !.pc = "working", !.asleep = FALSE, !.run.steps = st, !.todo = ready,
                          !.lanes = IF Cardinality(ready) < Width THEN Cardinality(ready)
                                    ELSE Width]
Opened(e, pc) ==
  IF pc = "working" THEN Level(e)
  ELSE [task[e] EXCEPT !.pc = pc, !.asleep = FALSE,
          !.base.status = IF task[e].pc = "start" /\ @ \in {"pending", "paused"}
                          THEN "running" ELSE @]
Beyond(e) ==
  CASE task[e].pc = "level" -> {"working"}
    [] task[e].pc = "synth" -> {"synthesizing"}
    [] task[e].pc = "start" /\ task[e].origin = "resumed" -> {"routed"}
    [] task[e].pc = "start" /\ task[e].origin = "started" -> {"routing", "routed"}

GateOpen(e) ==
  /\ AtGate(e) /\ task[e].reason = "none" /\ control = "run"
  /\ \E pc \in Beyond(e) :
       IF Gated(e).status \in {"pending", "paused"}
       THEN SaveThen(e, [Gated(e) EXCEPT !.status = "running"], Opened(e, pc),
                     [Status(e, "running") EXCEPT !.pc = Thrown(e), !.asleep = FALSE])
       ELSE task' = [task EXCEPT ![e] = Opened(e, pc)] /\ UNCHANGED <<row, lease>>
  /\ UNCHANGED <<control, up, history>>

----------------------------------------------------------------------------
(* One execution: executeWorkflow and runWorkflow.                          *)

\* The lead's routing answer, or its failure, which is ignored.
Routed(e) ==
  /\ task[e].pc = "routing"
  /\ Became(e, "routed")
  /\ UNCHANGED <<row, control, lease, up, history>>

\* The assignment is saved with the status the run was read with.
SaveRouted(e) ==
  /\ task[e].pc = "routed"
  /\ SaveThen(e, task[e].base, At(e, "entering"), At(e, "rejecting"))
  /\ UNCHANGED <<control, up, history>>

\* The while of runWorkflow, and what follows it.
LoopPc(st) ==
  IF Pending(st) # {} THEN "level" ELSE IF Synthesize THEN "synth" ELSE "finishing"

Enter(e) ==
  /\ task[e].pc = "entering"
  /\ LET started == [status |-> "running", steps |-> Reset(task[e].base.steps)] IN
       SaveThen(e, started, [At(e, LoopPc(started.steps)) EXCEPT !.run = started],
                At(e, "rejecting"))
  /\ UNCHANGED <<control, up, history>>

\* The record when a lane throws: the first to throw ends the level, the others go on.
LaneDies(e) ==
  [task[e] EXCEPT !.lanes = @ - 1, !.pc = IF @ = "working" THEN "failing" ELSE @]

\* A lane takes the next ready step: executeStep up to the agent's call.  A member's
\* model stands for it in assignFleetToWorkflow as long as the fleet has it, but
\* workflowMember does not know it and throws.  After an abort the agent is not called.
Take(e) ==
  /\ LaneFree(e)
  /\ \E s \in task[e].todo : \E seated \in BOOLEAN :
       /\ \A t \in task[e].todo : s <= t
       /\ seated \/ s \in Misnamed
       /\ LET status == IF task[e].reason # "none" /\ seated THEN "cancelled" ELSE "running"
              run == [task[e].run EXCEPT !.steps[s] = status]
              todo == task[e].todo \ {s}
          IN SaveThen(e, run,
               IF ~seated THEN [LaneDies(e) EXCEPT !.run = run, !.todo = todo]
               ELSE [task[e] EXCEPT !.run = run, !.todo = todo,
                       !.calls = IF status = "running" THEN @ \cup {s} ELSE @],
               [LaneDies(e) EXCEPT !.run = run, !.todo = todo])
  /\ UNCHANGED <<control, up, history>>

\* An agent's call ends, with a result or with an error: a refusal, the end of the
\* seat's time, or an abort.  A result that cannot be saved counts as an error.
Reply(e, s, result) ==
  /\ s \in task[e].calls
  /\ LET error == IF task[e].reason # "none" THEN "cancelled" ELSE "failed"
         calls == task[e].calls \ {s}
         With(status) == [task[e].run EXCEPT !.steps[s] = status]
         run == With(IF result THEN "completed" ELSE error)
     IN SaveThen(e, run, [task[e] EXCEPT !.run = run, !.calls = calls],
                 [LaneDies(e) EXCEPT !.run = With(error), !.calls = calls])
  /\ UNCHANGED <<control, up, history>>

\* Every lane has returned.
EndLevel(e) ==
  /\ task[e].pc = "working" /\ task[e].todo = {} /\ task[e].calls = {}
  /\ LET st == task[e].run.steps
         failed == [status |-> "failed", steps |-> Mark(st, Pending(st), "cancelled")]
     IN IF task[e].reason = "none" /\ HardFailure(st)
        THEN /\ SaveThen(e, failed, [At(e, "returned") EXCEPT !.run = failed],
                         [At(e, "failing") EXCEPT !.run = failed])
             /\ swept' = "other"
        ELSE /\ Became(e, IF task[e].reason # "none" THEN "failing" ELSE LoopPc(st))
             /\ UNCHANGED <<row, lease, swept>>
  /\ UNCHANGED <<control, up, events, lapsed, strayed>>

\* The lead's synthesis.
Synthesized(e, result) ==
  /\ task[e].pc = "synthesizing"
  /\ IF result
     THEN SaveThen(e, task[e].run, At(e, "finishing"), At(e, "failing"))
     ELSE Became(e, "failing") /\ UNCHANGED <<row, lease>>
  /\ UNCHANGED <<control, up, history>>

Finish(e) ==
  /\ task[e].pc = "finishing"
  /\ LET run == [task[e].run EXCEPT !.status = IF HardFailure(task[e].run.steps)
                                                   THEN "failed" ELSE "completed"]
     IN SaveThen(e, run, [At(e, "returned") EXCEPT !.run = run],
                 [At(e, "failing") EXCEPT !.run = run])
  /\ UNCHANGED <<control, up, history>>

\* The catch of runWorkflow, once the lanes that could still go on have called
\* their agents.
Fail(e) ==
  /\ task[e].pc = "failing" /\ ~LaneFree(e)
  /\ LET aborted == task[e].reason # "none"
         st == task[e].run.steps
         run == [status |-> IF aborted THEN "cancelled" ELSE "failed",
                 steps |-> Mark(st, {s \in Step : st[s] \in {"pending", "running"}}, "cancelled")]
     IN /\ SaveThen(e, run, [At(e, IF aborted /\ task[e].calls # {} THEN "cancelling" ELSE "returned")
                                  EXCEPT !.run = run],
                    [At(e, "rejecting") EXCEPT !.run = run])
        /\ swept' = IF aborted THEN swept ELSE "other"
  /\ strayed' = IF task[e].calls = {} THEN strayed ELSE strayed \cup {task[e].at}
  /\ UNCHANGED <<control, up, events, lapsed>>

\* runner.cancel has aborted the agents of the lanes that are left.
Cancelled(e) ==
  /\ task[e].pc = "cancelling"
  /\ Became(e, "returned")
  /\ UNCHANGED <<row, control, lease, up, history>>

\* Mutant: the reason is recorded as it is.
MutAbortedStatus(reason) == IF reason = "disposed" THEN "interrupted" ELSE reason
AbortedStatus(reason) ==
  CASE reason = "stopped" -> "stopped"
    [] reason = "disposed" -> "interrupted"
    [] OTHER -> "cancelled"

\* runWorkflow has returned: a run that was aborted gets the status of what
\* aborted it.
Return(e) ==
  /\ task[e].pc = "returned"
  /\ IF task[e].reason # "none" /\ task[e].run.status = "cancelled"
     THEN LET run == [task[e].run EXCEPT !.status =
                        IF task[e].reason = "timeout" THEN "failed"
                        ELSE AbortedStatus(task[e].reason)]
          IN SaveThen(e, run, Ended(e),
                      [At(e, "rejecting") EXCEPT !.run = run])
     ELSE Ends(e) /\ UNCHANGED <<row, lease>>
  /\ UNCHANGED <<control, up, history>>

\* The catch of executeWorkflow, over the steps the execution was given.
Reject(e) ==
  /\ task[e].pc = "rejecting"
  /\ LET aborted == task[e].reason # "none"
         status == IF aborted THEN AbortedStatus(task[e].reason) ELSE "failed"
         base == [status |-> status, steps |-> Finalize(task[e].base.steps, status)]
     IN /\ SaveThen(e, base, Ended(e), Ended(e))
        /\ swept' = IF aborted THEN swept ELSE "other"
  /\ UNCHANGED <<control, up, events, lapsed, strayed>>

----------------------------------------------------------------------------

\* A call of the service in a process that has not been disposed, and its timers.
Calls(p) ==
  /\ Callable(p)
  /\ \/ \E e \in Task :
          \/ StartWorkflow(e, p) \/ Resume(e, p)
          \/ \E s \in Step : RestartAgent(e, p, s)
     \/ ResumeActive(p) \/ Pause(p)
     \/ \E reason \in {"stopped", "cancelled"} : Halt(p, reason)
     \/ Dispose(p) \/ Renew(p)

\* What the code does of its own, once the agents answer.
Executes(e) ==
  /\ Runs(e)
  /\ \/ Claim(e) \/ Rerun(e) \/ RestartSave(e) \/ RestartResume(e)
     \/ GateHalt(e) \/ GatePause(e) \/ GateOpen(e)
     \/ Routed(e) \/ SaveRouted(e) \/ Enter(e) \/ Take(e)
     \/ \E s \in Step, result \in BOOLEAN : Reply(e, s, result)
     \/ EndLevel(e)
     \/ \E result \in BOOLEAN : Synthesized(e, result)
     \/ Finish(e) \/ Fail(e) \/ Cancelled(e) \/ Return(e) \/ Reject(e)

Next ==
  \/ \E p \in Proc : Calls(p) \/ Boot(p) \/ Crash(p) \/ Disposed(p)
  \/ \E e \in Task : Executes(e) \/ CallerAbort(e) \/ Timeout(e)
  \/ Expire

Spec == Init /\ [][Next]_vars

----------------------------------------------------------------------------
(* Properties.                                                              *)

TypeOK ==
  /\ row \in Run
  /\ control \in {"run", "pause", "stop"}
  /\ lease \in [owner : Proc \cup {None}, live : BOOLEAN]
  /\ up \in [Proc -> {"new", "up", "disposing", "gone"}]
  /\ task \in [Task -> Local]
  /\ lapsed \subseteq Proc
  /\ strayed \subseteq Proc
  /\ swept \in {"nothing", "disposal", "other"}
  /\ events \in 0..MaxEvents

\* The execution has an agent at work.
Driving(e) ==
  /\ Alive(task[e].at)
  /\ \/ task[e].pc = "working" /\ task[e].calls # {}
     \/ task[e].pc \in {"routing", "synthesizing"}

\* While an agent works for an execution, its process holds the run's lease, so no
\* other process executes the run; unless its own heartbeats stopped for a minute or
\* a lane of an earlier run of its own went on past the end (saveRun, claimLease).
DrivesUnderLease ==
  \A e \in Task : Driving(e) /\ task[e].at \notin lapsed \cup strayed =>
    lease = Held(task[e].at)

\* Nobody else writes the row meanwhile: it holds what the execution holds, but for
\* steps just blocked, under the same two exceptions (saveRun, restartAgent, initialize).
RowIsDrivers ==
  \A e \in Task :
    /\ task[e].pc \in {"level", "working", "synth", "synthesizing", "finishing"}
    /\ task[e].at \notin lapsed \cup strayed
    => \A s \in Step : \/ row.steps[s] = task[e].run.steps[s]
                       \/ row.steps[s] = "pending" /\ task[e].run.steps[s] = "cancelled"

\* A step is under way or completed only on needs that are completed or whose
\* failure it may ignore, in the row and in every copy an execution works on, after
\* any crash, resume or restart of a step (runWorkflow's level, restartAgent's slice).
Met(st) ==
  \A s \in Step : st[s] \in {"running", "completed"} =>
    \A d \in Needs[s] : st[d] = "completed" \/ (st[d] \in Settled /\ d \in Tolerant)
NeedsMet ==
  Topological => Met(row.steps) /\ \A e \in Task : Met(task[e].base.steps) /\ Met(task[e].run.steps)

\* The level of an execution always has a step to start: "Workflow cannot make
\* progress" is never thrown, whatever statuses the run was resumed with.
NeverStuck ==
  \A e \in Task : task[e].pc = "level" =>
    LET st == CancelBlocked(task[e].run.steps) IN Pending(st) = {} \/ Ready(st) # {}

Done(st, s) == st[s] = "completed" \/ (st[s] = "failed" /\ s \in Tolerant)

\* A run recorded completed has carried out every step, whatever crashes, expired
\* leases, pauses, resumes and restarts of steps it went through, as long as no execution
\* gave up on steps (runWorkflow's reset, initialize, restartAgent's slice).
CompletedMeansDone ==
  Topological /\ row.status = "completed" /\ swept = "nothing" =>
    \A s \in Step : Done(row.steps, s)

\* What dispose leaves can be resumed: when an execution of a run that was left
\* interrupted, and that only disposals had cut short, records it completed, every
\* step was carried out (the comment in dispose).
DisposedRunsResume ==
  \A e \in Task :
    /\ task[e].pc = "returned" /\ task[e].base.status = "interrupted"
    /\ row.status = "completed" /\ swept # "other"
    => \A s \in Step : Done(row.steps, s)
=============================================================================
