------------------------------ MODULE FleetRun ------------------------------
(***************************************************************************)
(* The calls that a fleet run of packages/opencode-multimodel makes: the   *)
(* collaboration modes (collaborate.ts), confined scripts (script.ts) and  *)
(* authored modules (workflow-module.ts) over one OpenCodeAgentRunner      *)
(* (opencode.ts) and its tables of agent calls, child sessions and         *)
(* workspaces (state.ts).                                                  *)
(*                                                                         *)
(* A run is executed, and executed again when it is resumed or restarted   *)
(* from a step.  Its program is a sequence of calls in stages: mapLimit()  *)
(* makes the calls of a stage in lanes, and a stage follows the one        *)
(* before.  The store answers within a continuation; only OpenCode, timers *)
(* and the user are waited for, and they come when the process is Quiet.   *)
(***************************************************************************)
EXTENDS Naturals, Sequences, FiniteSets

CONSTANTS
  Run,          \* durable runs of one OpenCode session
  Lead,         \* the fleet's lead
  Worker,       \* its workers, in the fleet's order
  Isolated,     \* members with isolation "worktree"
  Mode,         \* kinds of run considered
  Tasks,        \* assignments a plan, a script or a module may make
  MaxParallel,  \* options.maxParallel
  AgentLimit,   \* calls a script or a module may make (64)
  None,         \* null
  Failure,      \* the text of an error
  MaxExec,      \* bound on executions
  MaxCrashes    \* bound on crashes of the process

Workers == {Worker[j] : j \in DOMAIN Worker}
Member == {Lead} \cup Workers
Exec == 1..MaxExec
CallRecord == [who : Member, stage : Nat, optional : BOOLEAN]

ASSUME FleetAssumption ==
  /\ Worker \in Seq(Workers) /\ Worker # <<>> /\ Lead \notin Workers /\ Isolated \subseteq Member
  /\ Mode \subseteq {"lead", "pair", "handoff", "round", "council", "orchestrate", "jury",
                     "pipeline", "parallel", "module"}
  /\ \A ts \in Tasks : ts \in Seq(Workers) /\ ts # <<>>
  /\ MaxParallel \in Nat \ {0} /\ AgentLimit \in Nat \ {0}
  /\ MaxExec \in Nat /\ MaxCrashes \in Nat
  /\ {None, Failure} \cap (Run \cup Member \cup Exec) = {} /\ None # Failure
  /\ None \notin [mode : Mode, calls : Seq(CallRecord)]

-----------------------------------------------------------------------------
(* Programs.                                                               *)

Call(m, s, optional) == [who |-> m, stage |-> s, optional |-> optional]
\* Mutant: an error of any call in a lane ends the run.
MutLanes(ms, s, optional) == [j \in DOMAIN ms |-> Call(ms[j], s, FALSE)]
\* Calls made in lanes, as stage s.
Lanes(ms, s, optional) == [j \in DOMAIN ms |-> Call(ms[j], s, optional)]
\* Calls made one after the other, from stage s on: an error ends the run.
InTurn(ms, s) == [j \in DOMAIN ms |-> Call(ms[j], s + j - 1, FALSE)]

\* The calls of a run of each mode.  An optional call that fails leaves an error text
\* (collaborate.ts) or null (modules) in place of its reply.
Programs(mode) ==
  CASE mode = "lead"        -> {InTurn(<<Lead>>, 1)}
    [] mode = "pair"        -> {InTurn(<<Lead, Worker[1], Lead>>, 1)}
    [] mode = "handoff"     -> {InTurn(<<Lead, w, Lead>>, 1) : w \in Workers}
    [] mode = "round"       -> {InTurn(<<Lead>> \o Worker, 1)}
    [] mode = "council"     -> {Lanes(Worker, 1, TRUE) \o InTurn(<<Lead>>, 2)}
    [] mode = "jury"        -> {Lanes(Worker, 1, TRUE) \o InTurn(<<Lead>>, 2),
                                Lanes(Worker, 1, TRUE) \o Lanes(Worker, 2, TRUE)
                                  \o InTurn(<<Lead>>, 3)}
    [] mode = "orchestrate" -> {InTurn(<<Lead>>, 1) \o Lanes(ts, 2, TRUE) \o InTurn(<<Lead>>, 3)
                                  : ts \in Tasks \cup {<<>>}}
    [] mode = "pipeline"    -> {InTurn(ts, 1) : ts \in Tasks}
    [] mode = "parallel"    -> {Lanes(ts, 1, FALSE) : ts \in Tasks}
    [] mode = "module"      -> {Lanes(ts, 1, TRUE) : ts \in Tasks}

\* Scripts and modules wait before a call for the run to be runnable.
Authored(mode) == mode \in {"pipeline", "parallel", "module"}

\* defaultAgentBudget(), or the limit on the calls of a script or a module.
Budget(p) ==
  LET w == Len(Worker) IN
  CASE Authored(p.mode)             -> AgentLimit
    [] p.mode = "lead"              -> 1
    [] p.mode \in {"pair", "handoff"} -> 3
    [] p.mode = "orchestrate"       -> w + 2
    [] p.mode = "jury"              -> Len(p.calls)
    [] p.mode \in {"round", "council"} -> w + 1

VARIABLES
  prog,     \* each run's mode and calls
  rows,     \* agent_calls: the recorded calls of each run, by call index
  saved,    \* child_sessions
  kept,     \* workspaces that are not removed
  sessions, \* OpenCodeAgentRunner.sessions
  run,      \* the run each execution is of
  status,   \* what became of each execution
  item,     \* the calls of each execution
  count,    \* the agent calls each execution has counted
  aborted,  \* executions whose signal is aborted
  cleaning, \* workspaces that cleanupWorkspaces() has yet to remove
  crashes,  \* crashes so far
  prior     \* history: the recorded calls each execution found, but for those that a
            \* stray lane of an earlier one is at

vars == <<prog, rows, saved, kept, sessions, run, status, item, count, aborted, cleaning,
          crashes, prior>>

\* The places of calls in programs.
Position == UNION {DOMAIN calls : calls \in UNION {Programs(mode) : mode \in Mode}}
\* A child session, and its workspace if it has one, are named by the execution, the
\* call and the member that created them.
Session == Exec \X Position \X Member
\* sessionKey(): an isolated member has a session per run, others one for all runs.
Key == Member \X (Run \cup {None})

\* A call that is made, not replayed.
Asking == {"workspace", "creating", "prompting"}
InProgress == {"gate"} \cup Asking
Settled == {"done", "failed", "threw"}
\* A call that has returned, or died with the process: its variables are gone.
Over(it, at, out) ==
  [it EXCEPT !.at = at, !.out = out, !.tried = {}, !.session = None, !.told = FALSE]
New(m) == [at |-> "idle", who |-> m, tried |-> {m}, index |-> 0, session |-> None,
           told |-> FALSE, out |-> None]

Init ==
  /\ prog = [r \in Run |-> None]
  /\ rows = [r \in Run |-> <<>>]
  /\ saved = [k \in Key |-> None] /\ kept = {} /\ sessions = [k \in Key |-> None]
  /\ run = [e \in Exec |-> None] /\ status = [e \in Exec |-> "none"]
  /\ item = [e \in Exec |-> <<>>] /\ count = [e \in Exec |-> 0]
  /\ aborted = {} /\ cleaning = {} /\ crashes = 0
  /\ prior = [e \in Exec |-> <<>>]

At(e, i, place) == i \in DOMAIN item[e] /\ item[e][i].at = place
Program(e) == prog[run[e]]
Plan(e, i) == Program(e).calls[i]
Items(e) == DOMAIN item[e]
Collab(e) == ~Authored(Program(e).mode)

-----------------------------------------------------------------------------
(* mapLimit(): who may go on.                                              *)

Stage(e, i) == {j \in Items(e) : Plan(e, j).stage = Plan(e, i).stage}
Width(e, i) == IF Cardinality(Stage(e, i)) < MaxParallel THEN Cardinality(Stage(e, i)) ELSE MaxParallel

\* A lane takes the next call of its stage.  A call that throws ends its lane only: the
\* other lanes go on, though the stage, and with it the run, has failed.
CanTake(e, i) ==
  /\ At(e, i, "idle")
  /\ \A j \in 1..(i - 1) :
       IF j \in Stage(e, i) THEN item[e][j].at # "idle" ELSE item[e][j].at \in {"done", "failed"}
  /\ Cardinality({j \in Stage(e, i) : item[e][j].at \in InProgress \cup {"threw"}}) < Width(e, i)

Threw(e) == \E i \in Items(e) : item[e][i].at = "threw"
CanEnd(e) ==
  /\ status[e] = "running"
  /\ Threw(e) \/ \A i \in Items(e) : item[e][i].at \in Settled
Quiet == \A e \in Exec : ~CanEnd(e) /\ \A i \in Items(e) : ~CanTake(e, i)

-----------------------------------------------------------------------------
(* OpenCodeAgentRunner.run().                                              *)

\* Mutant: the session of an isolated member is found by any run.
MutKeyOf(e, m) == <<m, None>>
KeyOf(e, m) == IF m \in Isolated THEN <<m, run[e]>> ELSE <<m, None>>
Known(k) == IF sessions[k] # None THEN sessions[k] ELSE saved[k]

\* What the prompt of a call quotes: the replies of the stages before.
Quotes(e, i) ==
  [j \in {j \in Items(e) : Plan(e, j).stage < Plan(e, i).stage} |-> item[e][j].out]
Prompt(e, i) == <<i, Quotes(e, i)>>

\* Mutant: the prefix is taken one call too long.
MutPrefix(k) == 1..(k + 1)
Prefix(k) == 1..k
\* Mutant: the recorded prompt is not compared.
MutSame(e, i, row) == row.who = item[e][i].who
Same(e, i, row) == row.who = item[e][i].who /\ row.prompt = Prompt(e, i)
\* cached(): calls up to this one have completed, and this one was the same.
Cached(e, i, k) ==
  LET calls == rows[run[e]] IN
  /\ k \in DOMAIN calls /\ Prefix(k) \subseteq DOMAIN calls
  /\ \A j \in Prefix(k) : calls[j].status = "completed"
  /\ Same(e, i, calls[k])

\* recordCall(): upsert the row of this call.
Recorded(e, i, it, state) ==
  [rows EXCEPT ![run[e]] =
     [k \in DOMAIN @ \cup {it.index} |->
        IF k = it.index
          THEN [who |-> it.who, prompt |-> Prompt(e, i), status |-> state,
                out |-> IF state = "completed" THEN e ELSE None]
          ELSE @[k]]]

\* What a call becomes when it fails: it ends the run, leaves an error, or, in a
\* module, is made again with a member that has not been tried.
Outcome(e, i, it) ==
  IF Program(e).mode = "module"
    THEN IF e \in aborted
           THEN {Over(it, "threw", Failure)}
           ELSE {Over(it, "failed", Failure)} \cup
                {[it EXCEPT !.at = "gate", !.who = m, !.tried = @ \cup {m}, !.told = FALSE,
                            !.session = None] : m \in Member \ it.tried}
    ELSE {Over(it, IF Plan(e, i).optional THEN "failed" ELSE "threw", Failure)}

\* Mutant: the signal is not looked at again before the prompt is sent.
MutRefused(e) == FALSE
\* The signal was aborted while the session was made: nobody has told the session.
Refused(e) == e \in aborted

\* The call has a session: it is recorded, and prompted unless it has been aborted.
Prompts(e, i, it) ==
  IF Refused(e)
    THEN /\ \E o \in Outcome(e, i, it) : item' = [item EXCEPT ![e][i] = o]
         /\ rows' = Recorded(e, i, it, "cancelled")
    ELSE /\ item' = [item EXCEPT ![e][i] = [it EXCEPT !.at = "prompting"]]
         /\ rows' = Recorded(e, i, it, "running")

\* run() as far as its first request.
Runs(e, i, k) ==
  LET it == [item[e][i] EXCEPT !.index = k]
      key == KeyOf(e, it.who) IN
  \/ /\ Cached(e, i, k)
     /\ item' = [item EXCEPT ![e][i] = Over(it, "done", rows[run[e]][k].out)]
     /\ UNCHANGED <<rows, sessions>>
  \/ /\ ~Cached(e, i, k) /\ Known(key) # None
     /\ sessions' = [sessions EXCEPT ![key] = Known(key)]
     /\ Prompts(e, i, [it EXCEPT !.session = Known(key)])
  \/ /\ ~Cached(e, i, k) /\ Known(key) = None
     /\ item' = [item EXCEPT ![e][i] =
                   [it EXCEPT !.at = IF it.who \in Isolated THEN "workspace" ELSE "creating"]]
     /\ UNCHANGED <<rows, sessions>>

-----------------------------------------------------------------------------
(* Executions.                                                             *)

\* deleteAgentCallsFrom(): what is left of the calls.
Truncated(calls, n) == {k \in DOMAIN calls : k < n}

\* A lane of an execution of r that is over makes call k and has yet to record its end.
Strays(r, k) ==
  \E d \in Exec : run[d] = r /\ \E i \in Items(d) :
    item[d][i].index = k /\ item[d][i].at \in Asking

\* A run is started, or resumed whatever became of it, or restarted from step n.
Starts(e, r) ==
  /\ Quiet
  /\ status[e] = "none" /\ \A d \in 1..(e - 1) : status[d] # "none"
  /\ \A d \in Exec : run[d] = r => status[d] # "running"
  /\ IF prog[r] = None
       THEN /\ \E mode \in Mode : \E calls \in Programs(mode) :
                 prog' = [prog EXCEPT ![r] = [mode |-> mode, calls |-> calls]]
            /\ UNCHANGED rows
       ELSE /\ \E n \in 1..(Len(prog[r].calls) + 1) :
                 rows' = [rows EXCEPT ![r] = [k \in Truncated(@, n) |-> @[k]]]
            /\ UNCHANGED prog
  /\ prior' = [prior EXCEPT ![e] =
       [k \in {k \in DOMAIN rows'[r] : ~Strays(r, k)} |-> rows'[r][k]]]
  /\ run' = [run EXCEPT ![e] = r]
  /\ status' = [status EXCEPT ![e] = "running"]
  /\ item' = [item EXCEPT ![e] = [i \in DOMAIN prog'[r].calls |-> New(prog'[r].calls[i].who)]]
  /\ UNCHANGED <<saved, kept, sessions, count, aborted, cleaning, crashes>>

Spent(e, n) == n > Budget(Program(e))

\* invoke(), evaluate() and agent() look at the signal; but for a module the budget
\* is spent next.
Takes(e, i) ==
  LET p == Program(e)
      failed == IF p.mode = "module" \/ ~Plan(e, i).optional THEN "threw" ELSE "failed" IN
  /\ CanTake(e, i)
  /\ \/ /\ e \in aborted \/ (p.mode # "module" /\ Spent(e, i))
        /\ item' = [item EXCEPT ![e][i] = Over(@, failed, Failure)]
        /\ UNCHANGED <<rows, sessions, count>>
     \/ /\ e \notin aborted /\ (p.mode = "module" \/ ~Spent(e, i))
        /\ IF Authored(p.mode)
             THEN /\ item' = [item EXCEPT ![e][i].at = "gate"]
                  /\ UNCHANGED <<rows, sessions>>
             ELSE Runs(e, i, i)
        /\ count' = [count EXCEPT ![e] = IF p.mode = "module" THEN @ ELSE i]
  /\ UNCHANGED <<prog, saved, kept, run, status, aborted, cleaning, crashes, prior>>

\* Mutant: the index of a call is one too low.
MutNextIndex(e) == count[e]
\* The index of the next call that a module makes.
NextIndex(e) == count[e] + 1

\* beforeStep() returns: the run is runnable.  A module counts the call now.
Passes(e, i) ==
  LET module == Program(e).mode = "module"
      k == IF module THEN NextIndex(e) ELSE i IN
  /\ At(e, i, "gate") /\ Quiet
  /\ IF e \in aborted \/ (module /\ Spent(e, k))
       THEN /\ \E o \in Outcome(e, i, item[e][i]) : item' = [item EXCEPT ![e][i] = o]
            /\ UNCHANGED <<rows, sessions, count>>
       ELSE /\ Runs(e, i, k)
            /\ count' = [count EXCEPT ![e] = IF module THEN k ELSE @]
  /\ UNCHANGED <<prog, saved, kept, run, status, aborted, cleaning, crashes, prior>>

\* createWorkspace(): the worktree is there.
WorkspaceCreated(e, i) ==
  /\ At(e, i, "workspace") /\ Quiet
  /\ item' = [item EXCEPT ![e][i].at = "creating"]
  /\ kept' = kept \cup {<<e, i, item[e][i].who>>}
  /\ UNCHANGED <<prog, rows, saved, sessions, run, status, count, aborted, cleaning, crashes,
                 prior>>

SessionCreated(e, i) ==
  LET s == <<e, i, item[e][i].who>>
      key == KeyOf(e, item[e][i].who) IN
  /\ At(e, i, "creating") /\ Quiet
  /\ sessions' = [sessions EXCEPT ![key] = s]
  /\ saved' = [saved EXCEPT ![key] = s]
  /\ Prompts(e, i, [item[e][i] EXCEPT !.session = s])
  /\ UNCHANGED <<prog, kept, run, status, count, aborted, cleaning, crashes, prior>>

\* Nothing falls back to the shared checkout: the call fails.
CreationFails(e, i) ==
  /\ At(e, i, "workspace") \/ At(e, i, "creating")
  /\ Quiet
  /\ \E o \in Outcome(e, i, item[e][i]) : item' = [item EXCEPT ![e][i] = o]
  /\ UNCHANGED <<prog, rows, saved, kept, sessions, run, status, count, aborted, cleaning,
                 crashes, prior>>

Answers(e, i) ==
  /\ At(e, i, "prompting") /\ Quiet
  /\ item' = [item EXCEPT ![e][i] = Over(@, "done", e)]
  /\ rows' = Recorded(e, i, item[e][i], "completed")
  /\ UNCHANGED <<prog, saved, kept, sessions, run, status, count, aborted, cleaning, crashes,
                 prior>>

\* An error, an answer without text, or an abort of the session.
PromptFails(e, i) ==
  /\ At(e, i, "prompting") /\ Quiet
  /\ \E o \in Outcome(e, i, item[e][i]) : item' = [item EXCEPT ![e][i] = o]
  /\ rows' = Recorded(e, i, item[e][i], IF e \in aborted THEN "cancelled" ELSE "failed")
  /\ UNCHANGED <<prog, saved, kept, sessions, run, status, count, aborted, cleaning, crashes,
                 prior>>

-----------------------------------------------------------------------------
(* Aborts, ends, cleanup, crashes.                                         *)

Prompting(e) == {i \in Items(e) : item[e][i].at = "prompting"}
\* Mutant: sessions are not aborted.
MutTold(S) == item
\* session.abort() of each session in S tells whatever prompts it.
Told(S) ==
  [e \in Exec |-> [i \in Items(e) |->
     [item[e][i] EXCEPT !.told = @ \/ (i \in Prompting(e) /\ item[e][i].session \in S)]]]

\* The user cancels or stops the run, the plugin is disposed of, or time is up.
Aborts(e) ==
  /\ Quiet
  /\ status[e] # "none" /\ e \notin aborted
  /\ \E i \in Items(e) : item[e][i].at \in {"idle"} \cup InProgress
  /\ aborted' = aborted \cup {e}
  /\ item' = Told({item[e][i].session : i \in Prompting(e)})
  /\ UNCHANGED <<prog, rows, saved, kept, sessions, run, status, count, cleaning, crashes, prior>>

\* A seat of a module has its own timer.
SeatTimesOut(e, i) ==
  /\ At(e, i, "prompting") /\ Program(e).mode = "module" /\ ~item[e][i].told
  /\ Quiet
  /\ item' = Told({item[e][i].session})
  /\ UNCHANGED <<prog, rows, saved, kept, sessions, run, status, count, aborted, cleaning,
                 crashes, prior>>

\* A cancelled script or module also asks the runner to abort what the run has active.
Ends(e) ==
  LET cancelled == Threw(e) /\ e \in aborted IN
  /\ CanEnd(e)
  /\ status' = [status EXCEPT ![e] =
       IF cancelled THEN "cancelled" ELSE IF Threw(e) THEN "failed" ELSE "completed"]
  /\ item' = IF cancelled /\ ~Collab(e)
               THEN Told(UNION {{item[d][i].session : i \in Prompting(d)}
                                  : d \in {d \in Exec : run[d] = run[e]}})
               ELSE item
  /\ UNCHANGED <<prog, rows, saved, kept, sessions, run, count, aborted, cleaning, crashes, prior>>

\* cleanupWorkspaces(), of one run or of all, whether or not they are running.
Cleans ==
  /\ Quiet /\ cleaning = {} /\ kept # {}
  /\ \E R \in {Run} \cup {{r} : r \in Run} : cleaning' = {w \in kept : run[w[1]] \in R}
  /\ UNCHANGED <<prog, rows, saved, kept, sessions, run, status, item, count, aborted, crashes,
                 prior>>

\* Entries of the removed workspace.
Without(map, w) == [k \in Key |-> IF map[k] = w THEN None ELSE map[k]]

WorkspaceRemoved(w) ==
  /\ Quiet /\ w \in cleaning
  /\ cleaning' = cleaning \ {w} /\ kept' = kept \ {w}
  /\ saved' = [k \in Key |-> IF saved[k] = w THEN None ELSE saved[k]]
  /\ sessions' = Without(sessions, w)
  /\ UNCHANGED <<prog, rows, run, status, item, count, aborted, crashes, prior>>

\* One that cannot be removed ends the cleanup.
CleanupFails ==
  /\ Quiet /\ cleaning # {} /\ cleaning' = {}
  /\ UNCHANGED <<prog, rows, saved, kept, sessions, run, status, item, count, aborted, crashes,
                 prior>>

\* The process dies.  The tables stay.
Crashes ==
  /\ Quiet /\ crashes < MaxCrashes
  /\ crashes' = crashes + 1
  /\ status' = [e \in Exec |-> IF status[e] = "running" THEN "dead" ELSE status[e]]
  /\ item' = [e \in Exec |-> [i \in Items(e) |->
                IF item[e][i].at \in Settled THEN item[e][i]
                ELSE Over(item[e][i], "lost", None)]]
  /\ sessions' = [k \in Key |-> None] /\ cleaning' = {}
  /\ UNCHANGED <<prog, rows, saved, kept, run, count, aborted, prior>>

-----------------------------------------------------------------------------
Created(e, i) == WorkspaceCreated(e, i) \/ SessionCreated(e, i) \/ CreationFails(e, i)

Next ==
  \/ \E e \in Exec : Aborts(e) \/ Ends(e) \/ \E r \in Run : Starts(e, r)
  \/ \E e \in Exec, i \in Position :
       \/ Takes(e, i) \/ Passes(e, i) \/ Created(e, i) \/ Answers(e, i) \/ PromptFails(e, i)
       \/ SeatTimesOut(e, i)
  \/ Cleans \/ (\E w \in Session : WorkspaceRemoved(w)) \/ CleanupFails \/ Crashes

Spec == Init /\ [][Next]_vars

\* Continuations run, OpenCode answers requests to create, prompts whose session is
\* aborted return, and an aborted run does not stay paused.
Goes(e) == \E i \in Items(e) : Takes(e, i) \/ Created(e, i)
AbortedGoes(e) ==
  /\ e \in aborted
  /\ \E i \in Items(e) :
       Passes(e, i) \/ (item[e][i].told /\ (Answers(e, i) \/ PromptFails(e, i)))
FairSpec ==
  Spec /\ \A e \in Exec : WF_vars(Ends(e)) /\ WF_vars(Goes(e)) /\ WF_vars(AbortedGoes(e))

-----------------------------------------------------------------------------
(* Properties.                                                             *)

Reply == Exec \cup {None, Failure}
Statuses == {"none", "running", "completed", "failed", "cancelled", "dead"}
Item == [at : {"idle", "lost"} \cup InProgress \cup Settled, who : Member,
         tried : SUBSET Member, index : Nat, session : Session \cup {None},
         told : BOOLEAN, out : Reply]

\* Every variable keeps its type; no execution counts or records a call
\* beyond its budget.
TypeOK ==
  /\ \A r \in Run : prog[r] # None => prog[r].mode \in Mode /\ prog[r].calls \in Programs(prog[r].mode)
  /\ \A r \in Run : \A k \in DOMAIN rows[r] :
       /\ k \in 1..Budget(prog[r])
       /\ rows[r][k].status \in {"running", "completed", "failed", "cancelled"}
  /\ saved \in [Key -> Session \cup {None}] /\ sessions \in [Key -> Session \cup {None}]
  /\ kept \subseteq Session /\ cleaning \subseteq Session
  /\ run \in [Exec -> Run \cup {None}] /\ status \in [Exec -> Statuses]
  /\ \A e \in Exec : item[e] \in Seq(Item)
  /\ \A e \in Exec : run[e] # None => count[e] \in 0..Budget(Program(e))
  /\ aborted \subseteq Exec /\ crashes \in 0..MaxCrashes

\* Once an execution is aborted OpenCode has been told to abort every session one of
\* its prompts is in, wherever the abort found the call: nothing it has asked a model
\* goes on unnoticed.
AbortReaches ==
  \A e \in aborted : \A i \in Items(e) : item[e][i].at = "prompting" => item[e][i].told

\* The calls up to k have completed, each in answer to a prompt that quotes what is
\* recorded of the stages before.
Coherent(p, calls, k) ==
  \A j \in 1..k :
    /\ j \in DOMAIN calls /\ calls[j].status = "completed"
    /\ calls[j].prompt =
         <<j, [n \in {n \in DOMAIN p.calls : p.calls[n].stage < p.calls[j].stage} |->
                 calls[n].out]>>

\* A resumed run never asks again what the contiguous prefix of completed calls has
\* answered, though calls run in lanes and restarts, crashes and failures cut it: but
\* for a record that quotes a reply which a later execution has replaced.
KeepsPrefix ==
  \A e \in Exec : \A i \in Items(e) :
    /\ status[e] = "running" /\ Program(e).mode # "module"
    /\ item[e][i].at \in Asking
    => ~Coherent(Program(e), prior[e], i)

\* A reply that is reused answered the same prompt: what it quotes of earlier replies
\* is what the call that got it quoted.
ReplayMatches ==
  \A e \in Exec : \A i \in Items(e) :
    item[e][i].at = "done" /\ item[e][i].out # e
      => Quotes(item[e][i].out, i) = Quotes(e, i)

\* A collaboration that has ended - completed, failed or cancelled - leaves no call in
\* progress in any lane.
CollabEndsQuiet ==
  \A e \in Exec :
    status[e] \in {"completed", "failed", "cancelled"} /\ Collab(e)
      => \A i \in Items(e) : item[e][i].at \notin InProgress

\* A member is prompted in a session of its own, and an isolated one in a worktree made
\* for it by an execution of the same run, however sessions are reused across runs,
\* restarts and cleanups; and what the runner remembers of a session is what a restarted
\* process would find.
SessionsHold ==
  /\ \A e \in Exec : \A i \in Prompting(e) :
       LET s == item[e][i].session IN
       /\ s[3] = item[e][i].who
       /\ item[e][i].who \in Isolated => run[s[1]] = run[e]
  /\ \A k \in Key : sessions[k] \in {None, saved[k]}

\* An aborted execution ends.
AbortEnds == \A e \in Exec : e \in aborted ~> status[e] # "running"

=============================================================================
