------------------------------ MODULE DagRules ------------------------------
(***************************************************************************)
(* The decisions runWorkflow takes over the recorded steps of a            *)
(* declarative workflow (packages/opencode-multimodel/src/workflow.ts):    *)
(* which steps a run resets, which it blocks, which it may start, and what *)
(* the end of a level means for the run.                                   *)
(***************************************************************************)
EXTENDS Integers, FiniteSets

CONSTANTS
  N,         \* number of steps
  Needs,     \* the steps each step needs
  Tolerant,  \* the steps that declare continueOnError
  Width      \* maxParallel, after its clamping

\* Steps are numbered in the order of the definition.
Step == 1..N

\* What validateWorkflow lets through: the steps that need each other form no
\* cycle, so the steps can be ranked.
ASSUME DagAssumption ==
  /\ N \in Nat \ {0}
  /\ Needs \in [Step -> SUBSET Step]
  /\ Tolerant \subseteq Step
  /\ Width \in Nat \ {0}
  /\ \E rank \in [Step -> Step] :
       \A s \in Step : \A d \in Needs[s] : rank[d] < rank[s]

\* The definition lists every step after the steps it needs.
Topological == \A s \in Step : \A d \in Needs[s] : d < s

StepStatus == {"pending", "running", "completed", "failed", "cancelled", "interrupted"}
Steps == [Step -> StepStatus]
Settled == {"completed", "failed", "cancelled"}

Fresh == [s \in Step |-> "pending"]

\* Mutants: what a boot marked, or what was running, is taken for settled.
MutResetRunning(st) == [s \in Step |-> IF st[s] = "running" THEN "pending" ELSE st[s]]
MutResetMarked(st) == [s \in Step |-> IF st[s] = "interrupted" THEN "pending" ELSE st[s]]

\* Resuming: what was under way is to be done again, what is settled stays.
Reset(st) ==
  [s \in Step |-> IF st[s] \in {"running", "interrupted"} THEN "pending" ELSE st[s]]

Pending(st) == {s \in Step : st[s] = "pending"}
Blocking(st, d) == st[d] \in {"failed", "cancelled"} /\ d \notin Tolerant

\* cancelBlockedSteps goes over the steps in the order of the definition, each judged
\* by what the pass has made of the ones before it: the steps it cancels.
Blocked(st) ==
  CHOOSE cancelled \in SUBSET Pending(st) : \A s \in Pending(st) :
    s \in cancelled <=> \E d \in Needs[s] : \/ Blocking(st, d)
                                            \/ d < s /\ d \in cancelled \ Tolerant

Ready(st) == {s \in Pending(st) : \A d \in Needs[s] : st[d] \in Settled}

HardFailure(st) == \E s \in Step : st[s] = "failed" /\ s \notin Tolerant

\* The steps of a set take one status.
Mark(st, set, status) == [s \in Step |-> IF s \in set THEN status ELSE st[s]]

CancelBlocked(st) == Mark(st, Blocked(st), "cancelled")

\* finalizeIncompleteSteps.
Finalize(st, runStatus) ==
  Mark(st, {s \in Step : st[s] \in {"pending", "running", "interrupted"}},
       IF runStatus = "failed" THEN "failed" ELSE "cancelled")
=============================================================================
