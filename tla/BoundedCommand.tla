--------------------------- MODULE BoundedCommand ---------------------------
(***************************************************************************)
(* runBounded (packages/codex-delegator/src/process.ts): a child process   *)
(* run to its end under a deadline, a signal and a bound on its output.    *)
(*                                                                         *)
(* cmd is the command a caller runs.  A command that works may leave a     *)
(* descendant in its process group that goes on and holds its pipes when   *)
(* it exits.                                                               *)
(***************************************************************************)
CONSTANT Caller   \* who runs a command

VARIABLE cmd

Stream == {"stdout", "stderr"}

\* The child, a descendant that shares its pipes, the streams still being read, why the
\* command was cut short, and the last signal terminateProcess() sent.
NoCommand ==
  [child |-> "none", kin |-> FALSE, reading |-> {}, cut |-> "no", sent |-> "no"]

Running == [NoCommand EXCEPT !.child = "up", !.reading = Stream]

Exited(c) == c.child \in {"ok", "bad"}

\* terminateProcess(): nothing if the child has exited, and nothing new while an
\* earlier call of it is waiting.
Terminate(c) == IF c.child = "up" /\ c.sent = "no" THEN [c EXCEPT !.sent = "term"] ELSE c

-----------------------------------------------------------------------------
(* The child and its descendant, external.                                 *)

Leaves(a, code) ==
  /\ cmd[a].child = "up"
  /\ cmd' = [cmd EXCEPT ![a].child = code]

Forks(a) ==
  /\ cmd[a].child = "up" /\ ~cmd[a].kin
  /\ cmd' = [cmd EXCEPT ![a].kin = TRUE]

KinEnds(a) ==
  /\ cmd[a].kin
  /\ cmd' = [cmd EXCEPT ![a].kin = FALSE]

-----------------------------------------------------------------------------
(* readBounded(), the timer and the signal.                                *)

\* A chunk passes what is left of the bound: the stream is not read any further.
Overflows(a, s) ==
  /\ s \in cmd[a].reading /\ (cmd[a].child = "up" \/ cmd[a].kin)
  /\ cmd' = [cmd EXCEPT ![a] =
       Terminate([@ EXCEPT !.reading = cmd[a].reading \ {s}])]

\* The end of a stream: nobody holds its other end.
StreamEnds(a, s) ==
  /\ s \in cmd[a].reading /\ Exited(cmd[a]) /\ ~cmd[a].kin
  /\ cmd' = [cmd EXCEPT ![a].reading = @ \ {s}]

\* Promise.all has what it waits for.
Complete(c) == Exited(c) /\ c.reading = {}

\* The deadline and the caller's signal abort the controller; its listener, removed
\* after the first abort, terminates the child.
TimesOut(a) ==
  /\ cmd[a].child # "none" /\ ~Complete(cmd[a]) /\ cmd[a].cut = "no"
  /\ cmd' = [cmd EXCEPT ![a] = Terminate([@ EXCEPT !.cut = "timeout"])]

Aborted(a) ==
  /\ cmd[a].child # "none" /\ ~Complete(cmd[a]) /\ cmd[a].cut # "abort"
  /\ cmd' = [cmd EXCEPT ![a] =
       IF @.cut = "no" THEN Terminate([@ EXCEPT !.cut = "abort"])
       ELSE [@ EXCEPT !.cut = "abort"]]

\* 500 ms after the SIGTERM: a SIGKILL to the process group of a child that runs.
KillsGroup(a) ==
  /\ cmd[a].sent = "term" /\ cmd[a].child = "up"
  /\ cmd' = [cmd EXCEPT ![a].sent = "kill"]

\* What a SIGKILL to the group does.
Killed(a) ==
  /\ cmd[a].sent = "kill" /\ (cmd[a].child = "up" \/ cmd[a].kin)
  /\ cmd' = [cmd EXCEPT ![a].child = IF @ = "up" THEN "bad" ELSE @, ![a].kin = FALSE]

\* runCodexExec(): the status of a turn, unless its events tell of a failure or of a
\* rate limit.
\* Mutant: a turn past its deadline gets a status of its own.
MutTurnStatus(c) == IF c.cut = "timeout" THEN "timed-out" ELSE c.child

TurnStatus(c) ==
  IF c.cut = "abort" THEN "cancelled" ELSE IF c.child = "ok" THEN "completed" ELSE "failed"

CmdType ==
  cmd \in [Caller ->
    [child : {"none", "up", "ok", "bad"}, kin : BOOLEAN, reading : SUBSET Stream,
     cut : {"no", "timeout", "abort"}, sent : {"no", "term", "kill"}]]
=============================================================================
