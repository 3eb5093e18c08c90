---------------------------- MODULE DelegateSeat ----------------------------
(***************************************************************************)
(* One Codex seat of packages/codex-delegator: the promise-chain lane that *)
(* admits one turn at a time, the app-server turn protocol, cancellation,  *)
(* approvals, close, and resume of the stored attachment after the host    *)
(* process died.  Each action is the code between two awaits.              *)
(*                                                                         *)
(* The app-server child process is external: it reads its stdin in order   *)
(* (wire) and runs the turns it accepted.                                  *)
(***************************************************************************)
EXTENDS Naturals, Sequences

CONSTANTS
  Turn,        \* calls of turn(), each made once
  Review,      \* calls of review(), each made once
  Signalled,   \* the requests made with an AbortSignal
  Canceller,   \* calls of cancel(), each made once
  Approval,    \* approval requests of the app-server
  CloseCall,   \* the cancel() made by closeRuntime
  Stream,      \* the interrupt a timed-out stream sends itself
  None,        \* null
  Transports,  \* the transports create() and resume() may settle on
  MaxClose,    \* bound on calls of close()
  MaxResume    \* bound on host process restarts

Request == Turn \cup Review
\* Every request owns one cancel() as well: the one its abort listener makes.
CancelCall == Canceller \cup Request \cup {CloseCall}

ASSUME SeatAssumption ==
  /\ Turn \cap Review = {}
  /\ Signalled \subseteq Request
  /\ Canceller \cap Request = {}
  /\ CloseCall \notin Canceller \cup Request
  /\ None \notin CancelCall
  /\ Stream \notin CancelCall
  /\ Transports \subseteq {"app-server", "exec"}
  /\ Transports # {}
  /\ MaxClose \in Nat
  /\ MaxResume \in Nat

VARIABLES
  \* the lane: a chain of promises, one gate per request
  pc, prev, gate, tail,
  ticket, issued,      \* history: arrival order
  \* the Runtime record
  status, delivery, controller, activeTurnId, kind, transport, thread,
  \* locals of stream(), per request
  accepted, aborted, seen, outcome,
  signalled,           \* queued requests whose caller has already aborted
  \* callbacks and calls outside the lane
  cpc, target, apc, closePc, closeTail, cleanup, closes,
  \* the attachment file, and history of an ambiguity nobody has looked at
  stored, resumes, unresolved,
  \* the app-server
  server, wire

laneVars == <<prev, tail, ticket, issued>>
runtimeVars == <<kind, thread>>
streamVars == <<accepted, seen, signalled>>
closeVars == <<closePc, closeTail, cleanup, closes>>
serverVars == <<server, wire>>
vars == <<pc, prev, gate, tail, ticket, issued, status, delivery, controller,
          activeTurnId, kind, transport, thread, accepted, aborted, seen,
          outcome, signalled, cpc, target, apc, closePc, closeTail, cleanup,
          closes, stored, resumes, unresolved, server, wire>>

Status == {"idle", "running", "awaiting-approval", "ambiguous", "failed", "closed"}
Delivery == {"none", "accepted", "completed", "ambiguous"}
\* pc of a request that holds the lane
Streaming == {"starting", "streaming", "interrupting", "finalizing"}
LivePc == Streaming \cup {"exec", "settled"}
PC == {"new", "queued", "done", "lost"} \cup LivePc
\* what a request returned or threw
Refused == {"SESSION_CLOSED", "AMBIGUOUS_DELIVERY", "SESSION_BUSY",
            "CAPABILITY_UNAVAILABLE", "ABORTED"}
Outcome == {"none", "completed", "turn-failed", "failed", "cancelled",
            "ambiguous", "threw"}
             \cup Refused
Message == [op : {"start"}, turn : Request, by : {Stream}]
             \cup [op : {"interrupt"}, turn : Request, by : CancelCall \cup {Stream}]

Live(r) == pc[r] \in LivePc
Closing == closePc \in {"cancelling", "draining", "releasing", "dropping"}

\* What runtime.transport refers to: an app-server transport that works ("up"),
\* one that has failed or been closed ("dead"), or null.
Init ==
  /\ pc = [r \in Request |-> "new"]
  /\ prev = [r \in Request |-> None]
  /\ gate = [r \in Request |-> FALSE]
  /\ tail = None
  /\ ticket = [r \in Request |-> 0]
  /\ issued = 0
  /\ status = "idle" /\ delivery = "none" /\ stored = "none"
  /\ controller = None /\ activeTurnId = None
  /\ kind \in Transports
  /\ transport = IF kind = "exec" THEN "null" ELSE "up"
  /\ thread = (kind = "app-server")
  /\ accepted = {} /\ aborted = {} /\ signalled = {}
  /\ seen = [r \in Request |-> "none"]
  /\ outcome = [r \in Request |-> "none"]
  /\ cpc = [c \in CancelCall |-> "new"]
  /\ target = [c \in CancelCall |-> None]
  /\ apc = [a \in Approval |-> "new"]
  /\ closePc = "open" /\ closeTail = None /\ cleanup = FALSE /\ closes = 0
  /\ resumes = 0 /\ unresolved = FALSE
  /\ server = [r \in Request |-> "none"]
  /\ wire = <<>>

-----------------------------------------------------------------------------
(* The lane.                                                               *)

\* enqueue() and the synchronous head of lane(): remember the current tail and
\* become the tail.
Enqueue(r) ==
  /\ pc[r] = "new"
  /\ pc' = [pc EXCEPT ![r] = "queued"]
  /\ prev' = [prev EXCEPT ![r] = tail]
  /\ tail' = r
  /\ issued' = issued + 1
  /\ ticket' = [ticket EXCEPT ![r] = issued + 1]
  /\ UNCHANGED <<gate, status, delivery, controller, activeTurnId, transport,
                 aborted, outcome, cpc, target, apc, stored, resumes, unresolved,
                 runtimeVars, streamVars, closeVars, serverVars>>

\* Mutants: lane() does not await the previous promise; a queued call waits for a
\* close under way to end.
MutMyTurnAtOnce(r) == pc[r] = "queued"
MutMyTurnAfterClose(r) ==
  pc[r] = "queued" /\ ~Closing /\ (prev[r] # None => gate[prev[r]])

\* `await previous` in lane() has resolved.
MyTurn(r) ==
  /\ pc[r] = "queued"
  /\ prev[r] # None => gate[prev[r]]

\* Mutant: requireIdle() looks at the status only, not at a close under way.
MutShut == status = "closed"

Shut == status = "closed" \/ Closing

\* requireIdle() and the checks turn(), review() and stream() make before the
\* controller is installed; "none" admits the request.
Refusal(r) ==
  IF Shut THEN "SESSION_CLOSED"
  ELSE IF status = "ambiguous" /\ r \in Turn THEN "AMBIGUOUS_DELIVERY"
  ELSE IF controller # None THEN "SESSION_BUSY"
  ELSE IF r \in Review /\ (kind = "exec" \/ transport = "null")
    THEN "CAPABILITY_UNAVAILABLE"
  ELSE IF kind = "exec" /\ r \in signalled THEN "ABORTED"
  ELSE IF kind = "app-server" /\ transport = "null" THEN "SESSION_CLOSED"
  ELSE "none"

Refuse(r) ==
  /\ MyTurn(r)
  /\ Refusal(r) # "none"
  /\ outcome' = [outcome EXCEPT ![r] = Refusal(r)]
  /\ pc' = [pc EXCEPT ![r] = "done"]
  /\ gate' = [gate EXCEPT ![r] = TRUE]
  /\ UNCHANGED <<status, delivery, controller, activeTurnId, transport, aborted,
                 cpc, target, apc, stored, resumes, unresolved, laneVars,
                 runtimeVars, streamVars, closeVars, serverVars>>

-----------------------------------------------------------------------------
(* A turn or review on the app-server: stream().                           *)

\* Install the controller and send turn/start or review/start.  On a transport
\* that has already failed request() throws at once.
Start(r) ==
  /\ MyTurn(r)
  /\ kind = "app-server"
  /\ Refusal(r) = "none"
  /\ controller' = r
  /\ status' = "running"
  /\ delivery' = "none"
  /\ unresolved' = FALSE
  /\ IF transport = "up"
       THEN /\ pc' = [pc EXCEPT ![r] = "starting"]
            /\ wire' = Append(wire, [op |-> "start", turn |-> r, by |-> Stream])
            /\ UNCHANGED outcome
       ELSE /\ pc' = [pc EXCEPT ![r] = "finalizing"]
            /\ outcome' = [outcome EXCEPT ![r] = "failed"]
            /\ UNCHANGED wire
  /\ UNCHANGED <<gate, activeTurnId, transport, aborted, cpc, target, apc, stored,
                 resumes, server, laneVars, runtimeVars, streamVars, closeVars>>

\* The response to turn/start arrives: the turn is accepted, and persisted as such.
Accept(r) ==
  /\ pc[r] = "starting"
  /\ server[r] # "none"
  /\ transport = "up"
  /\ r \notin aborted
  /\ accepted' = accepted \cup {r}
  /\ activeTurnId' = r
  /\ delivery' = "accepted"
  /\ stored' = "accepted"
  /\ pc' = [pc EXCEPT ![r] = "streaming"]
  /\ UNCHANGED <<gate, status, controller, transport, aborted, seen, outcome,
                 signalled, cpc, target, apc, resumes, unresolved, laneVars,
                 runtimeVars, closeVars, serverVars>>

\* The catch block of stream() has chosen the status of the result and waits for
\* the workspace changes (finalizeTurn).
Conclude(r, result) ==
  /\ outcome' = [outcome EXCEPT ![r] = result]
  /\ pc' = [pc EXCEPT ![r] = "finalizing"]
  /\ UNCHANGED <<gate, status, delivery, controller, activeTurnId, aborted, cpc,
                 target, apc, stored, resumes, unresolved, laneVars, runtimeVars,
                 streamVars, closeVars>>

\* The start request ends without a response: its deadline passes, its signal is
\* aborted, or the transport fails.
StartFails(r) ==
  /\ pc[r] = "starting"
  /\ \/ r \notin aborted /\ Conclude(r, "failed")
     \/ r \in aborted /\ Conclude(r, "cancelled")
  /\ UNCHANGED <<transport, serverVars>>

\* turn/completed was seen.
Finish(r) ==
  /\ pc[r] = "streaming"
  /\ transport = "up"
  /\ seen[r] # "none"
  /\ Conclude(r, seen[r])
  /\ UNCHANGED <<transport, serverVars>>

\* The wait is aborted before any completion was seen.
StreamCancelled(r) ==
  /\ pc[r] = "streaming"
  /\ transport = "up"
  /\ seen[r] = "none"
  /\ r \in aborted
  /\ Conclude(r, "cancelled")
  /\ UNCHANGED <<transport, serverVars>>

\* The transport failed after the turn was accepted.
StreamBroken(r) ==
  /\ pc[r] = "streaming"
  /\ transport # "up"
  /\ Conclude(r, "ambiguous")
  /\ UNCHANGED <<transport, serverVars>>

\* A closed or failed transport takes its child process, and every turn the
\* child was running, with it.  An app-server orphaned by a host crash is not
\* reached.
KillServer ==
  /\ server' = [r \in Request |-> IF server[r] = "running" /\ pc[r] # "lost"
                                 THEN "ended" ELSE server[r]]
  /\ wire' = <<>>

\* Mutant: a turn that times out fails like one that was never accepted, without
\* an interrupt.
MutStreamTimesOut(r) ==
  /\ pc[r] = "streaming"
  /\ transport = "up"
  /\ seen[r] = "none"
  /\ r \notin aborted
  /\ Conclude(r, "failed")
  /\ UNCHANGED <<transport, serverVars>>

\* The completion deadline passes: interrupt the turn and wait for the answer.
StreamTimesOut(r) ==
  /\ pc[r] = "streaming"
  /\ transport = "up"
  /\ seen[r] = "none"
  /\ r \notin aborted
  /\ pc' = [pc EXCEPT ![r] = "interrupting"]
  /\ wire' = Append(wire, [op |-> "interrupt", turn |-> activeTurnId, by |-> Stream])
  /\ UNCHANGED <<gate, status, delivery, controller, activeTurnId, transport,
                 aborted, outcome, cpc, target, apc, stored, resumes, unresolved,
                 server, laneVars, runtimeVars, streamVars, closeVars>>

\* The interrupt fails or takes more than five seconds: close the transport.
InterruptFails(r) ==
  /\ pc[r] = "interrupting"
  /\ transport' = "null"
  /\ KillServer
  /\ Conclude(r, "ambiguous")

\* Mutants: every error leaves the seat "failed"; the runtime takes over the status
\* of the result as it is.
MutSettledStatus(result) ==
  IF result \in {"completed", "cancelled"} THEN "idle" ELSE "failed"
MutSettledRaw(result) == result

SettledStatus(result) ==
  CASE result \in {"completed", "cancelled"} -> "idle"
    [] result = "ambiguous" -> "ambiguous"
    [] OTHER -> "failed"

\* Assign the result to the runtime and persist it.
Settle(r) ==
  /\ pc[r] = "finalizing"
  /\ delivery' = CASE outcome[r] \in {"completed", "turn-failed"} -> "completed"
                   [] outcome[r] = "ambiguous" -> "ambiguous"
                   [] OTHER -> "none"
  /\ stored' = delivery'
  /\ status' = SettledStatus(outcome[r])
  /\ unresolved' = (outcome[r] = "ambiguous")
  /\ pc' = [pc EXCEPT ![r] = "settled"]
  /\ UNCHANGED <<gate, controller, activeTurnId, transport, aborted, outcome, cpc,
                 target, apc, resumes, laneVars, runtimeVars, streamVars,
                 closeVars, serverVars>>

\* The finally blocks of stream() and lane(), once the write has finished.
Release(r) ==
  /\ pc[r] = "settled"
  /\ controller' = None
  /\ activeTurnId' = None
  /\ pc' = [pc EXCEPT ![r] = "done"]
  /\ gate' = [gate EXCEPT ![r] = TRUE]
  /\ UNCHANGED <<status, delivery, transport, aborted, outcome, cpc, target, apc,
                 stored, resumes, unresolved, laneVars, runtimeVars, streamVars,
                 closeVars, serverVars>>

-----------------------------------------------------------------------------
(* The exec fallback of runTurn(): one child process per turn.             *)

ExecStart(r) ==
  /\ MyTurn(r)
  /\ kind = "exec"
  /\ Refusal(r) = "none"
  /\ controller' = r
  /\ status' = "running"
  /\ unresolved' = FALSE
  /\ pc' = [pc EXCEPT ![r] = "exec"]
  /\ UNCHANGED <<gate, delivery, activeTurnId, transport, aborted, outcome, cpc,
                 target, apc, stored, resumes, laneVars, runtimeVars, streamVars,
                 closeVars, serverVars>>

\* runExec returned a result, or threw (delivery is left as it was).
ExecEnds(r, result) ==
  /\ pc[r] = "exec"
  /\ r \in aborted => result # "completed"
  /\ outcome' = [outcome EXCEPT ![r] = result]
  /\ status' = SettledStatus(result)
  /\ delivery' = CASE result = "completed" -> "completed"
                   [] result = "threw" -> delivery
                   [] OTHER -> "none"
  /\ stored' = delivery'
  /\ pc' = [pc EXCEPT ![r] = "settled"]
  /\ UNCHANGED <<gate, controller, activeTurnId, transport, aborted, cpc, target,
                 apc, resumes, unresolved, laneVars, runtimeVars, streamVars,
                 closeVars, serverVars>>

-----------------------------------------------------------------------------
(* Cancellation: cancel(), and the abort listener of stream(), which calls   *)
(* cancel() again.                                                         *)

Interruptible == transport # "null" /\ thread /\ activeTurnId # None

\* The end of cancel(), from controller.abort() on, with tr the transport it
\* leaves.  The first abort of a streaming request fires its listener, whose own
\* cancel() sends another interrupt.
AbortActive(c, tr) ==
  LET r == controller IN
  /\ transport' = tr
  /\ aborted' = aborted \cup {r}
  /\ status' = "idle"
  /\ stored' = delivery
  /\ IF r \notin aborted /\ tr = "up" /\ thread /\ activeTurnId # None
       THEN /\ wire' = Append(wire, [op |-> "interrupt", turn |-> activeTurnId, by |-> r])
            /\ cpc' = [cpc EXCEPT ![c] = "done", ![r] = "waiting"]
            /\ target' = [target EXCEPT ![r] = r]
       ELSE /\ cpc' = [cpc EXCEPT ![c] = "done"]
            /\ UNCHANGED <<target, wire>>

\* cancel() up to its first await.  On a failed transport request() throws, and
\* nothing is aborted.
BeginCancel(c) ==
  \/ /\ controller = None \/ (Interruptible /\ transport = "dead")
     /\ cpc' = [cpc EXCEPT ![c] = "done"]
     /\ UNCHANGED <<status, transport, aborted, stored, target, wire>>
  \/ /\ controller # None /\ Interruptible /\ transport = "up"
     /\ wire' = Append(wire, [op |-> "interrupt", turn |-> activeTurnId, by |-> c])
     /\ cpc' = [cpc EXCEPT ![c] = "waiting"]
     /\ target' = [target EXCEPT ![c] = controller]
     /\ UNCHANGED <<status, transport, aborted, stored>>
  \/ /\ controller # None /\ ~Interruptible
     /\ AbortActive(c, transport)

Cancel(c) ==
  /\ cpc[c] = "new"
  /\ BeginCancel(c)
  /\ UNCHANGED <<pc, gate, delivery, controller, activeTurnId, outcome, apc,
                 resumes, unresolved, server, laneVars, runtimeVars, streamVars,
                 closeVars>>

\* The interrupt is not answered in five seconds, or its transport failed: close
\* the transport.
CancelGivesUp(c) ==
  /\ cpc[c] = "waiting"
  /\ cpc' = [cpc EXCEPT ![c] = "failed"]
  /\ transport' = IF transport = "up" THEN "dead" ELSE transport
  /\ KillServer
  /\ UNCHANGED <<pc, gate, status, delivery, controller, activeTurnId, aborted,
                 outcome, target, apc, stored, resumes, unresolved, laneVars,
                 runtimeVars, streamVars, closeVars>>

\* cancel() resumes and aborts whatever controller the seat has now; with none it
\* throws.
CancelEnds(c) ==
  LET tr == IF cpc[c] = "failed" THEN "null" ELSE transport IN
  /\ cpc[c] \in {"replied", "failed"}
  /\ \/ /\ controller = None
        /\ cpc' = [cpc EXCEPT ![c] = "done"]
        /\ transport' = tr
        /\ UNCHANGED <<status, aborted, stored, target, wire>>
     \/ /\ controller # None
        /\ AbortActive(c, tr)
  /\ UNCHANGED <<pc, gate, delivery, activeTurnId, outcome, apc,
                 resumes, unresolved, server, laneVars, runtimeVars, streamVars,
                 closeVars>>

\* Mutant: cancel() itself clears the controller it has aborted.
MutCancelResumes(c) == CancelEnds(c) /\ controller' = None

CancelResumes(c) == CancelEnds(c) /\ UNCHANGED controller

\* The caller aborts the signal of a queued request: nothing listens to it yet,
\* and stream() never looks at a signal that is already aborted.
SignalQueued(r) ==
  /\ pc[r] = "queued"
  /\ r \notin signalled
  /\ signalled' = signalled \cup {r}
  /\ UNCHANGED <<pc, gate, status, delivery, controller, activeTurnId, transport,
                 accepted, aborted, seen, outcome, cpc, target, apc, stored,
                 resumes, unresolved, laneVars, runtimeVars, closeVars, serverVars>>

\* The caller aborts the signal of the running request: forwardAbort() aborts its
\* controller, whose listener calls cancel().
SignalRunning(r) ==
  /\ Live(r)
  /\ controller = r
  /\ r \notin aborted
  /\ aborted' = aborted \cup {r}
  /\ \/ /\ kind = "exec" \/ (Interruptible /\ transport = "dead")
        /\ UNCHANGED <<status, stored, cpc, target, wire>>
     \/ /\ kind = "app-server" /\ Interruptible /\ transport = "up"
        /\ wire' = Append(wire, [op |-> "interrupt", turn |-> activeTurnId, by |-> r])
        /\ cpc' = [cpc EXCEPT ![r] = "waiting"]
        /\ target' = [target EXCEPT ![r] = r]
        /\ UNCHANGED <<status, stored>>
     \/ /\ kind = "app-server" /\ ~Interruptible
        /\ status' = "idle"
        /\ stored' = delivery
        /\ UNCHANGED <<cpc, target, wire>>
  /\ UNCHANGED <<pc, gate, delivery, controller, activeTurnId, transport, outcome,
                 apc, resumes, unresolved, server, laneVars, runtimeVars,
                 streamVars, closeVars>>

-----------------------------------------------------------------------------
(* Approvals: approve(), on either side of `await runtime.approval`.        *)

ApprovalAsked(a) ==
  /\ apc[a] = "new"
  /\ transport = "up"
  /\ \E r \in Request : server[r] = "running" /\ pc[r] # "lost"
  /\ apc' = [apc EXCEPT ![a] = "asked"]
  /\ status' = "awaiting-approval"
  /\ UNCHANGED <<pc, gate, delivery, controller, activeTurnId, transport, aborted,
                 outcome, cpc, target, stored, resumes, unresolved, laneVars,
                 runtimeVars, streamVars, closeVars, serverVars>>

ApprovalAnswered(a) ==
  /\ apc[a] = "asked"
  /\ apc' = [apc EXCEPT ![a] = "done"]
  /\ status' = "running"
  /\ UNCHANGED <<pc, gate, delivery, controller, activeTurnId, transport, aborted,
                 outcome, cpc, target, stored, resumes, unresolved, laneVars,
                 runtimeVars, streamVars, closeVars, serverVars>>

-----------------------------------------------------------------------------
(* close() and closeRuntime().                                             *)

\* A second close() while one is under way shares its promise.
Close(drop) ==
  /\ status # "closed"
  /\ ~Closing
  /\ closes < MaxClose
  /\ closes' = closes + 1
  /\ closePc' = "cancelling"
  /\ cleanup' = drop
  /\ BeginCancel(CloseCall)
  /\ UNCHANGED <<pc, gate, delivery, controller, activeTurnId, outcome, apc,
                 resumes, unresolved, closeTail, server, laneVars, runtimeVars,
                 streamVars>>

\* `await runtime.lane` waits for the tail of this moment.
CloseDrains ==
  /\ closePc = "cancelling"
  /\ cpc[CloseCall] = "done"
  /\ closePc' = "draining"
  /\ closeTail' = tail
  /\ UNCHANGED <<pc, gate, status, delivery, controller, activeTurnId, transport,
                 aborted, outcome, cpc, target, apc, stored, resumes, unresolved,
                 cleanup, closes, laneVars, runtimeVars, streamVars, serverVars>>

\* Mutant: closeRuntime goes on without waiting for the lane.
MutDrained == TRUE

Drained == closeTail # None => gate[closeTail]

CloseDrained ==
  /\ closePc = "draining"
  /\ Drained
  /\ closePc' = "releasing"
  /\ UNCHANGED <<pc, gate, status, delivery, controller, activeTurnId, transport,
                 aborted, outcome, cpc, target, apc, stored, resumes, unresolved,
                 closeTail, cleanup, closes, laneVars, runtimeVars, streamVars,
                 serverVars>>

\* releaseThread(): forget the thread, and delete it when cleaning up.
ReleaseThread ==
  /\ closePc = "releasing"
  /\ \/ ~thread
     \/ transport = "up"
     \/ transport = "null" /\ ~cleanup
  /\ thread' = (thread /\ ~cleanup)
  /\ closePc' = "dropping"
  /\ UNCHANGED <<pc, gate, status, delivery, controller, activeTurnId, transport,
                 aborted, outcome, cpc, target, apc, stored, resumes, unresolved,
                 kind, closeTail, cleanup, closes, laneVars, streamVars, serverVars>>

\* A step of closeRuntime throws, and close() clears runtime.closing: thread/delete
\* or the removal of the worktree fails, there is no transport to delete the thread
\* with, or request() throws because the transport has failed.
CloseFails ==
  /\ \/ closePc = "dropping" /\ cleanup
     \/ /\ closePc = "releasing" /\ thread
        /\ transport = "dead" \/ cleanup
  /\ closePc' = "open"
  /\ UNCHANGED <<pc, gate, status, delivery, controller, activeTurnId, transport,
                 aborted, outcome, cpc, target, apc, stored, resumes, unresolved,
                 closeTail, cleanup, closes, laneVars, runtimeVars, streamVars,
                 serverVars>>

CloseFinishes ==
  /\ closePc = "dropping"
  /\ closePc' = "closed"
  /\ transport' = "null"
  /\ KillServer
  /\ status' = "closed"
  /\ activeTurnId' = None
  /\ stored' = delivery
  /\ UNCHANGED <<pc, gate, delivery, controller, aborted, outcome, cpc, target,
                 apc, resumes, unresolved, closeTail, cleanup, closes, laneVars,
                 runtimeVars, streamVars>>

-----------------------------------------------------------------------------
(* The host process dies and another one resumes the stored attachment:    *)
(* resume().  Promises, callbacks and queued calls are gone; an app-server  *)
(* child, spawned detached, may go on running its turn.                     *)

\* Mutant: the resumed runtime starts with no delivery of its own.
MutRestoredDelivery == "none"

RestoredDelivery == stored

Resume ==
  /\ resumes < MaxResume
  /\ thread \/ kind = "exec"
  /\ resumes' = resumes + 1
  /\ pc' = [r \in Request |-> IF pc[r] \in {"new", "done"} THEN pc[r] ELSE "lost"]
  /\ gate' = [r \in Request |-> pc[r] # "new"]
  /\ tail' = None
  /\ status' = "idle"
  /\ delivery' = RestoredDelivery
  /\ controller' = None
  /\ activeTurnId' = None
  /\ kind' \in Transports
  /\ transport' = IF kind' = "exec" THEN "null" ELSE "up"
  /\ thread' = (kind' = "app-server")
  /\ cpc' = [c \in CancelCall |-> IF cpc[c] = "new" THEN "new" ELSE "done"]
  /\ apc' = [a \in Approval |-> IF apc[a] = "new" THEN "new" ELSE "done"]
  /\ closePc' = "open"
  /\ closeTail' = None
  /\ wire' = <<>>
  /\ UNCHANGED <<prev, ticket, issued, accepted, aborted, seen, outcome, signalled,
                 target, cleanup, closes, stored, unresolved, server>>

-----------------------------------------------------------------------------
(* The app-server, external: its replies and notifications.                *)

\* It accepts a turn and announces it; the subscription of the active stream takes
\* the announced turn for its own when it has no turn yet.
ServerStarts ==
  /\ wire # <<>>
  /\ Head(wire).op = "start"
  /\ thread
  /\ wire' = Tail(wire)
  /\ server' = [server EXCEPT ![Head(wire).turn] = "running"]
  /\ activeTurnId' = IF controller # None /\ activeTurnId = None
                       THEN Head(wire).turn ELSE activeTurnId
  /\ UNCHANGED <<pc, gate, status, delivery, controller, transport, aborted,
                 outcome, cpc, target, apc, stored, resumes, unresolved, laneVars,
                 runtimeVars, streamVars, closeVars>>

\* It refuses a turn: the error response ends the request that still waits.
ServerRefuses ==
  /\ wire # <<>>
  /\ Head(wire).op = "start"
  /\ wire' = Tail(wire)
  /\ LET r == Head(wire).turn IN
       IF pc[r] = "starting" /\ r \notin aborted
         THEN Conclude(r, "failed")
         ELSE UNCHANGED <<pc, gate, status, delivery, controller, activeTurnId,
                          aborted, outcome, cpc, target, apc, stored, resumes,
                          unresolved, laneVars, runtimeVars, streamVars, closeVars>>
  /\ UNCHANGED <<transport, server>>

\* A turn ends; its own stream, when it still listens, sees turn/completed.
Notified(r, how) ==
  seen' = IF pc[r] \in {"starting", "streaming"} /\ seen[r] = "none"
            THEN [seen EXCEPT ![r] = how] ELSE seen

ServerEnds(r, how) ==
  /\ server[r] = "running"
  /\ server' = [server EXCEPT ![r] = "ended"]
  /\ Notified(r, how)
  /\ UNCHANGED <<pc, gate, status, delivery, controller, activeTurnId, transport,
                 accepted, aborted, outcome, signalled, cpc, target, apc, stored,
                 resumes, unresolved, wire, laneVars, runtimeVars, closeVars>>

\* It serves an interrupt: the turn ends, if it has not already, and the answer
\* resumes whoever sent it.
ServerInterrupts ==
  LET m == Head(wire)
      r == m.turn IN
  /\ wire # <<>>
  /\ m.op = "interrupt"
  /\ wire' = Tail(wire)
  /\ IF server[r] = "running"
       THEN /\ server' = [server EXCEPT ![r] = "ended"]
            /\ Notified(r, "cancelled")
       ELSE UNCHANGED <<server, seen>>
  /\ \/ /\ m.by = Stream
        /\ pc' = [q \in Request |-> IF pc[q] = "interrupting" THEN "finalizing" ELSE pc[q]]
        /\ outcome' = [q \in Request |-> IF pc[q] = "interrupting" THEN "ambiguous"
                                         ELSE outcome[q]]
        /\ UNCHANGED cpc
     \/ /\ m.by # Stream
        /\ cpc' = [cpc EXCEPT ![m.by] = IF cpc[m.by] = "waiting" THEN "replied" ELSE @]
        /\ UNCHANGED <<pc, outcome>>
  /\ UNCHANGED <<gate, status, delivery, controller, activeTurnId, transport,
                 accepted, aborted, signalled, target, apc, stored, resumes,
                 unresolved, laneVars, runtimeVars, closeVars>>

\* The child exits or breaks the framing: fail() rejects every pending request.
TransportFails ==
  /\ transport = "up"
  /\ transport' = "dead"
  /\ KillServer
  /\ UNCHANGED <<pc, gate, status, delivery, controller, activeTurnId, aborted,
                 outcome, cpc, target, apc, stored, resumes, unresolved, laneVars,
                 runtimeVars, streamVars, closeVars>>

-----------------------------------------------------------------------------
ExecResult == {"completed", "failed", "cancelled", "threw"}

\* What the process does by itself once it was asked: promise reactions, timers
\* and child-process events.
RequestStep(r) ==
  \/ Refuse(r) \/ Start(r) \/ Accept(r) \/ StartFails(r)
  \/ Finish(r) \/ StreamCancelled(r) \/ StreamBroken(r) \/ StreamTimesOut(r)
  \/ InterruptFails(r) \/ Settle(r) \/ Release(r)
  \/ ExecStart(r) \/ \E result \in ExecResult : ExecEnds(r, result)

CancelStep(c) == CancelGivesUp(c) \/ CancelResumes(c)

CloseStep ==
  CloseDrains \/ CloseDrained \/ ReleaseThread \/ CloseFails \/ CloseFinishes

ServerStep ==
  \/ ServerStarts \/ ServerRefuses \/ ServerInterrupts \/ TransportFails
  \/ \E r \in Request, how \in {"completed", "turn-failed"} : ServerEnds(r, how)

CallerStep ==
  \/ \E r \in Request : Enqueue(r)
  \/ \E r \in Signalled : SignalQueued(r) \/ SignalRunning(r)
  \/ \E c \in Canceller : Cancel(c)
  \/ \E drop \in BOOLEAN : Close(drop)
  \/ \E a \in Approval : ApprovalAsked(a) \/ ApprovalAnswered(a)

Next ==
  \/ CallerStep
  \/ \E r \in Request : RequestStep(r)
  \/ \E c \in CancelCall : CancelStep(c)
  \/ CloseStep
  \/ ServerStep
  \/ Resume

Spec == Init /\ [][Next]_vars

\* Promise reactions and timers run: every boundary of a request, an interrupt and
\* a turn is a timer, so each request and each cancel makes its next step without
\* help from the app-server.  Callers, approvals and the server owe nothing.
FairSpec ==
  /\ Spec
  /\ \A r \in Request : WF_vars(RequestStep(r))
  /\ \A c \in CancelCall : WF_vars(CancelStep(c))
  /\ WF_vars(CloseStep)

-----------------------------------------------------------------------------
(* Properties.                                                             *)

LaneTypes ==
  /\ pc \in [Request -> PC] /\ gate \in [Request -> BOOLEAN]
  /\ prev \in [Request -> Request \cup {None}] /\ tail \in Request \cup {None}
  /\ ticket \in [Request -> Nat] /\ issued \in Nat
RuntimeTypes ==
  /\ status \in Status /\ delivery \in Delivery /\ stored \in Delivery
  /\ controller \in Request \cup {None} /\ activeTurnId \in Request \cup {None}
  /\ kind \in {"app-server", "exec"} /\ transport \in {"up", "dead", "null"}
  /\ thread \in BOOLEAN /\ unresolved \in BOOLEAN /\ resumes \in Nat
StreamTypes ==
  /\ accepted \subseteq Request /\ aborted \subseteq Request /\ signalled \subseteq Request
  /\ seen \in [Request -> {"none", "completed", "turn-failed", "cancelled"}]
  /\ outcome \in [Request -> Outcome]
CallTypes ==
  /\ cpc \in [CancelCall -> {"new", "waiting", "replied", "failed", "done"}]
  /\ target \in [CancelCall -> Request \cup {None}]
  /\ apc \in [Approval -> {"new", "asked", "done"}]
  /\ closePc \in {"open", "cancelling", "draining", "releasing", "dropping", "closed"}
  /\ closeTail \in Request \cup {None} /\ cleanup \in BOOLEAN /\ closes \in Nat
ServerTypes ==
  /\ server \in [Request -> {"none", "running", "ended"}]
  /\ wire \in Seq(Message)

\* Every variable stays in its range; in particular a request only ever has one of
\* the outcomes the source names.
TypeOK == LaneTypes /\ RuntimeTypes /\ StreamTypes /\ CallTypes /\ ServerTypes

\* One live turn per seat, whatever cancel, close, approvals and the transport do
\* meanwhile: the lane admits a request only when every earlier one has let go of
\* the runtime record, and the controller is the admitted request's
\* (delegator.ts:759-782, "one live turn at a time").
LaneExclusive ==
  /\ \A r, s \in Request : Live(r) /\ Live(s) => r = s
  /\ \A r \in Request : Live(r) <=> controller = r

\* requireIdle's SESSION_BUSY check never fires: it is, as its comment says, "a
\* defensive invariant, not a control path" (delegator.ts:1103).
NeverBusy == \A r \in Request : outcome[r] # "SESSION_BUSY"

\* Once close() has drained the lane no queued request, not even one that arrived
\* while it was draining, runs against the thread or the worktree that is being
\* released (closeAll: "queued work cannot race cleanup").
CleanupAfterDrain ==
  closePc \in {"releasing", "dropping", "closed"} => \A r \in Request : ~Live(r)

\* As long as no later request was admitted, an ambiguous delivery is what the
\* runtime and the attachment file both say, in spite of the writes cancel() makes
\* to the attachment and of a restart from it.
AmbiguityRecorded ==
  unresolved => delivery = "ambiguous" /\ stored = "ambiguous"

\* Turns the app-server accepted are serialised while the host lives: when it runs two
\* turns at once, one of them was given up before its acceptance was received.
AcceptedTurnsSerial ==
  resumes = 0 =>
    \A r, s \in Request :
      r # s /\ server[r] = "running" /\ server[s] = "running"
        => r \notin accepted \/ s \notin accepted

\* The seat implements the first-come first-served lane of module FifoLane.
Lane == INSTANCE FifoLane WITH
  Call <- Request, Null <- None, holder <- controller,
  rank <- [r \in Request |-> IF pc[r] = "queued" THEN ticket[r] ELSE 0]
LaneOrder == Lane!Spec

\* Every call of turn() or review() returns, and so does close(), which never waits
\* forever for a lane it must drain: whatever the app-server, the callers and close()
\* do, the lane never stalls.
CallsReturn ==
  /\ \A r \in Request : pc[r] = "queued" ~> pc[r] \in {"done", "lost"}
  /\ Closing ~> ~Closing
=============================================================================
