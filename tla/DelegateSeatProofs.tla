------------------------- MODULE DelegateSeatProofs -------------------------
(***************************************************************************)
(* Theorems about one Codex seat, for any sets of turns, reviews, callers  *)
(* and approvals and any bounds on close() and on host restarts.           *)
(*                                                                         *)
(* Most of the thirty-odd actions of DelegateSeat treat the lane alike.    *)
(* The proof first sorts every step into one of the six kinds of LaneStep, *)
(* and the lane's invariant and the refinement of FifoLane follow from the *)
(* kinds alone.                                                            *)
(***************************************************************************)
EXTENDS DelegateSeat, SequenceTheorems, TLAPS

-----------------------------------------------------------------------------
(* The inductive invariant.                                                *)

Entered(r) == ticket[r] # 0

\* Tickets number the calls in their order of arrival.
Tickets ==
  /\ \A r \in Request : ticket[r] <= issued
  /\ \A r \in Request : pc[r] = "new" <=> ~Entered(r)
  /\ \A r, s \in Request : Entered(r) /\ ticket[r] = ticket[s] => r = s

\* A gate is open when its request is over.
Gates == \A r \in Request : gate[r] <=> pc[r] \in {"done", "lost"}

\* Every earlier call is over once a call is past the wait for its turn.
Past ==
  \A r, s \in Request :
    /\ pc[r] \notin {"new", "queued"}
    /\ Entered(s) /\ ticket[s] < ticket[r]
    => gate[s]

\* A waiting call waits for its immediate predecessor, if there is one that is not
\* over.
Predecessor ==
  \A r \in Request : pc[r] = "queued" =>
    /\ prev[r] = None =>
         \A s \in Request : Entered(s) /\ ticket[s] < ticket[r] => gate[s]
    /\ prev[r] # None =>
         /\ Entered(prev[r])
         /\ ticket[prev[r]] < ticket[r]
         /\ \A s \in Request : ticket[s] < ticket[r] => ticket[s] <= ticket[prev[r]]

\* The tail is the last call that arrived.
LastIn ==
  /\ tail = None => \A s \in Request : Entered(s) => gate[s]
  /\ tail # None =>
       Entered(tail) /\ \A s \in Request : ticket[s] <= ticket[tail]

\* The controller is the one live request's.
Control == \A r \in Request : Live(r) <=> controller = r

LaneInv == Tickets /\ Gates /\ Past /\ Predecessor /\ LastIn /\ Control

\* While close() drains, what is still live arrived before the tail it waits for;
\* after that nothing is live, and a closed seat has nothing to run a turn with.
CloseInv ==
  /\ closePc = "draining" =>
       /\ closeTail # None => Entered(closeTail)
       /\ \A r \in Request :
            Live(r) => closeTail # None /\ ticket[r] <= ticket[closeTail]
  /\ closePc \in {"releasing", "dropping", "closed"} => \A r \in Request : ~Live(r)
  /\ closePc = "closed" => transport = "null" /\ (kind = "exec" => status = "closed")
  /\ kind = "exec" => transport = "null" /\ \A a \in Approval : apc[a] # "asked"

\* A streaming request has a turn id to interrupt.
StreamInv == \A r \in Request : pc[r] = "streaming" => activeTurnId # None

\* A request that may still overwrite the delivery has taken an earlier ambiguity
\* off the record.
AmbiguityInv ==
  /\ AmbiguityRecorded
  /\ \A r \in Request : Live(r) /\ pc[r] # "settled" => ~unresolved

SeatInv ==
  TypeOK /\ LaneInv /\ CloseInv /\ StreamInv /\ AmbiguityInv /\ NeverBusy

-----------------------------------------------------------------------------
(* Types.                                                                  *)

LEMMA SetFacts ==
  /\ Canceller \subseteq CancelCall /\ Request \subseteq CancelCall
  /\ CloseCall \in CancelCall
  /\ Signalled \subseteq Request
  /\ None \notin Request
BY SeatAssumption DEF CancelCall, Request

LEMMA InitType == Init => TypeOK
<1> SUFFICES ASSUME Init PROVE TypeOK
  OBVIOUS
<1>1. LaneTypes /\ StreamTypes
  BY DEF Init, LaneTypes, StreamTypes, PC, Outcome
<1>2. RuntimeTypes
  BY SeatAssumption DEF Init, RuntimeTypes, Status, Delivery
<1>3. CallTypes /\ ServerTypes
  BY EmptySeq DEF Init, CallTypes, ServerTypes
<1> QED
  BY <1>1, <1>2, <1>3 DEF TypeOK

LEMMA RequestLaneTypes ==
  ASSUME LaneTypes, NEW r \in Request, RequestStep(r)  PROVE LaneTypes'
BY DEF LaneTypes, RequestStep, Refuse, Start, Accept, StartFails, Conclude, Finish,
   StreamCancelled, StreamBroken, StreamTimesOut, InterruptFails, Settle, Release,
   ExecStart, ExecEnds, laneVars, PC, LivePc, Streaming

LEMMA SettledType == \A result : SettledStatus(result) \in Status
BY DEF SettledStatus, Status

LEMMA RequestRuntimeTypes ==
  ASSUME RuntimeTypes, NEW r \in Request, RequestStep(r)  PROVE RuntimeTypes'
<1>1. CASE Settle(r)
  BY <1>1, SettledType DEF RuntimeTypes, Settle, runtimeVars, Delivery
<1>2. ASSUME NEW result \in ExecResult, ExecEnds(r, result)  PROVE RuntimeTypes'
  BY <1>2, SettledType DEF RuntimeTypes, ExecEnds, runtimeVars, Delivery
<1>3. CASE Start(r) \/ ExecStart(r) \/ Accept(r) \/ Release(r) \/ InterruptFails(r)
  BY <1>3 DEF RuntimeTypes, Start, ExecStart, Accept, Release, InterruptFails, Conclude,
     runtimeVars, Status, Delivery
<1>4. CASE \/ Refuse(r) \/ StartFails(r) \/ Finish(r)
           \/ StreamCancelled(r) \/ StreamBroken(r) \/ StreamTimesOut(r)
  BY <1>4 DEF RuntimeTypes, Refuse, StartFails, Finish, StreamCancelled, StreamBroken,
     StreamTimesOut, Conclude, runtimeVars
<1> QED
  BY <1>1, <1>2, <1>3, <1>4 DEF RequestStep

LEMMA RequestStreamTypes ==
  ASSUME StreamTypes, NEW r \in Request, RequestStep(r)  PROVE StreamTypes'
<1>1. CASE Refuse(r)
  <2>1. Refusal(r) \in Outcome
    BY <1>1 DEF Refuse, Refusal, Outcome, Refused
  <2> QED
    BY <1>1, <2>1 DEF StreamTypes, Refuse, streamVars
<1>2. ASSUME ~Refuse(r)  PROVE StreamTypes'
  BY <1>2 DEF StreamTypes, RequestStep, Start, Accept, StartFails, Conclude, Finish,
     StreamCancelled, StreamBroken, StreamTimesOut, InterruptFails, Settle, Release,
     ExecStart, ExecEnds, ExecResult, streamVars, Outcome
<1> QED BY <1>1, <1>2

LEMMA RequestCallTypes ==
  ASSUME CallTypes, NEW r \in Request, RequestStep(r)  PROVE CallTypes'
<1>1. UNCHANGED <<cpc, target, apc, closeVars>>
  BY DEF RequestStep, Refuse, Start, Accept, StartFails, Conclude, Finish,
     StreamCancelled, StreamBroken, StreamTimesOut, InterruptFails, Settle, Release,
     ExecStart, ExecEnds
<1> QED
  BY <1>1 DEF CallTypes, closeVars

LEMMA SendType ==
  ASSUME ServerTypes, NEW m \in Message  PROVE Append(wire, m) \in Seq(Message)
BY AppendProperties DEF ServerTypes

LEMMA KillType == ServerTypes /\ KillServer => ServerTypes'
BY EmptySeq DEF ServerTypes, KillServer

LEMMA RequestServerTypes ==
  ASSUME ServerTypes, RuntimeTypes, StreamInv, NEW r \in Request, RequestStep(r)
  PROVE  ServerTypes'
<1>1. CASE Start(r)
  <2>1. [op |-> "start", turn |-> r, by |-> Stream] \in Message
    BY DEF Message
  <2> QED
    BY <1>1, <2>1, SendType DEF Start, ServerTypes
<1>2. CASE StreamTimesOut(r)
  <2>1. [op |-> "interrupt", turn |-> activeTurnId, by |-> Stream] \in Message
    BY <1>2 DEF Message, StreamTimesOut, RuntimeTypes, StreamInv
  <2> QED
    BY <1>2, <2>1, SendType DEF StreamTimesOut, ServerTypes
<1>3. CASE InterruptFails(r)
  BY <1>3, KillType DEF InterruptFails
<1>4. ASSUME ~Start(r), ~StreamTimesOut(r), ~InterruptFails(r)  PROVE ServerTypes'
  BY <1>4 DEF ServerTypes, RequestStep, Refuse, Accept, StartFails, Conclude, Finish,
     StreamCancelled, StreamBroken, Settle, Release, ExecStart, ExecEnds, serverVars
<1> QED BY <1>1, <1>2, <1>3, <1>4

\* What cancel() changes, in either of its halves, stays in range.
CancelTypes ==
  /\ transport \in {"up", "dead", "null"} /\ status \in Status /\ stored \in Delivery
  /\ aborted \subseteq Request
  /\ cpc \in [CancelCall -> {"new", "waiting", "replied", "failed", "done"}]
  /\ target \in [CancelCall -> Request \cup {None}]
  /\ wire \in Seq(Message)

LEMMA InterruptType ==
  ASSUME ServerTypes, RuntimeTypes, activeTurnId # None, NEW c \in CancelCall
  PROVE  Append(wire, [op |-> "interrupt", turn |-> activeTurnId, by |-> c]) \in Seq(Message)
<1>1. [op |-> "interrupt", turn |-> activeTurnId, by |-> c] \in Message
  BY DEF Message, RuntimeTypes
<1> QED BY <1>1, SendType

LEMMA AbortTypes ==
  ASSUME TypeOK, NEW c \in CancelCall, NEW tr \in {"up", "dead", "null"},
         controller # None, AbortActive(c, tr)
  PROVE  CancelTypes'
<1>1. controller \in Request /\ controller \in CancelCall
  BY SetFacts DEF TypeOK, RuntimeTypes
<1>2. /\ transport' \in {"up", "dead", "null"} /\ status' \in Status
      /\ stored' \in Delivery /\ aborted' \subseteq Request
  BY <1>1 DEF AbortActive, TypeOK, RuntimeTypes, StreamTypes, Status
<1>3. /\ cpc' \in [CancelCall -> {"new", "waiting", "replied", "failed", "done"}]
      /\ target' \in [CancelCall -> Request \cup {None}]
  BY <1>1 DEF AbortActive, TypeOK, CallTypes
<1>4. wire' \in Seq(Message)
  BY <1>1, InterruptType DEF AbortActive, TypeOK, ServerTypes
<1> QED BY <1>2, <1>3, <1>4 DEF CancelTypes

LEMMA BeginCancelTypes ==
  ASSUME TypeOK, NEW c \in CancelCall, BeginCancel(c)  PROVE CancelTypes'
<1>1. CASE controller # None /\ ~Interruptible /\ AbortActive(c, transport)
  BY <1>1, AbortTypes DEF TypeOK, RuntimeTypes
<1>2. CASE /\ controller # None /\ Interruptible
           /\ wire' = Append(wire, [op |-> "interrupt", turn |-> activeTurnId, by |-> c])
           /\ cpc' = [cpc EXCEPT ![c] = "waiting"]
           /\ target' = [target EXCEPT ![c] = controller]
           /\ UNCHANGED <<status, transport, aborted, stored>>
  <2>1. wire' \in Seq(Message)
    BY <1>2, InterruptType DEF TypeOK, Interruptible
  <2> QED
    BY <1>2, <2>1 DEF CancelTypes, TypeOK, RuntimeTypes, StreamTypes, CallTypes
<1>3. CASE /\ cpc' = [cpc EXCEPT ![c] = "done"]
           /\ UNCHANGED <<status, transport, aborted, stored, target, wire>>
  BY <1>3 DEF CancelTypes, TypeOK, RuntimeTypes, StreamTypes, CallTypes, ServerTypes
<1> QED BY <1>1, <1>2, <1>3 DEF BeginCancel

LEMMA CancelStepType ==
  ASSUME TypeOK, NEW c \in CancelCall, CancelStep(c)  PROVE TypeOK'
<1>1. CASE CancelGivesUp(c)
  <2>1. ServerTypes'
    BY <1>1, KillType DEF CancelGivesUp, TypeOK
  <2> QED
    BY <1>1, <2>1 DEF CancelGivesUp, TypeOK, LaneTypes, RuntimeTypes, StreamTypes,
       CallTypes, laneVars, runtimeVars, streamVars, closeVars
<1>2. CASE CancelResumes(c)
  <2>1. CASE controller = None
    <3>1. CancelTypes'
      BY <1>2, <2>1 DEF CancelResumes, CancelEnds, CancelTypes, TypeOK, RuntimeTypes,
         StreamTypes, CallTypes, ServerTypes
    <3> QED
      BY <1>2, <3>1 DEF CancelResumes, CancelEnds, CancelTypes, TypeOK, LaneTypes,
         RuntimeTypes, StreamTypes, CallTypes, ServerTypes,
         laneVars, runtimeVars, streamVars, closeVars
  <2>2. CASE controller # None
    <3>1. CancelTypes'
      BY <1>2, <2>2, AbortTypes DEF CancelResumes, CancelEnds, TypeOK, RuntimeTypes
    <3> QED
      BY <1>2, <3>1 DEF CancelResumes, CancelEnds, CancelTypes, TypeOK, LaneTypes,
         RuntimeTypes, StreamTypes, CallTypes, ServerTypes,
         laneVars, runtimeVars, streamVars, closeVars
  <2> QED BY <2>1, <2>2
<1> QED BY <1>1, <1>2 DEF CancelStep

LEMMA CloseStepType ==
  ASSUME TypeOK, CloseStep  PROVE TypeOK'
<1>1. CASE CloseFinishes
  <2>1. ServerTypes'
    BY <1>1, KillType DEF CloseFinishes, TypeOK
  <2> QED
    BY <1>1, <2>1 DEF CloseFinishes, TypeOK, LaneTypes, RuntimeTypes, StreamTypes,
       CallTypes, Status, laneVars, runtimeVars, streamVars
<1>2. CASE CloseDrains
  BY <1>2 DEF CloseDrains, TypeOK, LaneTypes, RuntimeTypes, StreamTypes, CallTypes,
     ServerTypes, laneVars, runtimeVars, streamVars, serverVars
<1>3. CASE CloseDrained
  BY <1>3 DEF CloseDrained, TypeOK, LaneTypes, RuntimeTypes, StreamTypes, CallTypes,
     ServerTypes, laneVars, runtimeVars, streamVars, serverVars
<1>4. CASE ReleaseThread
  BY <1>4 DEF ReleaseThread, TypeOK, LaneTypes, RuntimeTypes, StreamTypes, CallTypes,
     ServerTypes, laneVars, streamVars, serverVars
<1>5. CASE CloseFails
  BY <1>5 DEF CloseFails, TypeOK, LaneTypes, RuntimeTypes, StreamTypes, CallTypes,
     ServerTypes, laneVars, runtimeVars, streamVars, serverVars
<1> QED BY <1>1, <1>2, <1>3, <1>4, <1>5 DEF CloseStep

LEMMA CallerStepType ==
  ASSUME TypeOK, CallerStep  PROVE TypeOK'
<1>1. ASSUME NEW r \in Request, Enqueue(r) \/ SignalQueued(r)  PROVE TypeOK'
  <2>1. LaneTypes'
    BY <1>1 DEF Enqueue, SignalQueued, TypeOK, LaneTypes, PC, laneVars
  <2>2. StreamTypes'
    BY <1>1 DEF Enqueue, SignalQueued, TypeOK, StreamTypes, streamVars
  <2> QED
    BY <1>1, <2>1, <2>2 DEF Enqueue, SignalQueued, TypeOK, RuntimeTypes,
       CallTypes, ServerTypes, runtimeVars, closeVars, serverVars
<1>2. ASSUME NEW r \in Request, SignalRunning(r)  PROVE TypeOK'
  <2>1. r \in CancelCall
    BY SetFacts
  <2>2. wire' \in Seq(Message)
    BY <1>2, <2>1, InterruptType DEF SignalRunning, Interruptible, TypeOK, ServerTypes
  <2>3. CallTypes'
    BY <1>2, <2>1 DEF SignalRunning, TypeOK, CallTypes, closeVars
  <2>4. RuntimeTypes'
    BY <1>2 DEF SignalRunning, TypeOK, RuntimeTypes, Status, runtimeVars
  <2> QED
    BY <1>2, <2>2, <2>3, <2>4 DEF SignalRunning, TypeOK, LaneTypes, StreamTypes,
       ServerTypes, streamVars, laneVars
<1>3. ASSUME NEW c \in Canceller, Cancel(c)  PROVE TypeOK'
  <2>1. CancelTypes'
    BY <1>3, SetFacts, BeginCancelTypes DEF Cancel
  <2> QED
    BY <1>3, <2>1 DEF Cancel, CancelTypes, TypeOK, LaneTypes, RuntimeTypes, StreamTypes,
       CallTypes, ServerTypes, runtimeVars, streamVars, closeVars, laneVars
<1>4. ASSUME NEW drop \in BOOLEAN, Close(drop)  PROVE TypeOK'
  <2>1. CancelTypes'
    BY <1>4, SetFacts, BeginCancelTypes DEF Close
  <2> QED
    BY <1>4, <2>1 DEF Close, CancelTypes, TypeOK, LaneTypes, RuntimeTypes, StreamTypes,
       CallTypes, ServerTypes, runtimeVars, streamVars, laneVars
<1>5. ASSUME NEW a \in Approval, ApprovalAsked(a) \/ ApprovalAnswered(a)  PROVE TypeOK'
  <2>1. RuntimeTypes' /\ CallTypes'
    BY <1>5 DEF ApprovalAsked, ApprovalAnswered, TypeOK, RuntimeTypes, CallTypes, Status,
       runtimeVars, closeVars
  <2> QED
    BY <1>5, <2>1 DEF ApprovalAsked, ApprovalAnswered, TypeOK, LaneTypes, StreamTypes,
       ServerTypes, streamVars, serverVars, laneVars
<1> QED
  BY <1>1, <1>2, <1>3, <1>4, <1>5, SetFacts DEF CallerStep

LEMMA ServerStepType ==
  ASSUME TypeOK, ServerStep  PROVE TypeOK'
<1>0. ASSUME wire # <<>>
      PROVE  /\ Head(wire) \in Message /\ Tail(wire) \in Seq(Message)
             /\ Head(wire).turn \in Request /\ Head(wire).by \in CancelCall \cup {Stream}
  <2>1. Head(wire) \in Message /\ Tail(wire) \in Seq(Message)
    BY <1>0, HeadTailProperties DEF TypeOK, ServerTypes
  <2> QED BY <2>1 DEF Message
<1>1. CASE ServerStarts
  BY <1>0, <1>1 DEF ServerStarts, TypeOK, LaneTypes, RuntimeTypes, StreamTypes, CallTypes,
     ServerTypes, runtimeVars, streamVars, closeVars, laneVars
<1>2. CASE ServerRefuses
  <2>1. ServerTypes'
    BY <1>0, <1>2 DEF ServerRefuses, TypeOK, ServerTypes
  <2>2. LaneTypes' /\ StreamTypes'
    BY <1>2 DEF ServerRefuses, Conclude, TypeOK, LaneTypes, StreamTypes,
       PC, LivePc, Streaming, Outcome, streamVars, laneVars
  <2>3. RuntimeTypes' /\ CallTypes'
    BY <1>2 DEF ServerRefuses, Conclude, TypeOK, RuntimeTypes, CallTypes,
       runtimeVars, closeVars
  <2> QED BY <2>1, <2>2, <2>3 DEF TypeOK
<1>3. CASE ServerInterrupts
  <2>1. ServerTypes'
    BY <1>0, <1>3 DEF ServerInterrupts, TypeOK, ServerTypes
  <2>2. seen' \in [Request -> {"none", "completed", "turn-failed", "cancelled"}]
    BY <1>0, <1>3 DEF ServerInterrupts, Notified, TypeOK, StreamTypes
  <2>3. outcome' \in [Request -> Outcome] /\ pc' \in [Request -> PC]
    BY <1>3 DEF ServerInterrupts, TypeOK, StreamTypes, LaneTypes,
       PC, LivePc, Streaming, Outcome
  <2>4. CallTypes'
    BY <1>0, <1>3 DEF ServerInterrupts, TypeOK, CallTypes, closeVars
  <2> QED
    BY <1>3, <2>1, <2>2, <2>3, <2>4 DEF ServerInterrupts, TypeOK, LaneTypes, RuntimeTypes,
       StreamTypes, runtimeVars, laneVars
<1>4. CASE TransportFails
  BY <1>4, KillType DEF TransportFails, TypeOK, LaneTypes, RuntimeTypes, StreamTypes,
     CallTypes, runtimeVars, streamVars, closeVars, laneVars
<1>5. ASSUME NEW r \in Request, NEW how \in {"completed", "turn-failed"}, ServerEnds(r, how)
      PROVE  TypeOK'
  BY <1>5 DEF ServerEnds, Notified, TypeOK, LaneTypes, RuntimeTypes, StreamTypes, CallTypes,
     ServerTypes, runtimeVars, closeVars, laneVars
<1> QED BY <1>1, <1>2, <1>3, <1>4, <1>5 DEF ServerStep

LEMMA ResumeType ==
  ASSUME TypeOK, Resume  PROVE TypeOK'
<1>1. kind' \in {"app-server", "exec"}
  BY SeatAssumption DEF Resume
<1> QED
  BY <1>1, EmptySeq DEF Resume, RestoredDelivery, TypeOK, LaneTypes, RuntimeTypes,
     StreamTypes, CallTypes, ServerTypes, PC, Status

LEMMA StepType ==
  ASSUME TypeOK, StreamInv, [Next]_vars  PROVE TypeOK'
<1>1. ASSUME NEW r \in Request, RequestStep(r)  PROVE TypeOK'
  BY <1>1, RequestLaneTypes, RequestRuntimeTypes, RequestStreamTypes, RequestCallTypes,
     RequestServerTypes DEF TypeOK
<1>2. CASE UNCHANGED vars
  BY <1>2 DEF vars, TypeOK, LaneTypes, RuntimeTypes, StreamTypes, CallTypes, ServerTypes
<1> QED
  BY <1>1, <1>2, CancelStepType, CloseStepType, CallerStepType, ServerStepType, ResumeType
     DEF Next

-----------------------------------------------------------------------------
(* The lane: what a step may do to it.                                     *)

\* The request whose turn it is takes the seat.
Admit(r) ==
  /\ MyTurn(r)
  /\ Refusal(r) = "none"
  /\ \E p \in LivePc : pc' = [pc EXCEPT ![r] = p]
  /\ controller' = r
  /\ UNCHANGED <<gate, laneVars>>

\* At most a live request advances, and it stays live.
Quiet ==
  /\ \A r \in Request : pc'[r] = pc[r] \/ (Live(r) /\ pc'[r] \in LivePc)
  /\ UNCHANGED <<gate, controller, laneVars>>

LaneStep ==
  \/ \E r \in Request : Enqueue(r) \/ Refuse(r) \/ Admit(r) \/ Release(r)
  \/ Resume
  \/ Quiet

LEMMA RequestLaneStep ==
  ASSUME LaneTypes, NEW r \in Request, RequestStep(r)  PROVE LaneStep
<1>1. CASE Start(r) \/ ExecStart(r)
  <2>1. Admit(r)
    BY <1>1 DEF Admit, Start, ExecStart, LivePc, Streaming
  <2> QED BY <2>1 DEF LaneStep
<1>2. CASE Refuse(r) \/ Release(r)
  BY <1>2 DEF LaneStep
<1>3. CASE \/ Accept(r) \/ StartFails(r) \/ Finish(r) \/ StreamCancelled(r)
           \/ StreamBroken(r) \/ StreamTimesOut(r) \/ InterruptFails(r) \/ Settle(r)
           \/ \E result \in ExecResult : ExecEnds(r, result)
  <2>1. Quiet
    BY <1>3 DEF Quiet, LaneTypes, Accept, StartFails, Finish, StreamCancelled, StreamBroken,
       StreamTimesOut, InterruptFails, Settle, ExecEnds, Conclude, Live, LivePc, Streaming
  <2> QED BY <2>1 DEF LaneStep
<1> QED BY <1>1, <1>2, <1>3 DEF RequestStep

LEMMA NextLaneStep ==
  ASSUME LaneTypes, [Next]_vars  PROVE LaneStep
<1>1. ASSUME NEW r \in Request, Enqueue(r)  PROVE LaneStep
  BY <1>1 DEF LaneStep
<1>2. CASE Resume
  BY <1>2 DEF LaneStep
<1>3. CASE ServerStep
  BY <1>3 DEF LaneStep, Quiet, ServerStep, ServerStarts, ServerRefuses, ServerInterrupts,
     ServerEnds, TransportFails, Conclude, LaneTypes, Live, LivePc, Streaming
<1>4. CASE \/ CloseStep \/ UNCHANGED vars
           \/ \E r \in Signalled : SignalQueued(r) \/ SignalRunning(r)
           \/ \E c \in Canceller : Cancel(c)
           \/ \E drop \in BOOLEAN : Close(drop)
           \/ \E a \in Approval : ApprovalAsked(a) \/ ApprovalAnswered(a)
           \/ \E c \in CancelCall : CancelStep(c)
  <2>1. UNCHANGED <<pc, gate, controller, laneVars>>
    BY <1>4 DEF CloseStep, CloseDrains, CloseDrained, ReleaseThread, CloseFails,
       CloseFinishes, SignalQueued, SignalRunning, Cancel, Close, ApprovalAsked,
       ApprovalAnswered, CancelStep, CancelGivesUp, CancelResumes, CancelEnds, vars, laneVars
  <2> QED BY <2>1 DEF LaneStep, Quiet
<1> QED
  BY <1>1, <1>2, <1>3, <1>4, RequestLaneStep DEF Next, CallerStep

\* When it is a request's turn, every earlier one is over and none is live.
LEMMA TurnComes ==
  ASSUME LaneTypes, RuntimeTypes, LaneInv, NEW r \in Request, MyTurn(r)
  PROVE  /\ \A s \in Request : Entered(s) /\ ticket[s] < ticket[r] => gate[s]
         /\ \A s \in Request : ~Live(s)
         /\ controller = None
<1>1. ASSUME NEW s \in Request, Entered(s), ticket[s] < ticket[r]  PROVE gate[s]
  <2>1. CASE prev[r] = None
    BY <1>1, <2>1 DEF MyTurn, LaneInv, Predecessor
  <2>2. CASE prev[r] # None
    <3>1. prev[r] \in Request /\ gate[prev[r]] /\ ticket[s] <= ticket[prev[r]]
      BY <1>1, <2>2 DEF MyTurn, LaneInv, Predecessor, LaneTypes
    <3>2. pc[prev[r]] \in {"done", "lost"}
      BY <3>1 DEF LaneInv, Gates
    <3>3. CASE ticket[s] = ticket[prev[r]]
      BY <1>1, <3>1, <3>3 DEF LaneInv, Tickets
    <3>4. CASE ticket[s] < ticket[prev[r]]
      BY <1>1, <3>1, <3>2, <3>4 DEF LaneInv, Past
    <3> QED BY <3>1, <3>3, <3>4 DEF LaneTypes
  <2> QED BY <2>1, <2>2
<1>2. ASSUME NEW s \in Request, Live(s)  PROVE FALSE
  <2>1. s # r /\ Entered(s) /\ Entered(r) /\ ~gate[s] /\ ~gate[r]
    BY <1>2 DEF MyTurn, Live, LivePc, Streaming, LaneInv, Tickets, Gates
  <2>2. ticket[s] < ticket[r] \/ ticket[r] < ticket[s]
    BY <2>1 DEF LaneInv, Tickets, LaneTypes
  <2> QED
    BY <1>1, <1>2, <2>1, <2>2 DEF LaneInv, Past, Live, LivePc, Streaming
<1> QED
  BY <1>1, <1>2 DEF LaneInv, Control, RuntimeTypes

LEMMA LaneInvInit == Init => LaneInv
BY SetFacts DEF Init, LaneInv, Tickets, Gates, Past, Predecessor, LastIn, Control, Entered,
   Live, LivePc, Streaming

LEMMA EnqueueLaneInv ==
  ASSUME LaneTypes, LaneInv, NEW r \in Request, Enqueue(r)  PROVE LaneInv'
<1>1. /\ pc' = [pc EXCEPT ![r] = "queued"] /\ prev' = [prev EXCEPT ![r] = tail]
      /\ ticket' = [ticket EXCEPT ![r] = issued + 1] /\ issued' = issued + 1
      /\ tail' = r /\ UNCHANGED <<gate, controller>> /\ pc[r] = "new" /\ ~Entered(r)
  BY DEF Enqueue, LaneInv, Tickets
<1>2. Tickets'
  BY <1>1 DEF LaneTypes, LaneInv, Tickets, Entered
<1>3. Gates' /\ Control'
  BY <1>1 DEF LaneTypes, LaneInv, Gates, Control, Live, LivePc, Streaming
<1>4. Past'
  BY <1>1 DEF LaneTypes, LaneInv, Past, Entered, Tickets
<1>5. Predecessor'
  <2>1. ASSUME NEW q \in Request, pc'[q] = "queued", q # r
        PROVE  /\ prev'[q] = None =>
                    \A s \in Request : Entered(s)' /\ ticket'[s] < ticket'[q] => gate'[s]
               /\ prev'[q] # None =>
                    /\ Entered(prev[q])' /\ ticket'[prev'[q]] < ticket'[q]
                    /\ \A s \in Request : ticket'[s] < ticket'[q] => ticket'[s] <= ticket'[prev'[q]]
    BY <1>1, <2>1 DEF LaneTypes, LaneInv, Predecessor, Entered, Tickets
  <2>2. /\ prev'[r] = None =>
             \A s \in Request : Entered(s)' /\ ticket'[s] < ticket'[r] => gate'[s]
        /\ prev'[r] # None =>
             /\ Entered(prev[r])' /\ ticket'[prev'[r]] < ticket'[r]
             /\ \A s \in Request : ticket'[s] < ticket'[r] => ticket'[s] <= ticket'[prev'[r]]
    BY <1>1 DEF LaneTypes, LaneInv, LastIn, Entered, Tickets
  <2> QED BY <2>1, <2>2 DEF Predecessor
<1>6. LastIn'
  BY <1>1, SetFacts DEF LaneTypes, LaneInv, LastIn, Tickets, Entered
<1> QED BY <1>2, <1>3, <1>4, <1>5, <1>6 DEF LaneInv

LEMMA RefuseLaneInv ==
  ASSUME TypeOK, LaneInv, NEW r \in Request, Refuse(r)  PROVE LaneInv'
<1>1. /\ pc' = [pc EXCEPT ![r] = "done"] /\ gate' = [gate EXCEPT ![r] = TRUE]
      /\ UNCHANGED <<controller, prev, tail, ticket, issued>> /\ pc[r] = "queued"
  BY DEF Refuse, MyTurn, laneVars
<1>2. \A s \in Request : Entered(s) /\ ticket[s] < ticket[r] => gate[s]
  BY TurnComes DEF Refuse, TypeOK
<1> QED
  BY <1>1, <1>2 DEF TypeOK, LaneTypes, LaneInv, Tickets, Gates, Past, Predecessor, LastIn,
     Control, Entered, Live, LivePc, Streaming

LEMMA AdmitLaneInv ==
  ASSUME TypeOK, LaneInv, NEW r \in Request, Admit(r)  PROVE LaneInv'
<1>1. PICK p \in LivePc : pc' = [pc EXCEPT ![r] = p]
  BY DEF Admit
<1>2. /\ controller' = r /\ UNCHANGED <<gate, prev, tail, ticket, issued>>
      /\ pc[r] = "queued"
  BY DEF Admit, MyTurn, laneVars
<1>3. /\ \A s \in Request : Entered(s) /\ ticket[s] < ticket[r] => gate[s]
      /\ \A s \in Request : ~Live(s)
  BY TurnComes DEF Admit, TypeOK
<1>4. Tickets' /\ Gates' /\ Predecessor' /\ LastIn'
  BY <1>1, <1>2 DEF TypeOK, LaneTypes, LaneInv, Tickets, Gates, Predecessor, LastIn,
     Entered, LivePc, Streaming
<1>5. Past' /\ Control'
  BY <1>1, <1>2, <1>3 DEF TypeOK, LaneTypes, LaneInv, Past, Control, Entered,
     Live, LivePc, Streaming
<1> QED BY <1>4, <1>5 DEF LaneInv

LEMMA ReleaseLaneInv ==
  ASSUME TypeOK, LaneInv, NEW r \in Request, Release(r)  PROVE LaneInv'
<1>1. /\ pc' = [pc EXCEPT ![r] = "done"] /\ gate' = [gate EXCEPT ![r] = TRUE]
      /\ controller' = None /\ UNCHANGED <<prev, tail, ticket, issued>>
      /\ pc[r] = "settled" /\ controller = r
  BY DEF Release, laneVars, LaneInv, Control, Live, LivePc
<1>2. Tickets' /\ Gates' /\ Predecessor' /\ LastIn' /\ Past'
  BY <1>1 DEF TypeOK, LaneTypes, LaneInv, Tickets, Gates, Predecessor, LastIn, Past, Entered
<1>3. Control'
  BY <1>1, SetFacts DEF TypeOK, LaneTypes, LaneInv, Control, Live, LivePc, Streaming
<1> QED BY <1>2, <1>3 DEF LaneInv

LEMMA ResumeLaneInv ==
  ASSUME TypeOK, LaneInv, Resume  PROVE LaneInv'
BY SetFacts DEF Resume, TypeOK, LaneTypes, LaneInv, Tickets, Gates, Past, Predecessor, LastIn,
   Control, Entered, Live, LivePc, Streaming

LEMMA QuietLaneInv ==
  ASSUME TypeOK, LaneInv, Quiet  PROVE LaneInv'
<1>1. /\ \A r \in Request : pc'[r] = pc[r] \/ (Live(r) /\ pc'[r] \in LivePc)
      /\ UNCHANGED <<gate, controller, prev, tail, ticket, issued>>
  BY DEF Quiet, laneVars
<1>2. \A r \in Request :
        /\ pc'[r] = "new" <=> pc[r] = "new"
        /\ pc'[r] = "queued" <=> pc[r] = "queued"
        /\ pc'[r] \in {"done", "lost"} <=> pc[r] \in {"done", "lost"}
        /\ Live(r)' <=> Live(r)
  BY <1>1 DEF Live, LivePc, Streaming
<1> QED
  BY <1>1, <1>2 DEF TypeOK, LaneTypes, LaneInv, Tickets, Gates, Past, Predecessor, LastIn,
     Control, Entered

LEMMA StepLaneInv ==
  ASSUME TypeOK, LaneInv, [Next]_vars  PROVE LaneInv'
BY NextLaneStep, EnqueueLaneInv, RefuseLaneInv, AdmitLaneInv, ReleaseLaneInv, ResumeLaneInv,
   QuietLaneInv DEF LaneStep, TypeOK

-----------------------------------------------------------------------------
(* close(), ambiguity and the defensive check.                             *)

\* From the moment close() drains the lane nobody is admitted, and the live
\* requests only get fewer.
LEMMA LiveShrinks ==
  ASSUME TypeOK, CloseInv, [Next]_vars,
         closePc \in {"draining", "releasing", "dropping", "closed"}
  PROVE  \A r \in Request : Live(r)' => Live(r)
<1>1. ASSUME NEW r \in Request, Admit(r)  PROVE FALSE
  <2>1. CASE closePc # "closed"
    BY <1>1, <2>1 DEF Admit, Refusal, Shut, Closing
  <2>2. CASE closePc = "closed"
    BY <1>1, <2>2 DEF Admit, Refusal, Shut, CloseInv, Request, TypeOK, RuntimeTypes
  <2> QED BY <2>1, <2>2
<1>2. ASSUME NEW r \in Request, Enqueue(r) \/ Refuse(r) \/ Release(r)
      PROVE  \A q \in Request : Live(q)' => Live(q)
  BY <1>2 DEF Enqueue, Refuse, Release, TypeOK, LaneTypes, Live, LivePc, Streaming
<1>3. CASE Resume
  BY <1>3 DEF Resume, Live, LivePc, Streaming
<1>4. CASE Quiet
  BY <1>4 DEF Quiet, Live
<1> QED
  BY <1>1, <1>2, <1>3, <1>4, NextLaneStep DEF LaneStep, TypeOK

\* The transport of an exec seat, or of a closed one, stays null.
LEMMA StaysNull ==
  ASSUME TypeOK, transport = "null", [Next]_vars  PROVE transport' = "null" \/ Resume
<1>1. ASSUME NEW r \in Request, RequestStep(r)  PROVE transport' = "null"
  BY <1>1 DEF RequestStep, Refuse, Start, Accept, StartFails, Conclude, Finish,
     StreamCancelled, StreamBroken, StreamTimesOut, InterruptFails, Settle, Release,
     ExecStart, ExecEnds
<1>2. CASE CallerStep
  BY <1>2 DEF CallerStep, Enqueue, SignalQueued, SignalRunning, Cancel, Close, BeginCancel,
     AbortActive, ApprovalAsked, ApprovalAnswered
<1>3. ASSUME NEW c \in CancelCall, CancelStep(c)  PROVE transport' = "null"
  BY <1>3 DEF CancelStep, CancelGivesUp, CancelResumes, CancelEnds, AbortActive
<1>4. CASE CloseStep \/ ServerStep \/ UNCHANGED vars
  BY <1>4 DEF CloseStep, CloseDrains, CloseDrained, ReleaseThread, CloseFails, CloseFinishes,
     ServerStep, ServerStarts, ServerRefuses, ServerInterrupts, ServerEnds, TransportFails,
     Conclude, vars
<1> QED BY <1>1, <1>2, <1>3, <1>4 DEF Next

\* With no live request, no transport and no approval asked a closed seat keeps
\* its status.
LEMMA StaysClosed ==
  ASSUME TypeOK, LaneInv, CloseInv, [Next]_vars, closePc = "closed", status = "closed",
         kind = "exec"
  PROVE  status' = "closed" \/ Resume
<1>1. \A r \in Request : ~Live(r)
  BY DEF CloseInv
<1>2. controller = None
  BY <1>1 DEF LaneInv, Control, TypeOK, RuntimeTypes
<1>3. ASSUME NEW r \in Request, RequestStep(r)  PROVE status' = "closed"
  BY <1>1, <1>3 DEF RequestStep, Refuse, Start, Accept, StartFails, Conclude, Finish,
     StreamCancelled, StreamBroken, StreamTimesOut, InterruptFails, Settle, Release,
     ExecStart, ExecEnds, Refusal, Shut, Live, LivePc, Streaming
<1>4. CASE CallerStep
  BY <1>1, <1>2, <1>4, SetFacts DEF CallerStep, Enqueue, SignalQueued, SignalRunning, Cancel,
     Close, BeginCancel, ApprovalAsked, ApprovalAnswered, CloseInv
<1>5. ASSUME NEW c \in CancelCall, CancelStep(c)  PROVE status' = "closed"
  BY <1>2, <1>5 DEF CancelStep, CancelGivesUp, CancelResumes, CancelEnds
<1>6. CASE CloseStep \/ ServerStep \/ UNCHANGED vars
  BY <1>6 DEF CloseStep, CloseDrains, CloseDrained, ReleaseThread, CloseFails, CloseFinishes,
     ServerStep, ServerStarts, ServerRefuses, ServerInterrupts, ServerEnds, TransportFails,
     Conclude, vars
<1> QED BY <1>3, <1>4, <1>5, <1>6 DEF Next

\* The steps of close() itself; every other step but a restart leaves its place.
CloseMoves ==
  \/ UNCHANGED <<closePc, closeTail>>
  \/ closePc' \in {"open", "cancelling"}
  \/ CloseDrains \/ CloseDrained \/ ReleaseThread \/ CloseFinishes

LEMMA NextCloseMoves == [Next]_vars => CloseMoves
<1>1. ASSUME NEW r \in Request, RequestStep(r)  PROVE CloseMoves
  BY <1>1 DEF RequestStep, Refuse, Start, Accept, StartFails, Conclude, Finish,
     StreamCancelled, StreamBroken, StreamTimesOut, InterruptFails, Settle, Release,
     ExecStart, ExecEnds, closeVars, CloseMoves
<1>2. CASE CallerStep
  BY <1>2 DEF CallerStep, Enqueue, SignalQueued, SignalRunning, Cancel, Close,
     ApprovalAsked, ApprovalAnswered, closeVars, CloseMoves
<1>3. CASE CloseStep \/ Resume
  BY <1>3 DEF CloseStep, CloseFails, Resume, CloseMoves
<1>4. CASE ServerStep \/ UNCHANGED vars \/ \E c \in CancelCall : CancelStep(c)
  BY <1>4 DEF ServerStep, ServerStarts, ServerRefuses, ServerInterrupts, ServerEnds,
     TransportFails, Conclude, CancelStep, CancelGivesUp, CancelResumes, CancelEnds,
     closeVars, vars, CloseMoves
<1> QED BY <1>1, <1>2, <1>3, <1>4 DEF Next

LEMMA TicketsStay ==
  ASSUME TypeOK, LaneInv, [Next]_vars
  PROVE  \A r \in Request : Entered(r) => ticket'[r] = ticket[r]
<1>1. ASSUME NEW q \in Request, Enqueue(q)
      PROVE  \A r \in Request : Entered(r) => ticket'[r] = ticket[r]
  BY <1>1 DEF Enqueue, LaneInv, Tickets, TypeOK, LaneTypes
<1>2. ASSUME NEW q \in Request, Refuse(q) \/ Admit(q) \/ Release(q)  PROVE ticket' = ticket
  BY <1>2 DEF Refuse, Admit, Release, laneVars
<1>3. CASE Resume \/ Quiet
  BY <1>3 DEF Resume, Quiet, laneVars
<1> QED BY <1>1, <1>2, <1>3, NextLaneStep DEF LaneStep, TypeOK

\* Only a restart changes the kind of transport.
LEMMA KindStays ==
  ASSUME [Next]_vars, ~Resume  PROVE kind' = kind
<1>1. ASSUME NEW r \in Request, RequestStep(r)  PROVE kind' = kind
  BY <1>1 DEF RequestStep, Refuse, Start, Accept, StartFails, Conclude, Finish,
     StreamCancelled, StreamBroken, StreamTimesOut, InterruptFails, Settle, Release,
     ExecStart, ExecEnds, runtimeVars
<1>2. CASE CallerStep \/ CloseStep
  BY <1>2 DEF CallerStep, Enqueue, SignalQueued, SignalRunning, Cancel, Close,
     ApprovalAsked, ApprovalAnswered, CloseStep, CloseDrains, CloseDrained,
     ReleaseThread, CloseFails, CloseFinishes, runtimeVars
<1>3. CASE ServerStep \/ UNCHANGED vars \/ \E c \in CancelCall : CancelStep(c)
  BY <1>3 DEF ServerStep, ServerStarts, ServerRefuses, ServerInterrupts, ServerEnds,
     TransportFails, Conclude, CancelStep, CancelGivesUp, CancelResumes, CancelEnds,
     runtimeVars, vars
<1> QED BY <1>1, <1>2, <1>3 DEF Next

\* An exec seat has no transport to ask for approvals.
LEMMA ExecAsksNothing ==
  ASSUME TypeOK, CloseInv, [Next]_vars
  PROVE  kind' = "exec" => transport' = "null" /\ \A a \in Approval : apc'[a] # "asked"
<1>1. CASE Resume
  BY <1>1 DEF Resume
<1>2. CASE ~Resume
  <2>1. kind' = kind
    BY <1>2, KindStays
  <2>2. ASSUME kind = "exec"  PROVE \A a \in Approval : apc'[a] # "asked"
    <3>1. transport = "null" /\ \A a \in Approval : apc[a] # "asked"
      BY <2>2 DEF CloseInv
    <3>2. ASSUME NEW r \in Request, RequestStep(r)  PROVE apc' = apc
      BY <3>2 DEF RequestStep, Refuse, Start, Accept, StartFails, Conclude, Finish,
         StreamCancelled, StreamBroken, StreamTimesOut, InterruptFails, Settle, Release,
         ExecStart, ExecEnds
    <3>3. CASE CallerStep
      BY <3>1, <3>3 DEF CallerStep, Enqueue, SignalQueued, SignalRunning, Cancel, Close,
         ApprovalAsked, ApprovalAnswered
    <3>4. CASE CloseStep \/ ServerStep \/ UNCHANGED vars \/ \E c \in CancelCall : CancelStep(c)
      BY <3>1, <3>4 DEF CloseStep, CloseDrains, CloseDrained, ReleaseThread, CloseFails,
         CloseFinishes, ServerStep, ServerStarts, ServerRefuses, ServerInterrupts, ServerEnds,
         TransportFails, Conclude, CancelStep, CancelGivesUp, CancelResumes, CancelEnds, vars
    <3> QED BY <1>2, <3>1, <3>2, <3>3, <3>4 DEF Next
  <2> QED
    BY <1>2, <2>1, <2>2, StaysNull DEF CloseInv
<1> QED BY <1>1, <1>2

LEMMA StepCloseInv ==
  ASSUME TypeOK, LaneInv, CloseInv, [Next]_vars  PROVE CloseInv'
<1>1. ASSUME closePc' = "draining"
      PROVE  /\ closeTail' # None => Entered(closeTail)'
             /\ \A r \in Request :
                  Live(r)' => closeTail' # None /\ ticket'[r] <= ticket'[closeTail']
  <2>1. CASE CloseDrains
    <3>1. /\ closeTail' = tail /\ UNCHANGED <<pc, ticket>>
      BY <2>1 DEF CloseDrains, laneVars
    <3>2. \A r \in Request : Live(r) => ~gate[r] /\ Entered(r)
      BY DEF LaneInv, Gates, Tickets, Live, LivePc, Streaming
    <3> QED BY <3>1, <3>2 DEF LaneInv, LastIn, Live, Entered
  <2>2. CASE closePc = "draining" /\ closeTail' = closeTail
    <3>1. \A r \in Request : Live(r) => Entered(r)
      BY DEF LaneInv, Tickets, Live, LivePc, Streaming
    <3> QED
      BY <2>2, <3>1, LiveShrinks, TicketsStay DEF CloseInv, Entered, TypeOK, CallTypes
  <2> QED
    BY <1>1, <2>1, <2>2, NextCloseMoves DEF CloseMoves, CloseDrained, ReleaseThread,
       CloseFinishes
<1>2. ASSUME closePc' \in {"releasing", "dropping", "closed"}, NEW r \in Request
      PROVE  ~Live(r)'
  <2>1. CASE CloseDrained
    <3>1. Live(r)' <=> Live(r)
      BY <2>1 DEF CloseDrained, Live
    <3>2. ASSUME Live(r)  PROVE FALSE
      <4>1. /\ closeTail \in Request /\ gate[closeTail] /\ ticket[r] <= ticket[closeTail]
            /\ Entered(closeTail) /\ Entered(r) /\ ~gate[r]
        BY <2>1, <3>2 DEF CloseDrained, Drained, CloseInv, TypeOK, CallTypes, LaneInv, Gates,
           Tickets, Live, LivePc, Streaming
      <4>2. pc[closeTail] \in {"done", "lost"}
        BY <4>1 DEF LaneInv, Gates
      <4>3. CASE ticket[r] = ticket[closeTail]
        BY <4>1, <4>3 DEF LaneInv, Tickets
      <4>4. CASE ticket[r] < ticket[closeTail]
        BY <4>1, <4>2, <4>4 DEF LaneInv, Past
      <4> QED BY <4>1, <4>3, <4>4 DEF TypeOK, LaneTypes
    <3> QED BY <3>1, <3>2
  <2>2. CASE closePc \in {"releasing", "dropping", "closed"}
    BY <2>2, LiveShrinks DEF CloseInv
  <2> QED
    BY <1>2, <2>1, <2>2, NextCloseMoves DEF CloseMoves, CloseDrains, ReleaseThread,
       CloseFinishes
<1>3. ASSUME closePc' = "closed"
      PROVE  transport' = "null" /\ (kind' = "exec" => status' = "closed")
  <2>1. CASE CloseFinishes
    BY <2>1 DEF CloseFinishes
  <2>2. CASE closePc = "closed" /\ ~Resume
    BY <2>2, <1>3, StaysNull, StaysClosed, ExecAsksNothing, KindStays DEF CloseInv
  <2> QED
    BY <1>3, <2>1, <2>2, NextCloseMoves DEF CloseMoves, CloseDrains, CloseDrained,
       ReleaseThread, Resume
<1> QED
  BY <1>1, <1>2, <1>3, ExecAsksNothing DEF CloseInv

LEMMA StepStreamInv ==
  ASSUME TypeOK, LaneInv, CloseInv, StreamInv, [Next]_vars  PROVE StreamInv'
<1>1. ASSUME NEW r \in Request, RequestStep(r)  PROVE StreamInv'
  <2>1. CASE Accept(r)
    BY <2>1, SetFacts DEF Accept, StreamInv
  <2>2. CASE Release(r)
    BY <2>2 DEF Release, StreamInv, LaneInv, Control, Live, LivePc, Streaming, TypeOK, LaneTypes
  <2>3. CASE ~Accept(r) /\ ~Release(r)
    BY <1>1, <2>3 DEF RequestStep, Refuse, Start, StartFails, Conclude, Finish,
       StreamCancelled, StreamBroken, StreamTimesOut, InterruptFails, Settle,
       ExecStart, ExecEnds, StreamInv, TypeOK, LaneTypes
  <2> QED BY <2>1, <2>2, <2>3
<1>2. CASE CloseFinishes
  BY <1>2 DEF CloseFinishes, CloseInv, StreamInv, Live, LivePc, Streaming, laneVars
<1>3. CASE CallerStep
  BY <1>3 DEF CallerStep, Enqueue, SignalQueued, SignalRunning, Cancel, Close,
     ApprovalAsked, ApprovalAnswered, StreamInv, TypeOK, LaneTypes
<1>4. CASE \/ CloseDrains \/ CloseDrained \/ ReleaseThread \/ CloseFails
           \/ UNCHANGED vars \/ \E c \in CancelCall : CancelStep(c)
  BY <1>4 DEF CloseDrains, CloseDrained, ReleaseThread, CloseFails, CancelStep,
     CancelGivesUp, CancelResumes, CancelEnds, StreamInv, vars
<1>5. CASE ServerStep \/ Resume
  <2>1. CASE ServerStarts
    <3>1. wire # <<>> /\ Head(wire).turn \in Request
      <4>1. Head(wire) \in Message
        BY <2>1, HeadTailProperties DEF ServerStarts, TypeOK, ServerTypes
      <4> QED BY <2>1, <4>1 DEF ServerStarts, Message
    <3> QED BY <2>1, <3>1, SetFacts DEF ServerStarts, StreamInv
  <2>2. CASE ~ServerStarts
    BY <1>5, <2>2 DEF ServerStep, ServerRefuses, ServerInterrupts, ServerEnds, TransportFails,
       Conclude, Resume, StreamInv, TypeOK, LaneTypes
  <2> QED BY <2>1, <2>2
<1> QED BY <1>1, <1>2, <1>3, <1>4, <1>5 DEF Next, CloseStep

LEMMA StepAmbiguityInv ==
  ASSUME TypeOK, LaneInv, AmbiguityInv, [Next]_vars  PROVE AmbiguityInv'
<1>1. ASSUME NEW r \in Request, RequestStep(r)  PROVE AmbiguityInv'
  <2>1. CASE Start(r) \/ ExecStart(r)
    BY <2>1 DEF Start, ExecStart, AmbiguityInv, AmbiguityRecorded
  <2>2. CASE Accept(r) \/ \E result \in ExecResult : ExecEnds(r, result)
    BY <2>2 DEF Accept, ExecEnds, AmbiguityInv, AmbiguityRecorded, Live, LivePc, Streaming
  <2>3. CASE Settle(r)
    BY <2>3 DEF Settle, AmbiguityInv, AmbiguityRecorded, LaneInv, Control, Live, LivePc,
       Streaming, TypeOK, LaneTypes
  <2>4. CASE Refuse(r) \/ Release(r)
    BY <2>4 DEF Refuse, Release, AmbiguityInv, AmbiguityRecorded, Live, LivePc, Streaming,
       TypeOK, LaneTypes
  <2>5. CASE \/ StartFails(r) \/ Finish(r) \/ StreamCancelled(r)
             \/ StreamBroken(r) \/ StreamTimesOut(r) \/ InterruptFails(r)
    BY <2>5 DEF StartFails, Finish, StreamCancelled, StreamBroken, StreamTimesOut,
       InterruptFails, Conclude, AmbiguityInv, AmbiguityRecorded, Live, LivePc, Streaming,
       TypeOK, LaneTypes
  <2> QED BY <1>1, <2>1, <2>2, <2>3, <2>4, <2>5 DEF RequestStep
<1>2. CASE CallerStep
  <2>1. ASSUME NEW r \in Request, Enqueue(r)  PROVE AmbiguityInv'
    BY <2>1 DEF Enqueue, AmbiguityInv, AmbiguityRecorded, Live, LivePc, Streaming,
       TypeOK, LaneTypes
  <2>2. ASSUME ~\E r \in Request : Enqueue(r)
        PROVE  /\ UNCHANGED <<pc, delivery, unresolved>>
               /\ stored' = stored \/ stored' = delivery
    BY <1>2, <2>2 DEF CallerStep, SignalQueued, SignalRunning, Cancel, Close, BeginCancel,
       AbortActive, ApprovalAsked, ApprovalAnswered
  <2> QED BY <2>1, <2>2 DEF AmbiguityInv, AmbiguityRecorded, Live
<1>3. ASSUME NEW c \in CancelCall, CancelStep(c)  PROVE AmbiguityInv'
  BY <1>3 DEF CancelStep, CancelGivesUp, CancelResumes, CancelEnds, AbortActive,
     AmbiguityInv, AmbiguityRecorded, Live
<1>4. CASE CloseStep \/ Resume \/ UNCHANGED vars
  BY <1>4 DEF CloseStep, CloseDrains, CloseDrained, ReleaseThread, CloseFails, CloseFinishes,
     Resume, RestoredDelivery, vars, AmbiguityInv, AmbiguityRecorded, Live, LivePc, Streaming
<1>5. CASE ServerStep
  BY <1>5 DEF ServerStep, ServerStarts, ServerRefuses, ServerInterrupts, ServerEnds,
     TransportFails, Conclude, AmbiguityInv, AmbiguityRecorded, Live, LivePc, Streaming,
     TypeOK, LaneTypes
<1> QED BY <1>1, <1>2, <1>3, <1>4, <1>5 DEF Next

LEMMA StepNeverBusy ==
  ASSUME TypeOK, LaneInv, NeverBusy, [Next]_vars  PROVE NeverBusy'
<1>1. ASSUME NEW r \in Request, RequestStep(r)  PROVE NeverBusy'
  <2>1. CASE Refuse(r)
    <3>1. controller = None
      BY <2>1, TurnComes DEF Refuse, TypeOK
    <3>2. Refusal(r) # "SESSION_BUSY"
      BY <3>1 DEF Refusal
    <3> QED BY <2>1, <3>2 DEF Refuse, NeverBusy, TypeOK, StreamTypes
  <2>2. CASE ~Refuse(r)
    BY <1>1, <2>2 DEF RequestStep, Start, Accept, StartFails, Conclude, Finish,
       StreamCancelled, StreamBroken, StreamTimesOut, InterruptFails, Settle, Release,
       ExecStart, ExecEnds, ExecResult, NeverBusy, TypeOK, StreamTypes
  <2> QED BY <2>1, <2>2
<1>2. CASE CallerStep \/ CloseStep \/ Resume
  BY <1>2 DEF CallerStep, Enqueue, SignalQueued, SignalRunning, Cancel, Close,
     ApprovalAsked, ApprovalAnswered, CloseStep, CloseDrains, CloseDrained,
     ReleaseThread, CloseFails, CloseFinishes, Resume, NeverBusy
<1>3. CASE ServerStep \/ UNCHANGED vars \/ \E c \in CancelCall : CancelStep(c)
  BY <1>3 DEF ServerStep, ServerStarts, ServerRefuses, ServerInterrupts, ServerEnds,
     TransportFails, Conclude, CancelStep, CancelGivesUp, CancelResumes, CancelEnds,
     NeverBusy, TypeOK, StreamTypes, vars
<1> QED BY <1>1, <1>2, <1>3 DEF Next

-----------------------------------------------------------------------------
(* Theorems.                                                               *)

LEMMA InitSeatInv == Init => SeatInv
<1> SUFFICES ASSUME Init PROVE SeatInv
  OBVIOUS
<1>1. CloseInv /\ StreamInv /\ AmbiguityInv /\ NeverBusy
  BY DEF Init, CloseInv, StreamInv, AmbiguityInv, AmbiguityRecorded, NeverBusy,
     Live, LivePc, Streaming
<1> QED BY <1>1, InitType, LaneInvInit DEF SeatInv

\* SeatInv is inductive: it holds in every reachable state of the seat.
THEOREM SeatInvariant == Spec => []SeatInv
<1>1. SeatInv /\ [Next]_vars => SeatInv'
  BY StepType, StepLaneInv, StepCloseInv, StepStreamInv, StepAmbiguityInv, StepNeverBusy
     DEF SeatInv
<1> QED BY <1>1, InitSeatInv, PTL DEF Spec

\* Every variable stays in its range, the outcomes of turn() and review() included.
THEOREM TypeCorrect == Spec => []TypeOK
<1>1. SeatInv => TypeOK
  BY DEF SeatInv
<1> QED BY <1>1, SeatInvariant, PTL

\* One live turn per seat: no interleaving of turns, reviews, cancel(), close(),
\* approvals, transport failures and restarts makes two requests live at once, and
\* the controller always belongs to the live one.
THEOREM Exclusive == Spec => []LaneExclusive
<1>1. SeatInv => LaneExclusive
  BY DEF SeatInv, LaneInv, Control, LaneExclusive
<1> QED BY <1>1, SeatInvariant, PTL

\* SESSION_BUSY is never reported: the check of requireIdle() is only defensive.
THEOREM BusyUnreachable == Spec => []NeverBusy
<1>1. SeatInv => NeverBusy
  BY DEF SeatInv
<1> QED BY <1>1, SeatInvariant, PTL

\* close() releases the thread and the worktree only when nothing runs against them
\* any more, and nothing is admitted afterwards.
THEOREM DrainedBeforeCleanup == Spec => []CleanupAfterDrain
<1>1. SeatInv => CleanupAfterDrain
  BY DEF SeatInv, CloseInv, CleanupAfterDrain
<1> QED BY <1>1, SeatInvariant, PTL

\* An ambiguous delivery nobody has followed up stays on record, in memory and in
\* the attachment file, across cancel(), close() and a restart of the host.
THEOREM AmbiguityKept == Spec => []AmbiguityRecorded
<1>1. SeatInv => AmbiguityRecorded
  BY DEF SeatInv, AmbiguityInv
<1> QED BY <1>1, SeatInvariant, PTL

-----------------------------------------------------------------------------
(* The seat implements the first-come first-served lane.                   *)

Rank == [r \in Request |-> IF pc[r] = "queued" THEN ticket[r] ELSE 0]

LEMMA QueuedHaveTickets ==
  ASSUME TypeOK, LaneInv, NEW r \in Request
  PROVE  (Rank[r] # 0 <=> pc[r] = "queued") /\ (pc[r] = "queued" => Rank[r] = ticket[r])
BY DEF Rank, LaneInv, Tickets, Entered

\* The request whose turn it is comes first in line, and the seat is free.
LEMMA TurnIsFirst ==
  ASSUME TypeOK, LaneInv, NEW r \in Request, MyTurn(r)
  PROVE  Lane!First(r) /\ controller = None
<1>1. ASSUME NEW s \in Request, pc[s] = "queued"  PROVE ticket[r] <= ticket[s]
  BY <1>1, TurnComes DEF LaneInv, Gates, Tickets, TypeOK, LaneTypes
<1>2. pc[r] = "queued" /\ controller = None
  BY TurnComes DEF MyTurn, TypeOK
<1> QED
  BY <1>1, <1>2, QueuedHaveTickets DEF Lane!First, Lane!Waiting, Rank

LEMMA LaneStepRefines ==
  ASSUME TypeOK, LaneInv, LaneStep
  PROVE  Lane!Next \/ UNCHANGED <<Rank, controller>>
<1>1. ASSUME NEW r \in Request, Enqueue(r)  PROVE Lane!Arrive(r)
  <2>1. /\ pc' = [pc EXCEPT ![r] = "queued"] /\ ticket' = [ticket EXCEPT ![r] = issued + 1]
        /\ controller' = controller /\ pc[r] = "new"
    BY <1>1 DEF Enqueue
  <2>2. controller # r
    BY <2>1 DEF LaneInv, Control, Live, LivePc, Streaming
  <2>3. Rank' = [Rank EXCEPT ![r] = issued + 1]
    BY <2>1 DEF Rank, TypeOK, LaneTypes
  <2>4. \A d \in Request : Rank[d] <= issued
    BY DEF Rank, LaneInv, Tickets, TypeOK, LaneTypes
  <2> QED
    BY <2>1, <2>2, <2>3, <2>4 DEF Lane!Arrive, Lane!Waiting, Rank, TypeOK, LaneTypes
<1>2. ASSUME NEW r \in Request, Refuse(r)  PROVE Lane!TurnAway(r)
  <2>1. pc' = [pc EXCEPT ![r] = "done"] /\ UNCHANGED <<ticket, controller>> /\ MyTurn(r)
    BY <1>2 DEF Refuse, laneVars
  <2>2. Rank' = [Rank EXCEPT ![r] = 0]
    BY <2>1 DEF Rank, TypeOK, LaneTypes
  <2> QED BY <2>1, <2>2, TurnIsFirst DEF Lane!TurnAway, Rank
<1>3. ASSUME NEW r \in Request, Admit(r)  PROVE Lane!Grant(r)
  <2>1. PICK p \in LivePc : pc' = [pc EXCEPT ![r] = p]
    BY <1>3 DEF Admit
  <2>2. ticket' = ticket /\ controller' = r /\ MyTurn(r)
    BY <1>3 DEF Admit, laneVars
  <2>3. Rank' = [Rank EXCEPT ![r] = 0]
    BY <2>1, <2>2 DEF Rank, TypeOK, LaneTypes, LivePc, Streaming
  <2> QED BY <2>2, <2>3, TurnIsFirst DEF Lane!Grant, Rank
<1>4. ASSUME NEW r \in Request, Release(r)  PROVE Lane!Leave
  <2>1. controller = r /\ controller' = None /\ ticket' = ticket
    BY <1>4 DEF Release, laneVars, LaneInv, Control, Live, LivePc
  <2>2. Rank' = Rank
    BY <1>4, <2>1 DEF Release, Rank, TypeOK, LaneTypes
  <2> QED BY <2>1, <2>2, SetFacts DEF Lane!Leave, Rank
<1>5. CASE Resume
  <2>1. Rank' = [r \in Request |-> 0]
    BY <1>5 DEF Resume, Rank
  <2> QED BY <1>5, <2>1 DEF Resume, Lane!Next, Lane!Abandon, Rank
<1>6. CASE Quiet
  <2>1. \A r \in Request : pc'[r] = "queued" <=> pc[r] = "queued"
    BY <1>6 DEF Quiet, Live, LivePc, Streaming
  <2> QED BY <1>6, <2>1 DEF Quiet, Rank, laneVars
<1> QED
  BY <1>1, <1>2, <1>3, <1>4, <1>5, <1>6 DEF LaneStep, Lane!Next

\* Requests hold the seat one at a time, in the order in which they were made, or
\* are refused when it is theirs; a restart of the host forgets them all.
THEOREM FirstComeFirstServed == Spec => LaneOrder
<1>1. Init => Lane!Init
  BY DEF Init, Lane!Init
<1>2. SeatInv /\ [Next]_vars => [Lane!Next]_<<Rank, controller>>
  BY NextLaneStep, LaneStepRefines DEF SeatInv, TypeOK
<1> QED BY <1>1, <1>2, SeatInvariant, PTL DEF Spec, LaneOrder, Lane!Spec, Rank

-----------------------------------------------------------------------------
(* Accepted turns run one at a time.  The child reads its stdin in order:   *)
(* the interrupt of an accepted turn that was given up is on its way before *)
(* the start of the next request can be, so the server ends the first turn  *)
(* before it begins the second.  TLC checked SerialInv on small seats.      *)

IsStart(i, r) == wire[i].op = "start" /\ wire[i].turn = r
IsOwnInterrupt(i) == wire[i].op = "interrupt" /\ wire[i].by = Stream

\* A transport that is not up has no child that could run or read anything, and an
\* interrupt that was given up has closed the transport.
DeadIsQuiet ==
  /\ \A r \in Request : pc[r] # "lost"
  /\ transport # "up" => wire = <<>> /\ \A r \in Request : server[r] # "running"
  /\ \A c \in CancelCall : cpc[c] = "failed" => transport # "up"

\* What the server has begun was sent and, when it was accepted, begun; what a stream
\* saw end has ended.  A turn that streams is the one its interrupts name.
Begun ==
  \A r \in Request :
    /\ server[r] # "none" => pc[r] \notin {"new", "queued"}
    /\ seen[r] # "none" => server[r] = "ended"
    /\ r \in accepted => server[r] # "none" /\ pc[r] \notin {"new", "queued", "starting"}
    /\ Live(r) /\ server[r] # "none" => thread
    /\ pc[r] \in {"streaming", "interrupting"} => activeTurnId = r

\* A turn is started once, and the last start on its way is the live request's.
StartsOnce ==
  \A i \in 1 .. Len(wire) : wire[i].op = "start" =>
    /\ server[wire[i].turn] = "none"
    /\ pc[wire[i].turn] \notin {"new", "queued"}
    /\ \A j \in 1 .. Len(wire) : IsStart(j, wire[i].turn) => i = j
    /\ \A r \in Request : Live(r) => \E j \in i .. Len(wire) : IsStart(j, r)

\* A stream that timed out has one interrupt on its way, and waits for it.
StreamAsks ==
  \A i \in 1 .. Len(wire) : IsOwnInterrupt(i) =>
    /\ pc[wire[i].turn] = "interrupting"
    /\ \A j \in 1 .. Len(wire) : IsOwnInterrupt(j) => i = j

\* An interrupt of r is on its way, ahead of every start.
Doomed(r) ==
  \E i \in 1 .. Len(wire) :
    /\ wire[i].op = "interrupt" /\ wire[i].turn = r
    /\ \A j \in 1 .. i : wire[j].op # "start"

\* An accepted turn that still runs when its stream has given it up is doomed.
GivenUp ==
  \A r \in Request :
    /\ r \in accepted /\ server[r] = "running"
    /\ pc[r] = "streaming" => r \in aborted
    /\ pc[r] # "interrupting"
    => Doomed(r)

\* Nothing accepted runs beside an accepted turn or beside one that may be accepted.
Serial ==
  \A r, s \in Request :
    /\ r # s /\ r \in accepted /\ server[r] = "running" /\ server[s] = "running"
    => s \notin accepted /\ pc[s] # "starting"

SerialParts ==
  DeadIsQuiet /\ Begun /\ StartsOnce /\ StreamAsks /\ GivenUp /\ Serial

\* A restart of the host leaves a child behind that goes on by itself.
SerialInv == resumes = 0 => SerialParts

LEMMA WireIsTyped ==
  ASSUME TypeOK, NEW i \in 1 .. Len(wire)
  PROVE  /\ wire[i] \in Message /\ wire[i].turn \in Request
         /\ wire[i].op \in {"start", "interrupt"}
         /\ wire[i].by \in CancelCall \cup {Stream}
<1>1. wire[i] \in Message
  BY DEF TypeOK, ServerTypes
<1> QED BY <1>1 DEF Message

LEMMA Sent ==
  ASSUME TypeOK, NEW m \in Message, wire' = Append(wire, m)
  PROVE  /\ Len(wire') = Len(wire) + 1 /\ Len(wire) \in Nat
         /\ \A i \in 1 .. Len(wire) : wire'[i] = wire[i]
         /\ wire'[Len(wire) + 1] = m
BY AppendProperties, LenProperties DEF TypeOK, ServerTypes

LEMMA Served ==
  ASSUME TypeOK, wire # <<>>, wire' = Tail(wire)
  PROVE  /\ Len(wire) \in Nat /\ Len(wire) > 0 /\ Len(wire') = Len(wire) - 1
         /\ \A i \in 1 .. Len(wire') : wire'[i] = wire[i + 1]
         /\ Head(wire) = wire[1] /\ 1 \in 1 .. Len(wire)
BY HeadTailProperties, LenProperties, EmptySeq DEF TypeOK, ServerTypes

\* While a turn the server has begun is still live, no start is on its way.
LEMMA NoStartBehind ==
  ASSUME TypeOK, StartsOnce, NEW r \in Request, Live(r), server[r] # "none"
  PROVE  \A i \in 1 .. Len(wire) : wire[i].op # "start"
<1> SUFFICES ASSUME NEW i \in 1 .. Len(wire), wire[i].op = "start"  PROVE FALSE
  OBVIOUS
<1>1. PICK j \in i .. Len(wire) : IsStart(j, r)
  BY DEF StartsOnce
<1>2. j \in 1 .. Len(wire)
  BY <1>1, LenProperties DEF TypeOK, ServerTypes
<1> QED BY <1>1, <1>2 DEF StartsOnce, IsStart

\* The child is gone.
LEMMA KilledQuiet ==
  ASSUME TypeOK, SerialParts, KillServer, transport' # "up",
         \A r \in Request : pc'[r] # "lost"
  PROVE  (DeadIsQuiet /\ StartsOnce /\ StreamAsks /\ GivenUp /\ Serial)'
<1>1. wire' = <<>> /\ Len(wire') = 0
  BY DEF KillServer
<1>2. \A r \in Request : server'[r] # "running"
  BY DEF KillServer, SerialParts, DeadIsQuiet
<1> QED
  BY <1>1, <1>2 DEF DeadIsQuiet, StartsOnce, StreamAsks, GivenUp, Serial

LEMMA KilledBegun ==
  ASSUME TypeOK, Begun, KillServer, UNCHANGED <<pc, seen, accepted, thread, activeTurnId>>
  PROVE  Begun'
BY DEF Begun, KillServer, TypeOK, ServerTypes, Live

LEMMA KillSteps ==
  ASSUME TypeOK, LaneInv, CloseInv, SerialParts,
         \/ TransportFails \/ CloseFinishes
         \/ \E c \in CancelCall : CancelGivesUp(c)
         \/ \E r \in Request : InterruptFails(r)
  PROVE  SerialParts'
<1>1. CASE TransportFails \/ \E c \in CancelCall : CancelGivesUp(c)
  BY <1>1, KilledQuiet, KilledBegun DEF TransportFails, CancelGivesUp, SerialParts,
     DeadIsQuiet, runtimeVars, streamVars, TypeOK, RuntimeTypes
<1>2. CASE CloseFinishes
  <2>1. Begun'
    BY <1>2 DEF CloseFinishes, SerialParts, Begun, KillServer, CloseInv, Live, LivePc, Streaming,
       runtimeVars, streamVars, laneVars, TypeOK, ServerTypes
  <2> QED
    BY <1>2, <2>1, KilledQuiet DEF CloseFinishes, SerialParts, DeadIsQuiet, laneVars
<1>3. ASSUME NEW r \in Request, InterruptFails(r)  PROVE SerialParts'
  <2>1. /\ pc' = [pc EXCEPT ![r] = "finalizing"] /\ pc[r] = "interrupting"
        /\ UNCHANGED <<seen, accepted, thread, activeTurnId>> /\ KillServer
        /\ transport' = "null"
    BY <1>3 DEF InterruptFails, Conclude, runtimeVars, streamVars
  <2>2. Begun'
    BY <2>1 DEF SerialParts, Begun, KillServer, Live, LivePc, Streaming,
       TypeOK, ServerTypes, LaneTypes
  <2> QED
    BY <2>1, <2>2, KilledQuiet DEF SerialParts, DeadIsQuiet, TypeOK, LaneTypes
<1> QED BY <1>1, <1>2, <1>3

\* What a cancel() or an abort does to the seat: it sends an interrupt of the active
\* turn, or nothing, and aborts the controller it found.
CancelMove ==
  /\ UNCHANGED <<pc, server, seen, accepted, activeTurnId, thread>>
  /\ transport' = transport \/ (transport # "up" /\ transport' # "up")
  /\ \A c \in CancelCall : cpc'[c] = "failed" => cpc[c] = "failed"
  /\ \A r \in aborted' : r \in aborted \/ r = controller
  /\ \/ /\ wire' = wire
        /\ aborted' = aborted \/ transport # "up" \/ ~thread \/ activeTurnId = None
     \/ /\ transport = "up" /\ activeTurnId # None
        /\ \E c \in CancelCall :
             wire' = Append(wire, [op |-> "interrupt", turn |-> activeTurnId, by |-> c])

LEMMA AbortMove ==
  ASSUME TypeOK, NEW c \in CancelCall, NEW tr \in {"up", "dead", "null"},
         tr = transport \/ (transport # "up" /\ tr # "up"), controller # None,
         AbortActive(c, tr),
         UNCHANGED <<pc, server, seen, accepted, activeTurnId, thread>>
  PROVE  CancelMove
<1>1. controller \in CancelCall /\ controller \in Request
  BY SetFacts DEF TypeOK, RuntimeTypes
<1>2. \A d \in CancelCall : cpc'[d] = "failed" => cpc[d] = "failed"
  BY <1>1 DEF AbortActive, TypeOK, CallTypes
<1>3. /\ transport' = tr /\ aborted' = aborted \cup {controller}
      /\ \A r \in aborted' : r \in aborted \/ r = controller
  BY DEF AbortActive
<1>4. CASE controller \notin aborted /\ tr = "up" /\ thread /\ activeTurnId # None
  <2>1. wire' = Append(wire, [op |-> "interrupt", turn |-> activeTurnId, by |-> controller])
    BY <1>4 DEF AbortActive
  <2> QED BY <1>1, <1>2, <1>3, <1>4, <2>1 DEF CancelMove
<1>5. CASE ~(controller \notin aborted /\ tr = "up" /\ thread /\ activeTurnId # None)
  <2>1. wire' = wire
    BY <1>5 DEF AbortActive
  <2>2. aborted' = aborted \/ transport # "up" \/ ~thread \/ activeTurnId = None
    BY <1>3, <1>5
  <2> QED BY <1>2, <1>3, <2>1, <2>2 DEF CancelMove
<1> QED BY <1>4, <1>5

LEMMA BeginMove ==
  ASSUME TypeOK, NEW c \in CancelCall, BeginCancel(c),
         UNCHANGED <<pc, server, seen, accepted, activeTurnId, thread>>
  PROVE  CancelMove
<1>1. CASE controller # None /\ ~Interruptible /\ AbortActive(c, transport)
  BY <1>1, AbortMove DEF TypeOK, RuntimeTypes
<1>2. CASE ~(controller # None /\ ~Interruptible /\ AbortActive(c, transport))
  BY <1>2 DEF BeginCancel, Interruptible, CancelMove, TypeOK, CallTypes
<1> QED BY <1>1, <1>2

LEMMA CancelMoves ==
  ASSUME TypeOK, CloseInv, DeadIsQuiet,
         \/ \E c \in Canceller : Cancel(c)
         \/ \E drop \in BOOLEAN : Close(drop)
         \/ \E c \in CancelCall : CancelResumes(c)
         \/ \E r \in Signalled : SignalQueued(r) \/ SignalRunning(r)
         \/ \E a \in Approval : ApprovalAsked(a) \/ ApprovalAnswered(a)
         \/ CloseDrains \/ CloseDrained \/ CloseFails \/ UNCHANGED vars
  PROVE  CancelMove
<1>1. ASSUME NEW c \in CancelCall, Cancel(c)  PROVE CancelMove
  BY <1>1, BeginMove DEF Cancel, runtimeVars, streamVars
<1>2. ASSUME NEW drop \in BOOLEAN, Close(drop)  PROVE CancelMove
  BY <1>2, BeginMove, SetFacts DEF Close, runtimeVars, streamVars
<1>3. ASSUME NEW c \in CancelCall, CancelResumes(c)  PROVE CancelMove
  <2> DEFINE tr == IF cpc[c] = "failed" THEN "null" ELSE transport
  <2>1. /\ tr \in {"up", "dead", "null"}
        /\ tr = transport \/ (transport # "up" /\ tr # "up")
    BY DEF DeadIsQuiet, TypeOK, RuntimeTypes
  <2>2. UNCHANGED <<pc, server, seen, accepted, activeTurnId, thread>>
    BY <1>3 DEF CancelResumes, CancelEnds, runtimeVars, streamVars
  <2>3. CASE controller = None
    BY <1>3, <2>1, <2>2, <2>3 DEF CancelResumes, CancelEnds, AbortActive, CancelMove,
       TypeOK, CallTypes
  <2>4. CASE controller # None
    <3>1. AbortActive(c, tr)
      BY <1>3, <2>4 DEF CancelResumes, CancelEnds
    <3> QED BY <2>1, <2>2, <2>4, <3>1, AbortMove
  <2> QED BY <2>3, <2>4
<1>4. ASSUME NEW r \in Request, SignalRunning(r)  PROVE CancelMove
  <2>1. r \in CancelCall /\ controller = r
    BY <1>4, SetFacts DEF SignalRunning
  <2>2. /\ UNCHANGED <<pc, server, seen, accepted, activeTurnId, thread, transport>>
        /\ aborted' = aborted \cup {r}
        /\ \A c \in CancelCall : cpc'[c] = "failed" => cpc[c] = "failed"
    BY <1>4, <2>1 DEF SignalRunning, runtimeVars, streamVars, TypeOK, CallTypes
  <2>3. \/ /\ wire' = wire
           /\ transport # "up" \/ ~thread \/ activeTurnId = None
        \/ /\ transport = "up" /\ activeTurnId # None
           /\ wire' = Append(wire, [op |-> "interrupt", turn |-> activeTurnId, by |-> r])
    BY <1>4 DEF SignalRunning, Interruptible, CloseInv
  <2> QED BY <2>1, <2>2, <2>3 DEF CancelMove
<1>5. CASE \/ \E r \in Signalled : SignalQueued(r)
           \/ \E a \in Approval : ApprovalAsked(a) \/ ApprovalAnswered(a)
           \/ CloseDrains \/ CloseDrained \/ CloseFails \/ UNCHANGED vars
  <2>1. UNCHANGED <<pc, server, seen, accepted, activeTurnId, thread, transport, aborted, wire>>
    BY <1>5 DEF SignalQueued, ApprovalAsked, ApprovalAnswered, CloseDrains, CloseDrained,
       CloseFails, runtimeVars, streamVars, serverVars, laneVars, vars
  <2>2. cpc' = cpc
    BY <1>5 DEF SignalQueued, ApprovalAsked, ApprovalAnswered, CloseDrains, CloseDrained,
       CloseFails, vars
  <2> QED BY <2>1, <2>2 DEF CancelMove
<1> QED BY <1>1, <1>2, <1>3, <1>4, <1>5, SetFacts

\* The interrupt of a live turn that the server runs dooms it.
LEMMA CancelSteps ==
  ASSUME TypeOK, LaneInv, SerialParts, CancelMove  PROVE SerialParts'
<1>1. /\ UNCHANGED <<pc, server, seen, accepted, activeTurnId, thread>>
      /\ transport' = transport \/ (transport # "up" /\ transport' # "up")
  BY DEF CancelMove
<1>2. Begun' /\ Serial'
  BY <1>1 DEF SerialParts, Begun, Serial, Live
<1>3. DeadIsQuiet'
  <2>1. transport' # "up" => transport # "up" /\ wire' = wire
    BY DEF CancelMove
  <2> QED BY <1>1, <2>1 DEF SerialParts, DeadIsQuiet, CancelMove
<1>4. CASE /\ wire' = wire
           /\ aborted' = aborted \/ transport # "up" \/ ~thread \/ activeTurnId = None
  <2>1. StartsOnce' /\ StreamAsks'
    BY <1>1, <1>4 DEF SerialParts, StartsOnce, StreamAsks, IsStart, IsOwnInterrupt, Live
  <2>2. ASSUME NEW r \in Request, r \in accepted, server[r] = "running",
               pc[r] = "streaming" => r \in aborted', pc[r] # "interrupting"
        PROVE  Doomed(r)
    <3>1. Live(r) => thread /\ transport = "up"
      BY <2>2 DEF SerialParts, Begun, DeadIsQuiet
    <3>2. pc[r] = "streaming" => r \in aborted
      BY <1>4, <2>2, <3>1, SetFacts DEF SerialParts, Begun, Live, LivePc, Streaming
    <3> QED BY <2>2, <3>2 DEF SerialParts, GivenUp
  <2>3. GivenUp'
    BY <1>1, <1>4, <2>2 DEF GivenUp, Doomed
  <2> QED BY <1>2, <1>3, <2>1, <2>3 DEF SerialParts
<1>5. ASSUME activeTurnId # None, NEW c \in CancelCall,
             wire' = Append(wire, [op |-> "interrupt", turn |-> activeTurnId, by |-> c])
      PROVE  SerialParts'
  <2> DEFINE m == [op |-> "interrupt", turn |-> activeTurnId, by |-> c]
  <2>1. m \in Message
    BY <1>5 DEF Message, TypeOK, RuntimeTypes
  <2>2. c # Stream
    BY SeatAssumption
  <2>3. /\ Len(wire') = Len(wire) + 1 /\ Len(wire) \in Nat
        /\ \A i \in 1 .. Len(wire) : wire'[i] = wire[i]
        /\ wire'[Len(wire) + 1] = m
    BY <1>5, <2>1, Sent
  <2>4. m.op = "interrupt" /\ m.turn = activeTurnId /\ m.by # Stream
    BY <2>2
  <2> HIDE DEF m
  <2>5. StartsOnce'
    BY <1>1, <2>3, <2>4 DEF SerialParts, StartsOnce, IsStart, Live
  <2>6. StreamAsks'
    BY <1>1, <2>3, <2>4 DEF SerialParts, StreamAsks, IsOwnInterrupt
  <2>7. ASSUME NEW r \in Request, Doomed(r)  PROVE Doomed(r)'
    BY <2>3, <2>7 DEF Doomed
  <2>8. ASSUME NEW r \in Request, r \in accepted, server[r] = "running",
               pc[r] = "streaming" => r \in aborted', pc[r] # "interrupting"
        PROVE  Doomed(r)'
    <3>1. CASE pc[r] = "streaming"
      <4>1. activeTurnId = r /\ Live(r)
        BY <3>1 DEF SerialParts, Begun, Live, LivePc, Streaming
      <4>2. \A i \in 1 .. Len(wire) : wire[i].op # "start"
        BY <2>8, <4>1, NoStartBehind DEF SerialParts
      <4>3. \A i \in 1 .. Len(wire) + 1 : wire'[i].op # "start"
        BY <2>3, <2>4, <4>2
      <4> QED BY <2>3, <2>4, <4>1, <4>3 DEF Doomed
    <3>2. CASE pc[r] # "streaming"
      BY <2>7, <2>8, <3>2 DEF SerialParts, GivenUp
    <3> QED BY <3>1, <3>2
  <2>9. GivenUp'
    BY <1>1, <2>8 DEF GivenUp
  <2> QED BY <1>2, <1>3, <2>5, <2>6, <2>9 DEF SerialParts
<1> QED BY <1>4, <1>5 DEF CancelMove

\* One request moves on; the server and what is on its way to it do not change.
Moves(r, p) ==
  /\ pc' = [pc EXCEPT ![r] = p]
  /\ UNCHANGED <<server, wire, seen, transport, thread, aborted, cpc>>

LEMMA MovesKeep ==
  ASSUME TypeOK, LaneInv, SerialParts, NEW r \in Request, NEW p \in PC, Moves(r, p),
         p # "lost", pc[r] # "interrupting", p \in {"new", "queued"} => pc[r] = "new",
         p \in LivePc => Live(r) \/ wire = <<>>
  PROVE  (DeadIsQuiet /\ StartsOnce /\ StreamAsks)'
<1>1. DeadIsQuiet'
  BY DEF Moves, SerialParts, DeadIsQuiet, TypeOK, LaneTypes
<1>2. ASSUME NEW q \in Request, Live(q)', wire # <<>>  PROVE Live(q)
  BY <1>2 DEF Moves, Live, TypeOK, LaneTypes
<1>3. wire = <<>> => Len(wire) = 0
  OBVIOUS
<1>4. \A i \in 1 .. Len(wire) : wire[i].turn \in Request
  BY WireIsTyped
<1>5. StartsOnce'
  <2>1. wire' = wire /\ server' = server
    BY DEF Moves
  <2>2. \A q \in Request : pc[q] \notin {"new", "queued"} => pc'[q] \notin {"new", "queued"}
    BY DEF Moves, TypeOK, LaneTypes
  <2> QED
    BY <1>2, <1>3, <1>4, <2>1, <2>2 DEF SerialParts, StartsOnce, IsStart
<1>6. StreamAsks'
  BY <1>4 DEF Moves, SerialParts, StreamAsks, IsOwnInterrupt, TypeOK, LaneTypes
<1> QED BY <1>1, <1>5, <1>6

\* No accepted turn is in the way: the request is not accepted, or its turn has
\* ended, or it stays given up.
LEMMA MovesSerial ==
  ASSUME TypeOK, SerialParts, NEW r \in Request, NEW p \in PC, Moves(r, p),
         accepted' = accepted, p # "starting", p # "streaming",
         r \in accepted /\ server[r] = "running" /\ pc[r] = "streaming" => r \in aborted,
         pc[r] # "interrupting"
  PROVE  (GivenUp /\ Serial)'
<1>1. ASSUME NEW q \in Request, q \in accepted, server[q] = "running",
             pc'[q] = "streaming" => q \in aborted, pc'[q] # "interrupting"
      PROVE  Doomed(q)
  BY <1>1 DEF Moves, SerialParts, GivenUp, TypeOK, LaneTypes
<1>2. GivenUp'
  BY <1>1 DEF Moves, GivenUp, Doomed
<1>3. Serial'
  BY DEF Moves, SerialParts, Serial, TypeOK, LaneTypes
<1> QED BY <1>2, <1>3

LEMMA EnqueueSerial ==
  ASSUME TypeOK, LaneInv, SerialParts, NEW r \in Request, Enqueue(r)  PROVE SerialParts'
<1>1. /\ Moves(r, "queued") /\ pc[r] = "new"
      /\ UNCHANGED <<accepted, activeTurnId>>
  BY DEF Enqueue, Moves, runtimeVars, streamVars, serverVars
<1>2. Begun'
  BY <1>1 DEF Moves, SerialParts, Begun, Live, LivePc, Streaming, TypeOK, LaneTypes
<1> QED
  BY <1>1, <1>2, MovesKeep, MovesSerial DEF SerialParts, PC, LivePc, Streaming

\* A request that leaves the stream, or the lane, leaves nothing behind that is not
\* doomed.
LEMMA LeavesSerial ==
  ASSUME TypeOK, LaneInv, CloseInv, SerialParts, NEW r \in Request,
         \/ Refuse(r) \/ StartFails(r) \/ Finish(r) \/ StreamCancelled(r) \/ StreamBroken(r)
         \/ Settle(r) \/ Release(r) \/ \E result \in ExecResult : ExecEnds(r, result)
  PROVE  SerialParts'
<1>1. \E p \in {"finalizing", "settled", "done"} :
        /\ Moves(r, p)
        /\ p # "done" => Live(r)
  BY DEF Refuse, StartFails, Finish, StreamCancelled, StreamBroken, Settle, Release, ExecEnds,
     Conclude, Moves, runtimeVars, streamVars, serverVars, Live, LivePc, Streaming
<1>2. PICK p \in {"finalizing", "settled", "done"} : Moves(r, p) /\ (p # "done" => Live(r))
  BY <1>1
<1>3. accepted' = accepted /\ pc[r] # "interrupting" /\ pc[r] # "new"
  BY DEF Refuse, StartFails, Finish, StreamCancelled, StreamBroken, Settle, Release, ExecEnds,
     Conclude, streamVars, MyTurn
<1>4. activeTurnId' = activeTurnId \/ \A q \in Request : q # r => ~Live(q)
  BY DEF Refuse, StartFails, Finish, StreamCancelled, StreamBroken, Settle, Release, ExecEnds,
     Conclude, LaneInv, Control, Live, LivePc, Streaming
<1>5. Begun'
  BY <1>2, <1>3, <1>4 DEF Moves, SerialParts, Begun, Live, LivePc, Streaming, TypeOK, LaneTypes
<1>6. r \in accepted /\ server[r] = "running" /\ pc[r] = "streaming" => r \in aborted
  BY DEF Refuse, StartFails, Finish, StreamCancelled, StreamBroken, Settle, Release, ExecEnds,
     MyTurn, SerialParts, Begun, DeadIsQuiet
<1>7. p \in PC /\ p \notin {"lost", "new", "queued", "starting", "streaming"}
  BY DEF PC, LivePc, Streaming
<1>8. p \in LivePc => Live(r) \/ wire = <<>>
  BY <1>2 DEF LivePc, Streaming
<1> QED
  BY <1>2, <1>3, <1>5, <1>6, <1>7, <1>8, MovesKeep, MovesSerial DEF SerialParts

LEMMA ExecSerial ==
  ASSUME TypeOK, LaneInv, CloseInv, SerialParts, NEW r \in Request, ExecStart(r)
  PROVE  SerialParts'
<1>1. /\ Moves(r, "exec") /\ UNCHANGED <<accepted, activeTurnId>> /\ pc[r] = "queued"
      /\ kind = "exec"
  BY DEF ExecStart, Moves, MyTurn, runtimeVars, streamVars, serverVars
<1>2. wire = <<>>
  BY <1>1 DEF CloseInv, SerialParts, DeadIsQuiet
<1>3. Begun'
  BY <1>1 DEF Moves, SerialParts, Begun, Live, LivePc, Streaming, TypeOK, LaneTypes
<1> QED
  BY <1>1, <1>2, <1>3, MovesKeep, MovesSerial DEF SerialParts, PC, LivePc, Streaming

\* The turn that is accepted runs alone, or beside turns that never will be.
LEMMA AcceptSerial ==
  ASSUME TypeOK, LaneInv, SerialParts, NEW r \in Request, Accept(r)  PROVE SerialParts'
<1>1. /\ Moves(r, "streaming") /\ accepted' = accepted \cup {r} /\ activeTurnId' = r
      /\ pc[r] = "starting" /\ server[r] # "none" /\ r \notin aborted
  BY DEF Accept, Moves, runtimeVars, serverVars
<1>2. Live(r) /\ \A q \in Request : Live(q) => q = r
  BY <1>1 DEF LaneInv, Control, Live, LivePc, Streaming
<1>3. Begun'
  BY <1>1, <1>2 DEF Moves, SerialParts, Begun, Live, LivePc, Streaming, TypeOK, LaneTypes
<1>4. (DeadIsQuiet /\ StartsOnce /\ StreamAsks)'
  BY <1>1, <1>2, MovesKeep DEF PC, LivePc, Streaming
<1>5. ASSUME NEW q \in Request, q \in accepted', server[q] = "running",
             pc'[q] = "streaming" => q \in aborted, pc'[q] # "interrupting"
      PROVE  Doomed(q)
  BY <1>1, <1>5 DEF Moves, SerialParts, GivenUp, TypeOK, LaneTypes
<1>6. GivenUp'
  BY <1>1, <1>5 DEF Moves, GivenUp, Doomed
<1>7. Serial'
  <2>1. \A q \in Request : q # r => pc[q] # "starting" /\ pc'[q] = pc[q]
    BY <1>1, <1>2 DEF Moves, TypeOK, LaneTypes, Live, LivePc, Streaming
  <2> QED
    BY <1>1, <2>1 DEF Moves, SerialParts, Serial, TypeOK, LaneTypes
<1> QED BY <1>3, <1>4, <1>6, <1>7 DEF SerialParts

LEMMA ReleaseThreadSerial ==
  ASSUME TypeOK, CloseInv, SerialParts, ReleaseThread  PROVE SerialParts'
<1>1. UNCHANGED <<pc, server, wire, seen, accepted, transport, aborted, cpc, activeTurnId>>
  BY DEF ReleaseThread, laneVars, streamVars, serverVars
<1>2. \A r \in Request : ~Live(r)
  BY DEF ReleaseThread, CloseInv
<1>3. Begun' /\ DeadIsQuiet' /\ Serial'
  BY <1>1, <1>2 DEF SerialParts, Begun, DeadIsQuiet, Serial, Live
<1>4. StartsOnce' /\ StreamAsks' /\ GivenUp'
  BY <1>1 DEF SerialParts, StartsOnce, StreamAsks, GivenUp, Doomed, IsStart,
     IsOwnInterrupt, Live
<1> QED BY <1>3, <1>4 DEF SerialParts

\* The start of the request that takes the seat goes last.
LEMMA StartSerial ==
  ASSUME TypeOK, LaneInv, SerialParts, NEW r \in Request, Start(r)  PROVE SerialParts'
<1>1. /\ UNCHANGED <<server, seen, transport, thread, aborted, cpc, accepted, activeTurnId>>
      /\ pc[r] = "queued"
  BY DEF Start, MyTurn, runtimeVars, streamVars
<1>2. /\ server[r] = "none" /\ r \notin accepted
      /\ \A q \in Request : ~Live(q)
  BY <1>1, TurnComes DEF Start, SerialParts, Begun, TypeOK
<1>3. PICK p \in {"starting", "finalizing"} : pc' = [pc EXCEPT ![r] = p]
  BY DEF Start
<1>4. Begun' /\ Serial'
  BY <1>1, <1>2, <1>3 DEF SerialParts, Begun, Serial, Live, LivePc, Streaming, TypeOK,
     LaneTypes, ServerTypes
<1>5. \A q \in Request : pc'[q] # "interrupting" /\ pc'[q] # "streaming"
                         /\ pc[q] # "interrupting" /\ pc[q] # "streaming"
  BY <1>2, <1>3 DEF Live, LivePc, Streaming, TypeOK, LaneTypes
<1>6. \A i \in 1 .. Len(wire) : wire[i].turn \in Request /\ ~IsStart(i, r) /\ ~IsOwnInterrupt(i)
  BY <1>1, <1>5, WireIsTyped DEF SerialParts, StartsOnce, StreamAsks, IsStart
<1>7. CASE wire' = wire /\ transport # "up"
  <2>1. wire = <<>> /\ Len(wire) = 0 /\ \A q \in Request : server[q] # "running"
    BY <1>7 DEF SerialParts, DeadIsQuiet
  <2>2. (DeadIsQuiet /\ StartsOnce /\ StreamAsks /\ GivenUp)'
    BY <1>1, <1>3, <1>7, <2>1 DEF SerialParts, DeadIsQuiet, StartsOnce, StreamAsks, GivenUp,
       TypeOK, LaneTypes
  <2> QED BY <1>4, <2>2 DEF SerialParts
<1>8. ASSUME transport = "up",
             wire' = Append(wire, [op |-> "start", turn |-> r, by |-> Stream])
      PROVE  SerialParts'
  <2> DEFINE m == [op |-> "start", turn |-> r, by |-> Stream]
  <2>1. m \in Message /\ m.op = "start" /\ m.turn = r
    BY DEF Message
  <2>2. /\ Len(wire') = Len(wire) + 1 /\ Len(wire) \in Nat
        /\ \A i \in 1 .. Len(wire) : wire'[i] = wire[i]
        /\ wire'[Len(wire) + 1] = m
    BY <1>8, <2>1, Sent
  <2> HIDE DEF m
  <2>3. DeadIsQuiet'
    BY <1>1, <1>3, <1>8 DEF SerialParts, DeadIsQuiet, TypeOK, LaneTypes
  <2>4. StreamAsks'
    BY <1>6, <2>1, <2>2 DEF StreamAsks, IsOwnInterrupt
  <2>5. \A q \in Request : Live(q)' => q = r
    BY <1>2, <1>3 DEF Live, TypeOK, LaneTypes
  <2>6. ASSUME NEW i \in 1 .. Len(wire'), wire'[i].op = "start"
        PROVE  /\ server'[wire'[i].turn] = "none"
               /\ pc'[wire'[i].turn] \notin {"new", "queued"}
               /\ \A j \in 1 .. Len(wire') : IsStart(j, wire[i].turn)' => i = j
               /\ \A q \in Request : Live(q)' => \E j \in i .. Len(wire') : IsStart(j, q)'
    <3>1. PICK k \in i .. Len(wire') : k = Len(wire) + 1
      BY <2>2
    <3>2. \A q \in Request : Live(q)' => \E j \in i .. Len(wire') : IsStart(j, q)'
      <4>1. IsStart(k, r)'
        BY <2>1, <2>2, <3>1 DEF IsStart
      <4> QED BY <2>5, <4>1
    <3>3. CASE i = Len(wire) + 1
      <4>1. \A j \in 1 .. Len(wire') : IsStart(j, wire[i].turn)' => i = j
        BY <1>6, <2>1, <2>2, <3>3 DEF IsStart
      <4> QED BY <1>1, <1>2, <1>3, <2>1, <2>2, <3>2, <3>3, <4>1 DEF TypeOK, LaneTypes
    <3>4. CASE i \in 1 .. Len(wire)
      <4>1. wire'[i] = wire[i] /\ wire[i].op = "start" /\ wire[i].turn # r
            /\ wire[i].turn \in Request
        BY <1>6, <2>2, <2>6, <3>4 DEF IsStart
      <4>2. server[wire[i].turn] = "none" /\ pc'[wire[i].turn] \notin {"new", "queued"}
        BY <1>3, <3>4, <4>1 DEF SerialParts, StartsOnce, TypeOK, LaneTypes
      <4>3. \A j \in 1 .. Len(wire') : IsStart(j, wire[i].turn)' => i = j
        BY <2>1, <2>2, <3>4, <4>1 DEF SerialParts, StartsOnce, IsStart
      <4> QED BY <1>1, <3>2, <4>1, <4>2, <4>3
    <3> QED BY <2>2, <3>3, <3>4
  <2>7. StartsOnce'
    BY <2>6 DEF StartsOnce
  <2>8. ASSUME NEW q \in Request, q \in accepted, server[q] = "running"  PROVE Doomed(q)'
    <3>1. Doomed(q)
      BY <1>5, <2>8 DEF SerialParts, GivenUp
    <3> QED BY <2>2, <3>1 DEF Doomed
  <2>9. GivenUp'
    BY <1>1, <2>8 DEF GivenUp
  <2> QED BY <1>4, <2>3, <2>4, <2>7, <2>9 DEF SerialParts
<1> QED BY <1>7, <1>8 DEF Start

\* The stream that times out asks for its own turn to be interrupted, once.
LEMMA TimeoutSerial ==
  ASSUME TypeOK, LaneInv, SerialParts, NEW r \in Request, StreamTimesOut(r)
  PROVE  SerialParts'
<1>1. /\ UNCHANGED <<server, seen, transport, thread, aborted, cpc, accepted, activeTurnId>>
      /\ pc[r] = "streaming" /\ pc' = [pc EXCEPT ![r] = "interrupting"] /\ transport = "up"
      /\ wire' = Append(wire, [op |-> "interrupt", turn |-> activeTurnId, by |-> Stream])
  BY DEF StreamTimesOut, runtimeVars, streamVars
<1> DEFINE m == [op |-> "interrupt", turn |-> activeTurnId, by |-> Stream]
<1>2. activeTurnId = r /\ Live(r) /\ \A q \in Request : Live(q) => q = r
  BY <1>1 DEF SerialParts, Begun, LaneInv, Control, Live, LivePc, Streaming
<1>3. m \in Message /\ m.op = "interrupt" /\ m.turn = r /\ m.by = Stream
  BY <1>2 DEF Message
<1>4. /\ Len(wire') = Len(wire) + 1 /\ Len(wire) \in Nat
      /\ \A i \in 1 .. Len(wire) : wire'[i] = wire[i]
      /\ wire'[Len(wire) + 1] = m
  BY <1>1, <1>3, Sent
<1> HIDE DEF m
<1>5. \A i \in 1 .. Len(wire) : wire[i].turn \in Request /\ ~IsOwnInterrupt(i)
  <2>1. \A q \in Request : pc[q] # "interrupting"
    BY <1>1, <1>2 DEF Live, LivePc, Streaming
  <2> QED BY <2>1, WireIsTyped DEF SerialParts, StreamAsks
<1>6. Begun' /\ Serial' /\ DeadIsQuiet'
  BY <1>1, <1>2 DEF SerialParts, Begun, Serial, DeadIsQuiet, Live, LivePc, Streaming, TypeOK,
     LaneTypes
<1>7. StreamAsks'
  BY <1>1, <1>3, <1>4, <1>5 DEF StreamAsks, IsOwnInterrupt, TypeOK, LaneTypes
<1>8. StartsOnce'
  <2>1. \A q \in Request : /\ Live(q)' => Live(q)
                           /\ pc[q] \notin {"new", "queued"} => pc'[q] \notin {"new", "queued"}
    BY <1>1 DEF Live, LivePc, Streaming, TypeOK, LaneTypes
  <2> QED
    BY <1>1, <1>3, <1>4, <1>5, <2>1 DEF SerialParts, StartsOnce, IsStart
<1>9. GivenUp'
  <2>1. ASSUME NEW q \in Request, q # r, q \in accepted, server[q] = "running"
        PROVE  Doomed(q)'
    <3>1. Doomed(q)
      BY <1>1, <1>2, <2>1 DEF SerialParts, GivenUp, Live, LivePc, Streaming
    <3> QED BY <1>4, <3>1 DEF Doomed
  <2> QED BY <1>1, <2>1 DEF GivenUp, TypeOK, LaneTypes
<1> QED BY <1>6, <1>7, <1>8, <1>9 DEF SerialParts

\* A turn that ends on the server.
LEMMA EndsSerial ==
  ASSUME TypeOK, SerialParts, NEW r \in Request, NEW how \in {"completed", "turn-failed"},
         ServerEnds(r, how)
  PROVE  SerialParts'
<1>1. /\ UNCHANGED <<pc, wire, transport, thread, aborted, cpc, accepted, activeTurnId>>
      /\ server[r] = "running" /\ server' = [server EXCEPT ![r] = "ended"]
      /\ seen' = seen \/ seen' = [seen EXCEPT ![r] = how]
  BY DEF ServerEnds, Notified, runtimeVars
<1>2. Begun' /\ Serial' /\ DeadIsQuiet'
  BY <1>1 DEF SerialParts, Begun, Serial, DeadIsQuiet, Live, TypeOK, ServerTypes, StreamTypes
<1>3. StartsOnce' /\ StreamAsks'
  BY <1>1, WireIsTyped DEF SerialParts, StartsOnce, StreamAsks, IsStart, IsOwnInterrupt, Live,
     TypeOK, ServerTypes
<1>4. GivenUp'
  BY <1>1 DEF SerialParts, GivenUp, Doomed, TypeOK, ServerTypes
<1> QED BY <1>2, <1>3, <1>4 DEF SerialParts

\* When the server reads a start, nothing accepted runs: an accepted turn that ran
\* would be live, with no start behind it, or doomed by an interrupt ahead of this one.
LEMMA StartFindsNoneRunning ==
  ASSUME TypeOK, SerialParts, wire # <<>>, Head(wire).op = "start",
         NEW r \in Request, r \in accepted
  PROVE  server[r] # "running"
<1> SUFFICES ASSUME server[r] = "running"  PROVE FALSE
  OBVIOUS
<1>1. 1 \in 1 .. Len(wire) /\ wire[1].op = "start"
  BY EmptySeq, LenProperties, HeadTailProperties DEF TypeOK, ServerTypes
<1>2. ~Doomed(r)
  BY <1>1 DEF Doomed
<1>3. Live(r)
  BY <1>2 DEF SerialParts, GivenUp, Live, LivePc, Streaming
<1> QED BY <1>1, <1>3, NoStartBehind DEF SerialParts

\* What is behind the message that was read keeps its order.
LEMMA ReadKeeps ==
  ASSUME TypeOK, SerialParts, wire # <<>>, wire' = Tail(wire), transport' = transport,
         \A c \in CancelCall : cpc'[c] = "failed" => cpc[c] = "failed",
         \A r \in Request :
           /\ server'[r] # server[r] => server[r] = "running" \/ IsStart(1, r)
           /\ pc'[r] # "lost"
           /\ Live(r)' => Live(r)
           /\ pc[r] \notin {"new", "queued"} => pc'[r] \notin {"new", "queued"}
  PROVE  DeadIsQuiet' /\ StartsOnce'
<1>1. /\ Len(wire) \in Nat /\ Len(wire) > 0 /\ Len(wire') = Len(wire) - 1
      /\ \A i \in 1 .. Len(wire') : wire'[i] = wire[i + 1]
      /\ 1 \in 1 .. Len(wire)
  BY Served
<1>2. DeadIsQuiet'
  BY DEF SerialParts, DeadIsQuiet
<1>3. ASSUME NEW i \in 1 .. Len(wire'), wire'[i].op = "start"
      PROVE  /\ server'[wire'[i].turn] = "none"
             /\ pc'[wire'[i].turn] \notin {"new", "queued"}
             /\ \A j \in 1 .. Len(wire') : IsStart(j, wire[i].turn)' => i = j
             /\ \A r \in Request : Live(r)' => \E j \in i .. Len(wire') : IsStart(j, r)'
  <2>1. i + 1 \in 1 .. Len(wire) /\ wire'[i] = wire[i + 1] /\ wire[i + 1].turn \in Request
    BY <1>1, WireIsTyped
  <2>2. /\ server[wire[i + 1].turn] = "none"
        /\ pc[wire[i + 1].turn] \notin {"new", "queued"}
        /\ \A j \in 1 .. Len(wire) : IsStart(j, wire[i + 1].turn) => i + 1 = j
        /\ \A r \in Request : Live(r) => \E j \in i + 1 .. Len(wire) : IsStart(j, r)
    BY <1>3, <2>1 DEF SerialParts, StartsOnce
  <2>3. ~IsStart(1, wire[i + 1].turn)
    BY <1>1, <2>2
  <2>4. ASSUME NEW r \in Request, Live(r)'  PROVE \E j \in i .. Len(wire') : IsStart(j, r)'
    <3>1. PICK j \in i + 1 .. Len(wire) : IsStart(j, r)
      BY <2>2, <2>4
    <3>2. PICK k \in i .. Len(wire') : k = j - 1
      BY <1>1, <3>1
    <3>3. IsStart(k, r)'
      BY <1>1, <3>1, <3>2 DEF IsStart
    <3> QED BY <3>3
  <2>5. \A j \in 1 .. Len(wire') : IsStart(j, wire[i].turn)' => i = j
    BY <1>1, <2>1, <2>2 DEF IsStart
  <2> QED BY <2>1, <2>2, <2>3, <2>4, <2>5
<1>4. StartsOnce'
  BY <1>3 DEF StartsOnce
<1> QED BY <1>2, <1>4

LEMMA ReadAsks ==
  ASSUME TypeOK, SerialParts, wire # <<>>, wire' = Tail(wire),
         \A r \in Request : pc[r] = "interrupting" => IsOwnInterrupt(1) \/ pc'[r] = pc[r]
  PROVE  StreamAsks'
<1>1. /\ Len(wire) \in Nat /\ Len(wire) > 0 /\ Len(wire') = Len(wire) - 1
      /\ \A i \in 1 .. Len(wire') : wire'[i] = wire[i + 1]
      /\ 1 \in 1 .. Len(wire)
  BY Served
<1>2. ASSUME NEW i \in 1 .. Len(wire'), IsOwnInterrupt(i)'
      PROVE  /\ pc'[wire'[i].turn] = "interrupting"
             /\ \A j \in 1 .. Len(wire') : IsOwnInterrupt(j)' => i = j
  <2>1. i + 1 \in 1 .. Len(wire) /\ wire'[i] = wire[i + 1] /\ wire[i + 1].turn \in Request
    BY <1>1, WireIsTyped
  <2>2. IsOwnInterrupt(i + 1)
    BY <1>2, <2>1 DEF IsOwnInterrupt
  <2>3. /\ pc[wire[i + 1].turn] = "interrupting"
        /\ \A j \in 1 .. Len(wire) : IsOwnInterrupt(j) => i + 1 = j
    BY <2>1, <2>2 DEF SerialParts, StreamAsks
  <2>4. ~IsOwnInterrupt(1)
    BY <1>1, <2>3
  <2>5. \A j \in 1 .. Len(wire') : IsOwnInterrupt(j)' => i = j
    BY <1>1, <2>3 DEF IsOwnInterrupt
  <2> QED BY <2>1, <2>3, <2>4, <2>5
<1> QED BY <1>2 DEF StreamAsks

LEMMA ReadDooms ==
  ASSUME TypeOK, wire # <<>>, wire' = Tail(wire), NEW r \in Request, Doomed(r),
         wire[1].turn # r
  PROVE  Doomed(r)'
<1>1. /\ Len(wire) \in Nat /\ Len(wire) > 0 /\ Len(wire') = Len(wire) - 1
      /\ \A i \in 1 .. Len(wire') : wire'[i] = wire[i + 1]
  BY Served
<1>2. PICK i \in 1 .. Len(wire) : /\ wire[i].op = "interrupt" /\ wire[i].turn = r
                                  /\ \A j \in 1 .. i : wire[j].op # "start"
  BY DEF Doomed
<1>3. PICK k \in 1 .. Len(wire') : k = i - 1
  BY <1>1, <1>2
<1>4. wire'[k].op = "interrupt" /\ wire'[k].turn = r
  BY <1>1, <1>2, <1>3
<1>5. \A j \in 1 .. k : wire'[j].op # "start"
  BY <1>1, <1>2, <1>3
<1> QED BY <1>4, <1>5 DEF Doomed

LEMMA StartsSerial ==
  ASSUME TypeOK, LaneInv, SerialParts, ServerStarts  PROVE SerialParts'
<1> DEFINE r == Head(wire).turn
<1>1. /\ UNCHANGED <<pc, seen, transport, thread, aborted, cpc, accepted>> /\ thread
      /\ server' = [server EXCEPT ![r] = "running"] /\ wire # <<>> /\ wire' = Tail(wire)
      /\ Head(wire).op = "start"
      /\ activeTurnId # None => activeTurnId' = activeTurnId
  BY DEF ServerStarts, runtimeVars, streamVars
<1>2. Head(wire) = wire[1] /\ 1 \in 1 .. Len(wire) /\ r \in Request
  BY <1>1, Served, WireIsTyped
<1>3. wire[1].op = "start" /\ IsStart(1, r)
  BY <1>1, <1>2 DEF IsStart
<1>4. server[r] = "none" /\ pc[r] \notin {"new", "queued"} /\ r \notin accepted
  BY <1>2, <1>3 DEF SerialParts, StartsOnce, Begun
<1> HIDE DEF r
<1>5. Begun'
  BY <1>1, <1>2, <1>4, SetFacts DEF SerialParts, Begun, Live, TypeOK, ServerTypes
<1>6. DeadIsQuiet' /\ StartsOnce'
  <2>1. \A q \in Request : server'[q] # server[q] => IsStart(1, q)
    BY <1>1, <1>2, <1>3 DEF TypeOK, ServerTypes
  <2> QED
    BY <1>1, <2>1, ReadKeeps DEF SerialParts, DeadIsQuiet, Live
<1>7. StreamAsks'
  BY <1>1, ReadAsks
<1>8. GivenUp' /\ Serial'
  <2>1. \A q \in Request : q \in accepted => server'[q] # "running"
    BY <1>1, <1>2, <1>4, StartFindsNoneRunning DEF TypeOK, ServerTypes
  <2> QED BY <1>1, <2>1 DEF GivenUp, Serial
<1> QED BY <1>5, <1>6, <1>7, <1>8 DEF SerialParts

LEMMA RefusesSerial ==
  ASSUME TypeOK, LaneInv, SerialParts, ServerRefuses  PROVE SerialParts'
<1> DEFINE r == Head(wire).turn
<1>1. /\ UNCHANGED <<server, seen, transport, thread, aborted, cpc, accepted, activeTurnId>>
      /\ wire # <<>> /\ wire' = Tail(wire) /\ Head(wire).op = "start"
      /\ \/ pc' = pc
         \/ pc[r] = "starting" /\ pc' = [pc EXCEPT ![r] = "finalizing"]
  BY DEF ServerRefuses, Conclude, runtimeVars, streamVars
<1>2. r \in Request
  BY <1>1, Served, WireIsTyped
<1> HIDE DEF r
<1>3. \A q \in Request : \/ pc'[q] = pc[q]
                         \/ pc[q] = "starting" /\ pc'[q] = "finalizing"
  BY <1>1, <1>2 DEF TypeOK, LaneTypes
<1>4. Begun'
  BY <1>1, <1>3 DEF SerialParts, Begun, Live, LivePc, Streaming
<1>5. DeadIsQuiet' /\ StartsOnce'
  BY <1>1, <1>3, ReadKeeps DEF SerialParts, DeadIsQuiet, Live, LivePc, Streaming
<1>6. StreamAsks'
  BY <1>1, <1>3, ReadAsks
<1>7. GivenUp' /\ Serial'
  BY <1>1, StartFindsNoneRunning DEF GivenUp, Serial
<1> QED BY <1>4, <1>5, <1>6, <1>7 DEF SerialParts

\* The turn an interrupt names does not run after it.
LEMMA InterruptsSerial ==
  ASSUME TypeOK, LaneInv, SerialParts, ServerInterrupts  PROVE SerialParts'
<1> DEFINE m == Head(wire)
           r == m.turn
<1>1. /\ UNCHANGED <<transport, thread, aborted, accepted, activeTurnId>>
      /\ wire # <<>> /\ wire' = Tail(wire) /\ m.op = "interrupt"
  BY DEF ServerInterrupts, runtimeVars
<1>2. m = wire[1] /\ 1 \in 1 .. Len(wire) /\ r \in Request /\ m.by \in CancelCall \cup {Stream}
  BY <1>1, Served, WireIsTyped
<1>3. \/ UNCHANGED <<server, seen>> /\ server[r] # "running"
      \/ /\ server[r] = "running" /\ server' = [server EXCEPT ![r] = "ended"]
         /\ seen' = seen \/ seen' = [seen EXCEPT ![r] = "cancelled"]
  BY DEF ServerInterrupts, Notified
<1>4. \/ /\ m.by = Stream /\ cpc' = cpc
         /\ pc' = [q \in Request |-> IF pc[q] = "interrupting" THEN "finalizing" ELSE pc[q]]
      \/ /\ m.by # Stream /\ pc' = pc
         /\ cpc' = [cpc EXCEPT ![m.by] = IF cpc[m.by] = "waiting" THEN "replied" ELSE @]
  BY DEF ServerInterrupts
<1>5. m.by = Stream => IsOwnInterrupt(1) /\ pc[r] = "interrupting"
  BY <1>1, <1>2 DEF SerialParts, StreamAsks, IsOwnInterrupt
<1>6. \A c \in CancelCall : cpc'[c] = "failed" => cpc[c] = "failed"
  BY <1>2, <1>4 DEF TypeOK, CallTypes
<1>7. wire[1].turn = r
  BY <1>2
<1> HIDE DEF m, r
<1>8. /\ server'[r] # "running" /\ (server'[r] # server[r] => server[r] = "running")
      /\ \A q \in Request : q # r => server'[q] = server[q]
  BY <1>2, <1>3 DEF TypeOK, ServerTypes
<1>9. \A q \in Request : \/ pc'[q] = pc[q]
                         \/ pc[q] = "interrupting" /\ pc'[q] = "finalizing" /\ q = r
                            /\ IsOwnInterrupt(1)
  BY <1>2, <1>4, <1>5 DEF LaneInv, Control, Live, LivePc, Streaming
<1>10. Begun'
  BY <1>1, <1>2, <1>3, <1>9 DEF SerialParts, Begun, Live, LivePc, Streaming, TypeOK,
     ServerTypes, StreamTypes
<1>11. DeadIsQuiet' /\ StartsOnce'
  BY <1>1, <1>2, <1>6, <1>8, <1>9, ReadKeeps DEF SerialParts, DeadIsQuiet, Live, LivePc,
     Streaming
<1>12. StreamAsks'
  BY <1>1, <1>9, ReadAsks
<1>13. Serial'
  BY <1>1, <1>2, <1>8, <1>9 DEF SerialParts, Serial
<1>14. ASSUME NEW q \in Request, q \in accepted, server'[q] = "running",
              pc'[q] = "streaming" => q \in aborted, pc'[q] # "interrupting"
       PROVE  Doomed(q)'
  <2>1. q # r /\ server[q] = "running" /\ pc'[q] = pc[q]
    BY <1>2, <1>8, <1>9, <1>14
  <2>2. Doomed(q)
    BY <1>14, <2>1 DEF SerialParts, GivenUp
  <2> QED BY <1>1, <1>7, <2>1, <2>2, ReadDooms
<1>15. GivenUp'
  BY <1>1, <1>14 DEF GivenUp
<1> QED BY <1>10, <1>11, <1>12, <1>13, <1>15 DEF SerialParts

LEMMA ResumesStay ==
  ASSUME [Next]_vars, ~Resume  PROVE resumes' = resumes
<1>1. ASSUME NEW r \in Request, RequestStep(r)  PROVE resumes' = resumes
  BY <1>1 DEF RequestStep, Refuse, Start, Accept, StartFails, Conclude, Finish,
     StreamCancelled, StreamBroken, StreamTimesOut, InterruptFails, Settle, Release,
     ExecStart, ExecEnds
<1>2. CASE CallerStep \/ CloseStep
  BY <1>2 DEF CallerStep, Enqueue, SignalQueued, SignalRunning, Cancel, Close,
     ApprovalAsked, ApprovalAnswered, CloseStep, CloseDrains, CloseDrained,
     ReleaseThread, CloseFails, CloseFinishes
<1>3. CASE ServerStep \/ UNCHANGED vars \/ \E c \in CancelCall : CancelStep(c)
  BY <1>3 DEF ServerStep, ServerStarts, ServerRefuses, ServerInterrupts, ServerEnds,
     TransportFails, Conclude, CancelStep, CancelGivesUp, CancelResumes, CancelEnds, vars
<1> QED BY <1>1, <1>2, <1>3 DEF Next

LEMMA InitSerial == Init => SerialInv
BY EmptySeq DEF Init, SerialInv, SerialParts, DeadIsQuiet, Begun, StartsOnce, StreamAsks,
   GivenUp, Serial

LEMMA StepSerial ==
  ASSUME SeatInv, SerialInv, [Next]_vars  PROVE SerialInv'
<1>1. CASE Resume
  BY <1>1 DEF Resume, SerialInv, SeatInv, TypeOK, RuntimeTypes
<1>2. ASSUME ~Resume, resumes = 0  PROVE SerialParts'
  <2>1. TypeOK /\ LaneInv /\ CloseInv /\ SerialParts /\ DeadIsQuiet
    BY <1>2 DEF SeatInv, SerialInv, SerialParts
  <2>2. ASSUME NEW r \in Request, RequestStep(r)  PROVE SerialParts'
    BY <2>1, <2>2, LeavesSerial, ExecSerial, AcceptSerial, StartSerial, TimeoutSerial,
       KillSteps DEF RequestStep
  <2>3. CASE CallerStep
    BY <2>1, <2>3, EnqueueSerial, CancelMoves, CancelSteps DEF CallerStep
  <2>4. ASSUME NEW c \in CancelCall, CancelStep(c)  PROVE SerialParts'
    BY <2>1, <2>4, KillSteps, CancelMoves, CancelSteps DEF CancelStep
  <2>5. CASE CloseStep
    BY <2>1, <2>5, KillSteps, CancelMoves, CancelSteps, ReleaseThreadSerial DEF CloseStep
  <2>6. CASE ServerStep
    BY <2>1, <2>6, StartsSerial, RefusesSerial, InterruptsSerial, KillSteps, EndsSerial
       DEF ServerStep
  <2>7. CASE UNCHANGED vars
    BY <2>1, <2>7, CancelMoves, CancelSteps
  <2> QED BY <1>2, <2>2, <2>3, <2>4, <2>5, <2>6, <2>7 DEF Next
<1> QED
  BY <1>1, <1>2, ResumesStay DEF SerialInv, SerialParts

\* While the host lives the app-server never runs two turns whose acceptance the seat
\* has received: a turn that is given up is interrupted before the next one starts.
THEOREM AcceptedSerially == Spec => []AcceptedTurnsSerial
<1>1. SeatInv /\ SerialInv /\ [Next]_vars => SerialInv'
  BY StepSerial
<1>2. SerialInv => AcceptedTurnsSerial
  BY DEF SerialInv, SerialParts, Serial, AcceptedTurnsSerial
<1> QED BY <1>1, <1>2, InitSerial, SeatInvariant, PTL DEF Spec

=============================================================================
