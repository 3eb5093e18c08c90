-------------------------- MODULE SideRunnerProofs --------------------------
(***************************************************************************)
(* Theorems about the side questions of a session, for any number of       *)
(* questions, follow-ups, ends, deletions and disposals, any limit on the  *)
(* questions in flight and any length of the rings.                        *)
(***************************************************************************)
EXTENDS SideRunner, SequenceTheorems, TLAPS

-----------------------------------------------------------------------------
(* The inductive invariant.                                                *)

\* A call has a child of its own from Creates() on; while it prompts another call's
\* child it has none.
ChildInv ==
  /\ \A c \in Asker : pc[c] \in {"new", "snapshot", "creating"} => child[c] = "none"
  /\ \A c \in Asker : pc[c] = "prompting" =>
       /\ target[c] \in Asker
       /\ target[c] = c => child[c] = "open"
       /\ target[c] # c => child[c] = "none" /\ c \in Follow

\* The thread is the child of a question that has been answered, and so is what an
\* --end is closing, which is not the thread any more.
ThreadInv ==
  /\ thread # None => pc[thread] = "done" /\ child[thread] = "open"
  /\ \A e \in End : pc[e] \in {"aborting", "deleting"} =>
       ends[e] \in Follow /\ ends[e] # thread /\ pc[ends[e]] = "done"

\* A flight is of a call that prompts.
FlightInv ==
  \A ch \in Asker : inFlight[ch] # None =>
    pc[inFlight[ch]] = "prompting" /\ target[inFlight[ch]] = ch

\* askSide() is at one of its attempts until it settles, and at none before.
AttemptInv ==
  \A c \in Beta : pc[c] \in {"creating", "prompting", "interrupting"} => attempt[c] < Attempts
UnstartedInv == \A c \in Beta : pc[c] = "new" => attempt[c] = 0

SideInv ==
  /\ TypeOK /\ ChildInv /\ ThreadInv /\ FlightInv /\ AttemptInv /\ UnstartedInv
  /\ AskLeavesNothing /\ OverlayTruthful

-----------------------------------------------------------------------------
(* Types.                                                                  *)

LEMMA Kinds ==
  /\ ToolAsk \subseteq Asker /\ Ask \subseteq Asker /\ Follow \subseteq Asker
  /\ Tui \subseteq Asker /\ ToolAsk \cap Tui = {} /\ Ask \cap Follow = {}
  /\ Asker \subseteq Call /\ End \subseteq Call /\ Beta \subseteq Call
  /\ Deletion \subseteq Call /\ Shutdown \subseteq Call
  /\ Asker \cap (End \cup Beta \cup Deletion \cup Shutdown) = {}
  /\ End \cap (Beta \cup Deletion \cup Shutdown) = {}
  /\ Beta \cap (Deletion \cup Shutdown) = {} /\ Deletion \cap Shutdown = {}
  /\ None \notin Call
  /\ Attempts \in Nat \ {0} /\ History \in Nat
BY SideAssumption DEF Asker, Tui, Call

\* record() keeps a ring of calls within its bound.
LEMMA RingBounded ==
  ASSUME NEW s \in Seq(Asker), Len(s) <= History, NEW c \in Asker
  PROVE  Newest(Append(s, c)) \in Seq(Asker) /\ Len(Newest(Append(s, c))) <= History
<1> DEFINE a == Append(s, c)
<1>1. a \in Seq(Asker) /\ Len(a) = Len(s) + 1 /\ Len(s) \in Nat
  BY AppendProperties, LenProperties
<1>2. CASE Len(a) <= History
  BY <1>1, <1>2, Kinds DEF Newest
<1>3. CASE Len(a) > History
  <2>1. Len(a) = History + 1 /\ Newest(a) = SubSeq(a, 2, Len(a))
    BY <1>1, <1>3, Kinds DEF Newest
  <2>2. SubSeq(a, 2, Len(a)) \in Seq(Asker) /\ Len(SubSeq(a, 2, Len(a))) = Len(a) - 1
    <3>1. \A i \in 2..Len(a) : a[i] \in Asker
      BY <1>1, ElementOfSeq
    <3> QED BY <1>1, <2>1, <3>1, Kinds, SubSeqProperties
  <2> QED BY <1>1, <2>1, <2>2, Kinds
<1> QED BY <1>1, <1>2, <1>3, Kinds

\* The parts of TypeOK.
CallTypes ==
  /\ pc \in [Call -> PC]
  /\ target \in [Asker -> Asker \cup {None}]
  /\ aborted \subseteq ToolAsk
  /\ attempt \in [Beta -> 0..Attempts]
  /\ ends \in [End \cup Shutdown -> Follow \cup Side \cup {None}]
ChildTypes ==
  /\ child \in [Asker -> {"none", "open", "deleted", "kept"}]
  /\ inFlight \in [Asker -> Asker \cup {None}]
  /\ children \subseteq Asker /\ thread \in Follow \cup {None}
RingTypes == ring \in [Side -> Seq(Asker)] /\ \A s \in Side : Len(ring[s]) <= History
Screen == [question : Question \cup {None}, status : {"none", "pending", "answered", "failed"}]
ScreenTypes == question \in [Tui -> Question \cup {None}] /\ overlay \in Screen

LEMMA TypeParts == TypeOK <=> CallTypes /\ ChildTypes /\ RingTypes /\ ScreenTypes
BY DEF TypeOK, CallTypes, ChildTypes, RingTypes, ScreenTypes, Screen

LEMMA TypeInit == Init => TypeOK
<1> SUFFICES ASSUME Init PROVE CallTypes /\ ChildTypes /\ RingTypes /\ ScreenTypes
  BY TypeParts
<1>1. CallTypes /\ ChildTypes
  BY Kinds DEF Init, CallTypes, ChildTypes, PC
<1>2. RingTypes /\ ScreenTypes
  BY Kinds, EmptySeq DEF Init, RingTypes, ScreenTypes, Screen, Nothing
<1> QED BY <1>1, <1>2

LEMMA CallTypeStep ==
  ASSUME CallTypes, ChildTypes, AttemptInv, Next  PROVE CallTypes'
<1> USE Kinds DEF CallTypes, PC, Settled
<1>1. ASSUME NEW c \in Asker,
             Begins(c) \/ Served(c) \/ Answers(c) \/ Errs(c) \/ Fails(c) \/ Aborts(c)
      PROVE CallTypes'
  BY <1>1 DEF ChildTypes, Begins, Arriving, Continues, Served, Snapshots, PreparationFails, Creates,
     ClosesFlight, Answers, Errs, Fails, Aborts, GivesUp
<1>2. ASSUME NEW c \in Beta,
             BetaBegins(c) \/ BetaServed(c) \/ BetaAnswers(c) \/ BetaFails(c)
      PROVE CallTypes'
  BY <1>2 DEF BetaBegins, BetaServed, BetaAnswers, BetaFails, BetaCreates,
     BetaCreateFails, BetaReturns, BetaRetries, Again, BetaMoves, Tries, AttemptInv
<1>3. ASSUME NEW e \in End, EndsThread(e) \/ EndAborted(e) \/ EndDeleted(e)  PROVE CallTypes'
  BY <1>3 DEF ChildTypes, EndsThread, EndAborted, EndDeleted
<1>4. ASSUME NEW z \in Shutdown, Disposes(z) \/ DisposeDone(z)  PROVE CallTypes'
  BY <1>4 DEF Disposes, DisposeDone
<1>5. ASSUME NEW d \in Deletion, SessionDeleted(d)  PROVE CallTypes'
  BY <1>5 DEF SessionDeleted
<1> QED BY <1>1, <1>2, <1>3, <1>4, <1>5 DEF Next

LEMMA ChildTypeStep ==
  ASSUME CallTypes, ChildTypes, ChildInv, ThreadInv, Next  PROVE ChildTypes'
<1> USE Kinds DEF ChildTypes
<1>1. ASSUME NEW c \in Asker,
             Begins(c) \/ Served(c) \/ Answers(c) \/ Errs(c) \/ Fails(c) \/ Aborts(c)
      PROVE ChildTypes'
  BY <1>1 DEF Begins, Continues, Served, Snapshots, PreparationFails, Creates,
     ClosesFlight, Answers, Errs, Fails, Aborts, GivesUp, Freed
<1>2. ASSUME NEW c \in Beta,
             BetaBegins(c) \/ BetaServed(c) \/ BetaAnswers(c) \/ BetaFails(c)
      PROVE ChildTypes'
  BY <1>2 DEF BetaBegins, BetaServed, BetaAnswers, BetaFails, BetaCreates,
     BetaCreateFails, BetaReturns, BetaRetries, Again, BetaMoves
<1>3. ASSUME NEW e \in End, EndsThread(e) \/ EndAborted(e) \/ EndDeleted(e)  PROVE ChildTypes'
  BY <1>3 DEF EndsThread, EndAborted, EndDeleted, Unlink, ThreadInv
<1>4. ASSUME NEW z \in Shutdown, Disposes(z) \/ DisposeDone(z)  PROVE ChildTypes'
  BY <1>4 DEF Disposes, DisposeDone
<1>5. ASSUME NEW d \in Deletion, SessionDeleted(d)  PROVE ChildTypes'
  BY <1>5 DEF SessionDeleted
<1> QED BY <1>1, <1>2, <1>3, <1>4, <1>5 DEF Next

LEMMA RecordedRings ==
  ASSUME NEW c \in Asker, RingTypes, ring' = Recorded(c)  PROVE RingTypes'
BY RingBounded DEF RingTypes, Recorded, Runner, Side

LEMMA EmptiedRings ==
  ASSUME NEW s \in Side, RingTypes, ring' = [ring EXCEPT ![s] = <<>>]  PROVE RingTypes'
BY Kinds, EmptySeq DEF RingTypes

LEMMA RingTypeStep ==
  ASSUME RingTypes, Next  PROVE RingTypes'
<1> USE Kinds
<1>1. ASSUME UNCHANGED ring  PROVE RingTypes'
  BY <1>1 DEF RingTypes
<1>2. ASSUME NEW c \in Asker,
             Begins(c) \/ Served(c) \/ Answers(c) \/ Errs(c) \/ Fails(c) \/ Aborts(c)
      PROVE RingTypes'
  BY <1>1, <1>2, RecordedRings DEF Begins, Served, Snapshots, PreparationFails, Creates,
     ClosesFlight, Answers, Errs, Fails, Aborts
<1>3. ASSUME NEW c \in Beta,
             BetaBegins(c) \/ BetaServed(c) \/ BetaAnswers(c) \/ BetaFails(c)
      PROVE RingTypes'
  BY <1>1, <1>3 DEF BetaBegins, BetaServed, BetaAnswers, BetaFails, BetaCreates,
     BetaCreateFails, BetaReturns, BetaRetries, Again, BetaMoves
<1>4. ASSUME NEW e \in End, EndsThread(e) \/ EndAborted(e) \/ EndDeleted(e)  PROVE RingTypes'
  BY <1>1, <1>4 DEF EndsThread, EndAborted, EndDeleted
<1>5. ASSUME NEW z \in Shutdown, Disposes(z)  PROVE RingTypes'
  BY <1>1, <1>5, EmptiedRings DEF Disposes
<1>6. ASSUME NEW z \in Shutdown, DisposeDone(z)  PROVE RingTypes'
  <2>1. \A s \in Side : ring'[s] = ring[s] \/ ring'[s] = <<>>
    BY <1>6 DEF DisposeDone, RingTypes
  <2>2. ring' \in [Side -> Seq(Asker)]
    BY <1>6, <2>1, EmptySeq DEF DisposeDone, RingTypes
  <2> QED BY <2>1, <2>2, EmptySeq DEF RingTypes
<1>7. ASSUME NEW d \in Deletion, SessionDeleted(d)  PROVE RingTypes'
  BY <1>7, EmptiedRings DEF SessionDeleted, Side
<1> QED BY <1>2, <1>3, <1>4, <1>5, <1>6, <1>7 DEF Next

\* What a call shows of itself when it settles.
LEMMA ShownType ==
  ASSUME overlay \in Screen, NEW c \in Asker, NEW s \in {"answered", "failed"}
  PROVE  Shows(c, s) \in Screen
BY DEF Screen, Shows, Shown

LEMMA ScreenTypeStep ==
  ASSUME ScreenTypes, Next  PROVE ScreenTypes'
<1> USE Kinds DEF ScreenTypes
<1>1. ASSUME NEW c \in Asker, Begins(c)  PROVE ScreenTypes'
  BY <1>1 DEF Begins, Screen
<1>2. ASSUME NEW c \in Asker,
             Served(c) \/ Answers(c) \/ Errs(c) \/ Fails(c) \/ Aborts(c)
      PROVE ScreenTypes'
  BY <1>2, ShownType DEF Served, Snapshots, PreparationFails, Creates,
     ClosesFlight, Answers, Errs, Fails, Aborts, GivesUp
<1>3. ASSUME NEW c \in Beta,
             BetaBegins(c) \/ BetaServed(c) \/ BetaAnswers(c) \/ BetaFails(c)
      PROVE ScreenTypes'
  BY <1>3 DEF BetaBegins, BetaServed, BetaAnswers, BetaFails, BetaCreates,
     BetaCreateFails, BetaReturns, BetaRetries, Again, BetaMoves
<1>4. ASSUME NEW e \in End, EndsThread(e) \/ EndAborted(e) \/ EndDeleted(e)  PROVE ScreenTypes'
  BY <1>4 DEF EndsThread, EndAborted, EndDeleted
<1>5. ASSUME NEW z \in Shutdown, Disposes(z) \/ DisposeDone(z)  PROVE ScreenTypes'
  BY <1>5 DEF Disposes, DisposeDone
<1>6. ASSUME NEW d \in Deletion, SessionDeleted(d)  PROVE ScreenTypes'
  BY <1>6 DEF SessionDeleted
<1> QED BY <1>1, <1>2, <1>3, <1>4, <1>5, <1>6 DEF Next, Served

-----------------------------------------------------------------------------
(* What a step makes of the children, the thread and the flights.          *)

SideTypes == CallTypes /\ ChildTypes
Asks(c) == Begins(c) \/ Served(c) \/ Answers(c) \/ Errs(c) \/ Fails(c) \/ Aborts(c)

LEMMA ChildStep ==
  ASSUME SideTypes, ChildInv, ThreadInv, Next  PROVE ChildInv'
<1> USE Kinds DEF SideTypes, CallTypes, ChildTypes, ChildInv
<1>1. ASSUME NEW c \in Asker, Asks(c)  PROVE ChildInv'
  <2>1. CASE Begins(c)
    BY <2>1 DEF ThreadInv, Begins, Arriving, Continues
  <2>2. CASE Served(c)
    BY <2>2 DEF ThreadInv, Served, Snapshots, PreparationFails, Creates, ClosesFlight
  <2>3. CASE Answers(c)
    BY <2>3 DEF ThreadInv, Answers
  <2>4. CASE Errs(c) \/ Fails(c) \/ Aborts(c)
    BY <2>4 DEF ThreadInv, Errs, Fails, Aborts, GivesUp
  <2> QED BY <1>1, <2>1, <2>2, <2>3, <2>4 DEF Asks
<1>2. ASSUME NEW c \in Beta,
             BetaBegins(c) \/ BetaServed(c) \/ BetaAnswers(c) \/ BetaFails(c)
      PROVE ChildInv'
  BY <1>2 DEF BetaBegins, BetaServed, BetaAnswers, BetaFails, BetaCreates,
     BetaCreateFails, BetaReturns, BetaRetries, Again, BetaMoves
<1>3. ASSUME NEW e \in End, EndsThread(e) \/ EndAborted(e) \/ EndDeleted(e)  PROVE ChildInv'
  BY <1>3 DEF EndsThread, EndAborted, EndDeleted, ThreadInv
<1>4. ASSUME NEW z \in Shutdown, Disposes(z) \/ DisposeDone(z)  PROVE ChildInv'
  BY <1>4 DEF Disposes, DisposeDone
<1>5. ASSUME NEW d \in Deletion, SessionDeleted(d)  PROVE ChildInv'
  BY <1>5 DEF SessionDeleted
<1> QED BY <1>1, <1>2, <1>3, <1>4, <1>5 DEF Next, Asks

LEMMA ThreadStep ==
  ASSUME SideTypes, ChildInv, ThreadInv, Next  PROVE ThreadInv'
<1> USE Kinds DEF SideTypes, CallTypes, ChildTypes, ThreadInv
<1>1. ASSUME NEW c \in Asker, Asks(c)  PROVE ThreadInv'
  <2>1. CASE Begins(c)
    BY <2>1 DEF ChildInv, Begins, Arriving, Continues
  <2>2. CASE Served(c)
    BY <2>2 DEF ChildInv, Served, Snapshots, PreparationFails, Creates, ClosesFlight
  <2>3. CASE Answers(c)
    BY <2>3 DEF ChildInv, Answers
  <2>4. CASE Errs(c) \/ Fails(c) \/ Aborts(c)
    BY <2>4 DEF ChildInv, Errs, Fails, Aborts, GivesUp
  <2> QED BY <1>1, <2>1, <2>2, <2>3, <2>4 DEF Asks
<1>2. ASSUME NEW c \in Beta,
             BetaBegins(c) \/ BetaServed(c) \/ BetaAnswers(c) \/ BetaFails(c)
      PROVE ThreadInv'
  BY <1>2 DEF BetaBegins, BetaServed, BetaAnswers, BetaFails, BetaCreates,
     BetaCreateFails, BetaReturns, BetaRetries, Again, BetaMoves
<1>3. ASSUME NEW e \in End, EndsThread(e) \/ EndAborted(e) \/ EndDeleted(e)  PROVE ThreadInv'
  BY <1>3 DEF EndsThread, EndAborted, EndDeleted, Unlink
<1>4. ASSUME NEW z \in Shutdown, Disposes(z) \/ DisposeDone(z)  PROVE ThreadInv'
  BY <1>4 DEF Disposes, DisposeDone
<1>5. ASSUME NEW d \in Deletion, SessionDeleted(d)  PROVE ThreadInv'
  BY <1>5 DEF SessionDeleted
<1> QED BY <1>1, <1>2, <1>3, <1>4, <1>5 DEF Next, Asks

LEMMA AttemptStep ==
  ASSUME SideTypes, AttemptInv, UnstartedInv, Next  PROVE AttemptInv' /\ UnstartedInv'
<1> USE Kinds DEF SideTypes, CallTypes, AttemptInv, UnstartedInv
<1>1. ASSUME NEW c \in Asker, Asks(c)  PROVE AttemptInv' /\ UnstartedInv'
  BY <1>1 DEF Asks, Begins, Served, Snapshots, PreparationFails, Creates,
     ClosesFlight, Answers, Errs, Fails, Aborts, GivesUp
<1>2. ASSUME NEW c \in Beta,
             BetaBegins(c) \/ BetaServed(c) \/ BetaAnswers(c) \/ BetaFails(c)
      PROVE AttemptInv' /\ UnstartedInv'
  BY <1>2 DEF BetaBegins, BetaServed, BetaAnswers, BetaFails, BetaCreates, Arriving,
     BetaCreateFails, BetaReturns, BetaRetries, Again, BetaMoves, Tries
<1>3. ASSUME NEW e \in End, EndsThread(e) \/ EndAborted(e) \/ EndDeleted(e)
      PROVE AttemptInv' /\ UnstartedInv'
  BY <1>3 DEF EndsThread, EndAborted, EndDeleted
<1>4. ASSUME NEW z \in Shutdown, Disposes(z) \/ DisposeDone(z)
      PROVE AttemptInv' /\ UnstartedInv'
  BY <1>4 DEF Disposes, DisposeDone
<1>5. ASSUME NEW d \in Deletion, SessionDeleted(d)  PROVE AttemptInv' /\ UnstartedInv'
  BY <1>5 DEF SessionDeleted
<1> QED BY <1>1, <1>2, <1>3, <1>4, <1>5 DEF Next, Asks

LEMMA NothingLeftStep ==
  ASSUME SideTypes, ChildInv, ThreadInv, AskLeavesNothing, Next  PROVE AskLeavesNothing'
<1> USE Kinds DEF SideTypes, CallTypes, ChildTypes, AskLeavesNothing, Settled
<1>1. ASSUME NEW c \in Asker, Asks(c)  PROVE AskLeavesNothing'
  BY <1>1 DEF ChildInv, Asks, Begins, Arriving, Continues, Served, Snapshots, PreparationFails,
     Creates, ClosesFlight, Deletes, Answers, Errs, Fails, Aborts, GivesUp, Closing, Asker, Tui
<1>2. ASSUME NEW c \in Beta,
             BetaBegins(c) \/ BetaServed(c) \/ BetaAnswers(c) \/ BetaFails(c)
      PROVE AskLeavesNothing'
  BY <1>2 DEF BetaBegins, BetaServed, BetaAnswers, BetaFails, BetaCreates,
     BetaCreateFails, BetaReturns, BetaRetries, Again, BetaMoves
<1>3. ASSUME NEW e \in End, EndsThread(e) \/ EndAborted(e) \/ EndDeleted(e)
      PROVE AskLeavesNothing'
  BY <1>3 DEF EndsThread, EndAborted, EndDeleted, ThreadInv
<1>4. ASSUME NEW z \in Shutdown, Disposes(z) \/ DisposeDone(z)  PROVE AskLeavesNothing'
  BY <1>4 DEF Disposes, DisposeDone
<1>5. ASSUME NEW d \in Deletion, SessionDeleted(d)  PROVE AskLeavesNothing'
  BY <1>5 DEF SessionDeleted
<1> QED BY <1>1, <1>2, <1>3, <1>4, <1>5 DEF Next, Asks

LEMMA FlightStep ==
  ASSUME SideTypes, ChildInv, ThreadInv, FlightInv, Next  PROVE FlightInv'
<1> USE Kinds DEF SideTypes, CallTypes, ChildTypes, FlightInv
<1>1. ASSUME NEW c \in Asker, Asks(c)  PROVE FlightInv'
  BY <1>1 DEF ChildInv, Asks, Begins, Arriving, Continues, Served, Snapshots, PreparationFails,
     Creates, ClosesFlight, Answers, Errs, Fails, Aborts, GivesUp, Freed
<1>2. ASSUME NEW c \in Beta,
             BetaBegins(c) \/ BetaServed(c) \/ BetaAnswers(c) \/ BetaFails(c)
      PROVE FlightInv'
  BY <1>2 DEF BetaBegins, BetaServed, BetaAnswers, BetaFails, BetaCreates,
     BetaCreateFails, BetaReturns, BetaRetries, Again, BetaMoves
<1>3. ASSUME NEW e \in End, EndsThread(e) \/ EndAborted(e) \/ EndDeleted(e)
      PROVE FlightInv'
  BY <1>3 DEF EndsThread, EndAborted, EndDeleted, ThreadInv
<1>4. ASSUME NEW z \in Shutdown, Disposes(z) \/ DisposeDone(z)  PROVE FlightInv'
  BY <1>4 DEF Disposes, DisposeDone
<1>5. ASSUME NEW d \in Deletion, SessionDeleted(d)  PROVE FlightInv'
  BY <1>5 DEF SessionDeleted
<1> QED BY <1>1, <1>2, <1>3, <1>4, <1>5 DEF Next, Asks

\* A question on the screen has a call that tells what the screen tells.
LEMMA ScreenStep ==
  ASSUME SideTypes, ScreenTypes, OverlayTruthful, Next  PROVE OverlayTruthful'
<1> USE Kinds DEF SideTypes, CallTypes, ScreenTypes, OverlayTruthful
<1>1. ASSUME NEW c \in Asker, Begins(c)  PROVE OverlayTruthful'
  BY <1>1 DEF Begins, Arriving
<1>2. ASSUME NEW c \in Asker,
             Served(c) \/ Answers(c) \/ Errs(c) \/ Fails(c) \/ Aborts(c)
      PROVE OverlayTruthful'
  BY <1>2 DEF Screen, Served, Snapshots, PreparationFails, Creates, ClosesFlight, Answers,
     Errs, Fails, Aborts, GivesUp, Shows, Shown
<1>3. ASSUME NEW c \in Beta,
             BetaBegins(c) \/ BetaServed(c) \/ BetaAnswers(c) \/ BetaFails(c)
      PROVE OverlayTruthful'
  BY <1>3 DEF BetaBegins, BetaServed, BetaAnswers, BetaFails, BetaCreates,
     BetaCreateFails, BetaReturns, BetaRetries, Again, BetaMoves
<1>4. ASSUME NEW e \in End, EndsThread(e) \/ EndAborted(e) \/ EndDeleted(e)
      PROVE OverlayTruthful'
  BY <1>4 DEF EndsThread, EndAborted, EndDeleted
<1>5. ASSUME NEW z \in Shutdown, Disposes(z) \/ DisposeDone(z)  PROVE OverlayTruthful'
  BY <1>5 DEF Disposes, DisposeDone
<1>6. ASSUME NEW d \in Deletion, SessionDeleted(d)  PROVE OverlayTruthful'
  BY <1>6 DEF SessionDeleted
<1> QED BY <1>1, <1>2, <1>3, <1>4, <1>5, <1>6 DEF Next, Served

-----------------------------------------------------------------------------
(* Theorems.                                                               *)

LEMMA SideInit == Init => SideInv
<1> SUFFICES ASSUME Init PROVE SideInv
  OBVIOUS
<1>1. ChildInv /\ ThreadInv /\ FlightInv
  BY Kinds DEF Init, ChildInv, ThreadInv, FlightInv
<1>2. AttemptInv /\ UnstartedInv /\ AskLeavesNothing /\ OverlayTruthful
  BY Kinds DEF Init, AttemptInv, UnstartedInv, AskLeavesNothing, OverlayTruthful, Nothing, Settled
<1> QED BY <1>1, <1>2, TypeInit DEF SideInv

LEMMA SideStep == SideInv /\ [Next]_vars => SideInv'
<1> SUFFICES ASSUME SideInv, [Next]_vars PROVE SideInv'
  OBVIOUS
<1>1. CASE Next
  <2>1. SideTypes /\ RingTypes /\ ScreenTypes
    BY TypeParts DEF SideInv, SideTypes
  <2>2. TypeOK'
    BY <1>1, <2>1, CallTypeStep, ChildTypeStep, RingTypeStep, ScreenTypeStep, TypeParts
    DEF SideInv, SideTypes, TypeOK, CallTypes, ChildTypes, RingTypes, ScreenTypes, Screen
  <2>3. ChildInv' /\ ThreadInv' /\ FlightInv'
    BY <1>1, <2>1, ChildStep, ThreadStep, FlightStep DEF SideInv
  <2>4. AttemptInv' /\ UnstartedInv' /\ AskLeavesNothing' /\ OverlayTruthful'
    BY <1>1, <2>1, AttemptStep, NothingLeftStep, ScreenStep DEF SideInv
  <2> QED BY <2>2, <2>3, <2>4 DEF SideInv
<1>2. CASE UNCHANGED vars
  BY <1>2 DEF vars, SideInv, TypeOK, ChildInv, ThreadInv, FlightInv, AttemptInv, UnstartedInv,
     AskLeavesNothing, OverlayTruthful
<1> QED BY <1>1, <1>2

THEOREM SideInvariant == Spec => []SideInv
BY SideInit, SideStep, PTL DEF Spec

\* Every variable keeps its type, and no ring grows beyond `history`.
THEOREM SideTypeCorrect == Spec => []TypeOK
<1>1. SideInv => TypeOK
  BY DEF SideInv
<1> QED BY <1>1, SideInvariant, PTL

\* An ephemeral question that has settled has no child left but one whose deletion
\* failed.
THEOREM QuestionsLeaveNothing == Spec => []AskLeavesNothing
<1>1. SideInv => AskLeavesNothing
  BY DEF SideInv
<1> QED BY <1>1, SideInvariant, PTL

\* A settled question keeps no child busy, and the thread is a child that nothing has
\* deleted or asked to delete.
THEOREM ThreadStaysUsable == Spec => []ThreadUsable
<1>1. SideInv => ThreadUsable
  BY DEF SideInv, FlightInv, ThreadInv, ThreadUsable
<1> QED BY <1>1, SideInvariant, PTL

\* The overlay tells what became of a call that asked the question it shows.
THEOREM ScreenTruthful == Spec => []OverlayTruthful
<1>1. SideInv => OverlayTruthful
  BY DEF SideInv
<1> QED BY <1>1, SideInvariant, PTL

=============================================================================
