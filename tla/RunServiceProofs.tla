-------------------------- MODULE RunServiceProofs --------------------------
(***************************************************************************)
(* Theorems about a declarative workflow run, for any definition without   *)
(* cycles, any number of processes and calls and any bound on the events   *)
(* that cut an execution short.                                            *)
(***************************************************************************)
EXTENDS RunService, FiniteSetTheorems, WellFoundedInduction, TLAPS

-----------------------------------------------------------------------------
(* The inductive invariant.                                                *)

\* An execution between its reset and its last save, and a call that holds the lease.
Steady == {"level", "working", "synth", "synthesizing", "finishing"}
Owning == {"rerunning", "start", "routing", "routed"} \cup Steady
\* Nothing but lanes of the run goes on.
Past == {"cancelling", "returned", "rejecting", "done"}

Busy(q) == q.pc \notin {"idle", "done"}
Spare(q) == q.todo # {} /\ Cardinality(q.calls) < q.lanes

\* What a need must be for a step to be under way.
Allows(st, d) == st[d] = "completed" \/ (st[d] \in Settled /\ d \in Tolerant)

\* While no execution has given up on steps, a cancelled step is one that was blocked.
Justified(st) == \A c \in Step : st[c] = "cancelled" => \E d \in Needs[c] : Blocking(st, d)
AllDone(st) == \A s \in Step : Done(st, s)

\* What holds of every run object: the row, and a call's base and run.
Sound(r, gaveUp) ==
  Topological =>
    /\ Met(r.steps)
    /\ gaveUp = "nothing" => Justified(r.steps) /\ (r.status = "completed" => AllDone(r.steps))

Typed(q) == q \in Local /\ Cardinality(q.calls) <= q.lanes

\* Which lanes, statuses and reasons there are in each place of a call.
Placed(q, gaveUp, straying) ==
  /\ Busy(q) => q.base.status # "absent"
  /\ q.pc \notin {"working", "failing"} \cup Past => q.calls = {} /\ q.todo = {}
  /\ q.pc \in Past /\ (q.calls # {} \/ Spare(q)) => q.at \in straying /\ gaveUp # "nothing"
  /\ q.reason # "none" => gaveUp # "nothing"
  /\ q.pc \in Steady => q.run.status = "running"
  /\ q.todo # {} \/ q.calls # {} => q.run.status \notin {"absent", "completed"}
  /\ q.pc \in {"failing", "cancelling", "returned"} => q.run.status # "absent"

\* What the copy of an execution says of its steps in each place.
Stepped(q) ==
  /\ q.pc \in Steady => \A k \in Step : /\ q.run.steps[k] # "interrupted"
                                        /\ q.run.steps[k] = "running" => k \in q.calls
  /\ q.pc \in {"synth", "synthesizing", "finishing"} => Pending(q.run.steps) = {}
  /\ q.pc \in {"working", "failing"} => /\ \A k \in q.todo : q.run.steps[k] = "pending"
                                        /\ \A k \in q.calls : q.run.steps[k] = "running"

\* What a step that is under way, done or in a lane needs is settled and in no lane.
Clear(q) ==
  \A t \in Step :
    t \in q.todo \cup q.calls \/ q.run.steps[t] \in {"running", "completed"} =>
      \A d \in Needs[t] : d \notin q.todo \cup q.calls /\ Allows(q.run.steps, d)

Fits(q, gaveUp, straying) ==
  /\ Typed(q) /\ Sound(q.base, gaveUp) /\ Sound(q.run, gaveUp)
  /\ Placed(q, gaveUp, straying) /\ Stepped(q)
  /\ Topological => Clear(q)

\* The row is what an execution works on, but for steps it has just blocked.
Mirrors(rs, st) == \A s \in Step : rs[s] = st[s] \/ (rs[s] = "pending" /\ st[s] = "cancelled")

GlobalTypes ==
  /\ row \in Run
  /\ control \in {"run", "pause", "stop"}
  /\ lease \in [owner : Proc \cup {None}, live : BOOLEAN]
  /\ up \in [Proc -> {"new", "up", "disposing", "gone"}]
  /\ lapsed \subseteq Proc
  /\ strayed \subseteq Proc
  /\ swept \in {"nothing", "disposal", "other"}
  /\ events \in 0..MaxEvents
  /\ DOMAIN task = Task /\ task = [e \in Task |-> task[e]]

\* One call at a time in a process, and a living one.
Lodged ==
  /\ row.status = "absent" => \A e \in Task : task[e].pc = "idle"
  /\ \A e \in Task : Busy(task[e]) => Alive(task[e].at)
  /\ \A e, f \in Task : Busy(task[e]) /\ Busy(task[f]) /\ task[e].at = task[f].at => e = f
  /\ \A e \in Task : task[e].pc = "idle" => task[e].at = None

\* An execution that did not lose it has the lease, and the row is its own.
Leads(e) ==
  task[e].at \notin lapsed \cup strayed =>
    /\ task[e].pc \in Owning => lease = Held(task[e].at)
    /\ task[e].pc \in Steady => Mirrors(row.steps, task[e].run.steps)

RunInv ==
  /\ GlobalTypes /\ Sound(row, swept) /\ Lodged
  /\ \A e \in Task : Fits(task[e], swept, strayed) /\ Leads(e)

-----------------------------------------------------------------------------
(* The definition and its steps.                                           *)

LEMMA Least ==
  ASSUME NEW T, T \subseteq Nat, T # {}
  PROVE  \E x \in T : \A y \in T : x <= y
<1> DEFINE R == OpToRel(<, Nat)
<1>1. IsWellFoundedOn(R, Nat)
  BY NatLessThanWellFounded
<1>2. ASSUME NEW x \in Nat, NEW y \in Nat, y < x  PROVE <<y, x>> \in R
  BY <1>2 DEF OpToRel
<1> HIDE DEF R
<1>3. PICK x \in T : \A y \in T : ~(<<y, x>> \in R)
  BY <1>1, WFMin
<1>4. ASSUME NEW y \in T  PROVE x <= y
  <2>1. x \in Nat /\ y \in Nat /\ <<y, x>> \notin R
    BY <1>3
  <2>2. ~(y < x)
    BY <1>2, <2>1
  <2> QED BY <2>1, <2>2
<1> QED BY <1>4

LEMMA StepFacts ==
  /\ Step \subseteq Nat /\ N \in Step /\ Width \in Nat \ {0}
  /\ \A s \in Step : Needs[s] \subseteq Step
  /\ IsFiniteSet(Step)
<1>1. N \in Nat \ {0} /\ Needs \in [Step -> SUBSET Step] /\ Width \in Nat \ {0}
  BY DagAssumption
<1>2. IsFiniteSet(1..N)
  BY <1>1, FS_Interval
<1> QED BY <1>1, <1>2 DEF Step

LEMMA Counts ==
  ASSUME NEW S \in SUBSET Step
  PROVE  /\ IsFiniteSet(S) /\ Cardinality(S) \in Nat
         /\ (Cardinality(S) = 0 <=> S = {})
         /\ \A x \in Step : Cardinality(S \cup {x}) <= Cardinality(S) + 1
         /\ \A x \in S : Cardinality(S \ {x}) = Cardinality(S) - 1
<1>1. IsFiniteSet(S)
  BY StepFacts, FS_Subset
<1>2. Cardinality(S) \in Nat /\ (Cardinality(S) = 0 <=> S = {})
  BY <1>1, FS_CardinalityType, FS_EmptySet
<1>3. ASSUME NEW x \in Step  PROVE Cardinality(S \cup {x}) <= Cardinality(S) + 1
  BY <1>1, <1>2, FS_AddElement
<1>4. ASSUME NEW x \in S  PROVE Cardinality(S \ {x}) = Cardinality(S) - 1
  BY <1>1, <1>2, FS_RemoveElement
<1> QED BY <1>1, <1>2, <1>3, <1>4

LEMMA MarkIs ==
  ASSUME NEW st \in Steps, NEW S, NEW status \in StepStatus
  PROVE  /\ Mark(st, S, status) \in Steps
         /\ \A s \in Step : Mark(st, S, status)[s] = IF s \in S THEN status ELSE st[s]
BY DEF Mark, Steps

\* Some pending step of a run that nothing goes on for has all its needs settled, since
\* needs have no cycle.
LEMMA ReadyExists ==
  ASSUME NEW st \in Steps, Pending(st) # {},
         \A s \in Step : st[s] \in Settled \cup {"pending"}
  PROVE  Ready(st) # {}
<1>1. PICK rank \in [Step -> Step] : \A s \in Step : \A d \in Needs[s] : rank[d] < rank[s]
  BY DagAssumption
<1> DEFINE T == {rank[s] : s \in Pending(st)}
<1>2. T \subseteq Nat /\ T # {}
  BY <1>1, StepFacts DEF Pending
<1>3. PICK x \in T : \A y \in T : x <= y
  BY <1>2, Least
<1>4. PICK s \in Pending(st) : x = rank[s]
  OBVIOUS
<1>5. ASSUME NEW d \in Needs[s]  PROVE st[d] \in Settled
  <2>1. s \in Step /\ d \in Step /\ rank[d] < rank[s] /\ rank[d] \in Nat /\ rank[s] \in Nat
    BY <1>1, StepFacts DEF Pending
  <2>2. rank[d] \notin T
    BY <1>2, <1>3, <1>4, <2>1
  <2>3. st[d] # "pending"
    BY <2>1, <2>2 DEF Pending
  <2> QED BY <2>1, <2>3
<1>6. s \in Ready(st)
  BY <1>4, <1>5 DEF Ready
<1> QED BY <1>6

\* The pass of cancelBlockedSteps has a result: the least set that holds every step the
\* pass has a reason to cancel.
LEMMA BlockedIs ==
  ASSUME NEW st \in Steps
  PROVE  /\ Blocked(st) \in SUBSET Pending(st)
         /\ \A s \in Pending(st) :
              s \in Blocked(st) <=>
                \E d \in Needs[s] : Blocking(st, d) \/ (d < s /\ d \in Blocked(st) \ Tolerant)
<1> DEFINE Due(C, s) == \E d \in Needs[s] : Blocking(st, d) \/ (d < s /\ d \in C \ Tolerant)
           Closed == {C \in SUBSET Pending(st) : \A s \in Pending(st) : Due(C, s) => s \in C}
           B == {s \in Pending(st) : \A C \in Closed : s \in C}
<1>1. ASSUME NEW s \in Pending(st), Due(B, s)  PROVE s \in B
  <2>1. ASSUME NEW C \in Closed  PROVE s \in C
    <3>1. B \subseteq C
      BY <2>1
    <3>2. Due(C, s)
      BY <1>1, <3>1
    <3> QED BY <3>2
  <2> QED BY <2>1
<1>2. ASSUME NEW s \in B, ~Due(B, s)  PROVE FALSE
  <2>1. B \ {s} \in SUBSET Pending(st)
    OBVIOUS
  <2>2. ASSUME NEW t \in Pending(st), Due(B \ {s}, t)  PROVE t \in B \ {s}
    <3>1. Due(B, t)
      BY <2>2
    <3>2. t \in B
      BY <1>1, <3>1
    <3> QED BY <1>2, <3>1, <3>2
  <2>3. B \ {s} \in Closed
    BY <2>1, <2>2
  <2> QED BY <2>3
<1>3. B \in SUBSET Pending(st) /\ \A s \in Pending(st) : s \in B <=> Due(B, s)
  BY <1>1, <1>2
<1> DEFINE Pass(C) == \A s \in Pending(st) :
             s \in C <=> \E d \in Needs[s] : Blocking(st, d) \/ (d < s /\ d \in C \ Tolerant)
<1>4. \E C \in SUBSET Pending(st) : Pass(C)
  BY <1>3
<1>5. Blocked(st) = CHOOSE C \in SUBSET Pending(st) : Pass(C)
  BY DEF Blocked
<1>6. Blocked(st) \in SUBSET Pending(st) /\ Pass(Blocked(st))
  <2> HIDE DEF Pass
  <2> QED BY <1>4, <1>5, Zenon
<1> QED BY <1>6, Zenon

LEMMA ResetIs ==
  ASSUME NEW st \in Steps
  PROVE  /\ Reset(st) \in Steps
         /\ \A s \in Step : Reset(st)[s] = IF st[s] \in {"running", "interrupted"} THEN "pending"
                                           ELSE st[s]
BY DEF Reset, Steps, StepStatus

LEMMA FinalizeIs ==
  ASSUME NEW st \in Steps, NEW status
  PROVE  /\ Finalize(st, status) \in Steps
         /\ \A s \in Step : Finalize(st, status)[s] =
              IF st[s] \notin {"pending", "running", "interrupted"} THEN st[s]
              ELSE IF status = "failed" THEN "failed" ELSE "cancelled"
<1> DEFINE S == {s \in Step : st[s] \in {"pending", "running", "interrupted"}}
           word == IF status = "failed" THEN "failed" ELSE "cancelled"
<1>1. word \in StepStatus
  BY DEF StepStatus
<1>2. Mark(st, S, word) \in Steps
      /\ \A s \in Step : Mark(st, S, word)[s] = IF s \in S THEN word ELSE st[s]
  <2> HIDE DEF S, word
  <2> QED BY <1>1, MarkIs
<1>3. Finalize(st, status) = Mark(st, S, word)
  BY DEF Finalize
<1> QED BY <1>2, <1>3

\* cancelBlockedSteps leaves a step pending only while everything it needs may yet allow
\* it, and has a reason for each step it cancels.
LEMMA CancelBlockedIs ==
  ASSUME NEW st \in Steps
  PROVE  LET after == CancelBlocked(st) IN
         /\ after \in Steps
         /\ \A s \in Step : after[s] = IF s \in Blocked(st) THEN "cancelled" ELSE st[s]
         /\ \A s \in Blocked(st) : s \in Step /\ st[s] = "pending"
         /\ Topological => \A s \in Ready(after) : \A d \in Needs[s] : Allows(after, d)
         /\ Justified(st) => Justified(after)
<1> DEFINE after == CancelBlocked(st)
<1>1. after \in Steps /\ \A s \in Step : after[s] = IF s \in Blocked(st) THEN "cancelled" ELSE st[s]
  BY MarkIs DEF CancelBlocked, StepStatus
<1>2. \A s \in Blocked(st) : s \in Step /\ st[s] = "pending"
  BY BlockedIs DEF Pending
<1> HIDE DEF after
<1>3. ASSUME Topological, NEW s \in Ready(after), NEW d \in Needs[s]  PROVE Allows(after, d)
  <2>1. s \in Step /\ d \in Step /\ d < s /\ after[d] \in Settled /\ after[s] = "pending"
    BY <1>3, StepFacts DEF Ready, Pending, Topological
  <2>2. s \in Pending(st) /\ s \notin Blocked(st)
    BY <1>1, <2>1 DEF Pending
  <2>3. ~Blocking(st, d) /\ (d \notin Blocked(st) \/ d \in Tolerant)
    BY <2>1, <2>2, BlockedIs
  <2> QED BY <1>1, <2>1, <2>3 DEF Allows, Blocking, Settled
<1>4. ASSUME Justified(st), NEW c \in Step, after[c] = "cancelled"
      PROVE  \E d \in Needs[c] : Blocking(after, d)
  <2>1. PICK d \in Needs[c] : Blocking(st, d) \/ (d \in Blocked(st) /\ d \notin Tolerant)
    <3>1. CASE c \in Blocked(st)
      BY <3>1, BlockedIs
    <3>2. CASE c \notin Blocked(st)
      BY <1>1, <1>4, <3>2 DEF Justified
    <3> QED BY <3>1, <3>2
  <2>2. d \in Step
    BY StepFacts
  <2> QED BY <1>1, <1>2, <2>1, <2>2 DEF Blocking
<1> QED BY <1>1, <1>2, <1>3, <1>4 DEF after, Justified

\* A run object whose unsettled steps have changed, but not to run or to be completed,
\* is as sound as it was.
LEMMA SoundKept ==
  ASSUME NEW r \in Run, NEW r2 \in Run, NEW w, NEW w2, Sound(r, w),
         \A s \in Step : \/ r2.steps[s] = r.steps[s]
                         \/ r.steps[s] \notin Settled /\ r2.steps[s] \notin {"running", "completed"},
         w2 = "nothing" =>
           /\ w = "nothing"
           /\ \A s \in Step : r2.steps[s] = "cancelled" => r.steps[s] = "cancelled"
           /\ r2.status = "completed" => r.status = "completed" /\ r2.steps = r.steps
  PROVE  Sound(r2, w2)
<1> SUFFICES ASSUME Topological  PROVE Met(r2.steps) /\
      (w2 = "nothing" => Justified(r2.steps) /\ (r2.status = "completed" => AllDone(r2.steps)))
  BY DEF Sound
<1>1. Met(r.steps) /\ (w = "nothing" =>
        Justified(r.steps) /\ (r.status = "completed" => AllDone(r.steps)))
  BY DEF Sound
<1>2. ASSUME NEW s \in Step, r2.steps[s] \in {"running", "completed"}, NEW d \in Needs[s]
      PROVE  Allows(r2.steps, d)
  <2>1. r.steps[s] = r2.steps[s] /\ d \in Step
    BY <1>2, StepFacts
  <2>2. r.steps[d] = "completed" \/ (r.steps[d] \in Settled /\ d \in Tolerant)
    BY <1>1, <1>2, <2>1 DEF Met
  <2>3. r.steps[d] \in Settled
    BY <2>2 DEF Settled
  <2>4. r2.steps[d] = r.steps[d]
    BY <2>1, <2>3
  <2> QED BY <2>2, <2>4 DEF Allows
<1>3. ASSUME w2 = "nothing", NEW s \in Step, r2.steps[s] = "cancelled"
      PROVE  \E d \in Needs[s] : Blocking(r2.steps, d)
  <2>1. PICK d \in Needs[s] : Blocking(r.steps, d)
    BY <1>1, <1>3 DEF Justified
  <2>2. r2.steps[d] = r.steps[d]
    BY <2>1, StepFacts DEF Blocking, Settled
  <2> QED BY <2>1, <2>2 DEF Blocking
<1>4. w2 = "nothing" /\ r2.status = "completed" => AllDone(r2.steps)
  BY <1>1
<1> QED BY <1>2, <1>3, <1>4 DEF Met, Allows, Justified

-----------------------------------------------------------------------------
(* One call among the others.                                              *)

LEMMA AbsentSound == \A w : Absent \in Run /\ Sound(Absent, w)
<1>1. Fresh \in Steps /\ \A s \in Step : Fresh[s] = "pending"
  BY DEF Fresh, Steps, StepStatus
<1>2. Absent.status = "absent" /\ Absent.steps = Fresh /\ Absent \in Run
  BY <1>1 DEF Absent, Run
<1> HIDE DEF Absent
<1>3. Met(Absent.steps) /\ Justified(Absent.steps)
  BY <1>1, <1>2 DEF Met, Justified
<1> QED BY <1>2, <1>3 DEF Sound

LEMMA RestFits ==
  ASSUME NEW w, NEW straying
  PROVE  Fits(Idle, w, straying) /\ Fits(Over, w, straying)
<1>1. ASSUME NEW pc \in {"idle", "done"}  PROVE Fits([Idle EXCEPT !.pc = pc], w, straying)
  <2> DEFINE q == [Idle EXCEPT !.pc = pc]
  <2>1. /\ q.pc = pc /\ q.at = None /\ q.origin = "resumed" /\ q.base = Absent /\ q.run = Absent
        /\ q.todo = {} /\ q.calls = {} /\ q.lanes = 0 /\ q.reason = "none" /\ q.asleep = FALSE
    BY DEF Idle
  <2>2. {} \in SUBSET Step /\ 0 \in 0..Width /\ Cardinality({}) = 0
    BY StepFacts, FS_EmptySet
  <2>3. q \in Local
    BY <1>1, <2>2, AbsentSound DEF Idle, Local, Pc, Origin, Reason
  <2>4. \A s \in Step : Absent.steps[s] = "pending"
    BY DEF Absent, Fresh
  <2> HIDE DEF q
  <2>5. Typed(q) /\ Sound(q.base, w) /\ Sound(q.run, w)
    BY <2>1, <2>2, <2>3, AbsentSound DEF Typed
  <2>6. Placed(q, w, straying) /\ Stepped(q)
    BY <1>1, <2>1 DEF Placed, Stepped, Busy, Spare, Past, Steady
  <2>7. Clear(q)
    BY <2>1, <2>4 DEF Clear
  <2>8. Fits(q, w, straying)
    BY <2>5, <2>6, <2>7 DEF Fits
  <2> QED BY <2>8 DEF q
<1>2. Idle = [Idle EXCEPT !.pc = "idle"]
  <2>1. {} \in SUBSET Step /\ 0 \in 0..Width
    BY StepFacts
  <2>2. Idle \in Local /\ Idle.pc = "idle"
    BY <2>1, AbsentSound DEF Idle, Local, Pc, Origin, Reason
  <2> QED BY <2>2 DEF Local
<1> QED BY <1>1, <1>2 DEF Over

LEMMA FitsKept ==
  ASSUME NEW q, NEW w, NEW w2, NEW s, NEW s2, Fits(q, w, s),
         w2 = "nothing" => w = "nothing", q.at \in s => q.at \in s2
  PROVE  Fits(q, w2, s2)
BY DEF Fits, Sound, Placed

\* What a step of a call in process p may make of the row and the lease.
Writes(p) ==
  \/ UNCHANGED <<row, lease>>
  \/ MayAcquire(p) /\ lease' = Held(p) /\ UNCHANGED row
  \/ \E r \in Run : r.status # "absent" /\ Sound(r, swept') /\ Save(p, r)

LEMMA WritesTypes ==
  ASSUME GlobalTypes, Sound(row, swept), NEW p \in Proc, Writes(p),
         swept' = "nothing" => swept = "nothing"
  PROVE  /\ row' \in Run /\ lease' \in [owner : Proc \cup {None}, live : BOOLEAN]
         /\ Sound(row', swept')
         /\ row'.status = "absent" => row.status = "absent"
<1>1. Held(p) \in [owner : Proc \cup {None}, live : BOOLEAN]
      /\ NoLease \in [owner : Proc \cup {None}, live : BOOLEAN]
  BY DEF Held, NoLease
<1>2. \A r : LeaseAfter(p, r) \in [owner : Proc \cup {None}, live : BOOLEAN]
  BY <1>1 DEF LeaseAfter, GlobalTypes
<1>3. Sound(row, swept')
  BY DEF Sound
<1> QED BY <1>1, <1>2, <1>3 DEF Writes, Save, GlobalTypes

\* Nobody writes while another process has the lease.
LEMMA WritesAlone ==
  ASSUME NEW p \in Proc, NEW o \in Proc, o # p, lease = Held(o), Writes(p)
  PROVE  row' = row /\ lease' = lease
<1>1. lease.owner = o /\ lease.live = TRUE
  BY DEF Held
<1>2. o # None
  BY RunAssumption
<1>3. ~MayAcquire(p) /\ \A r : ~MaySave(p, r)
  BY <1>1, <1>2 DEF MayAcquire, MaySave
<1> QED BY <1>3 DEF Writes, Save

\* What a call that has become q says of the lease and the row.
Leading(q) ==
  q.at \notin lapsed \cup strayed =>
    /\ q.pc \in Owning => lease = Held(q.at)
    /\ q.pc \in Steady => Mirrors(row.steps, q.run.steps)

\* A step of one call, in its process: the others keep what they know.
LEMMA StepKeeps ==
  ASSUME RunInv, NEW e \in Task, NEW p, NEW q, p = task[e].at, Alive(p), Writes(p),
         task[e].pc # "idle", task[e].pc = "done" => p \in strayed,
         task' = [task EXCEPT ![e] = q], Fits(q, swept', strayed'), Leading(q)',
         Busy(q) => Busy(task[e]) /\ q.at = p, q.pc # "idle",
         control' \in {"run", "pause", "stop"}, UNCHANGED <<up, events, lapsed>>,
         strayed' \in {strayed, strayed \cup {p}},
         swept' \in {swept, "other"}
  PROVE  RunInv'
<1>1. /\ GlobalTypes /\ Sound(row, swept) /\ Lodged
      /\ \A f \in Task : Fits(task[f], swept, strayed) /\ Leads(f)
  BY DEF RunInv
<1>2. p \in Proc
  BY DEF Alive
<1>3. swept' = "nothing" => swept = "nothing"
  OBVIOUS
<1>4. task'[e] = q /\ \A f \in Task : f # e => task'[f] = task[f]
  BY <1>1 DEF GlobalTypes
<1>5. /\ row' \in Run /\ lease' \in [owner : Proc \cup {None}, live : BOOLEAN]
      /\ Sound(row', swept')
      /\ row'.status = "absent" => row.status = "absent"
  BY <1>1, <1>2, <1>3, WritesTypes
<1>6. GlobalTypes'
  BY <1>1, <1>2, <1>5 DEF GlobalTypes
<1>7. Lodged'
  <2>1. ~(row'.status = "absent")
    BY <1>1, <1>5 DEF Lodged
  <2>2. \A f \in Task : Busy(task'[f]) => Busy(task[f]) /\ task'[f].at = task[f].at
    BY <1>4
  <2> QED BY <1>1, <2>1, <2>2 DEF Lodged, Alive
<1>8. ASSUME NEW f \in Task  PROVE Fits(task'[f], swept', strayed') /\ Leads(f)'
  <2>1. CASE f = e
    BY <1>4, <2>1 DEF Leads, Leading
  <2>2. CASE f # e
    <3>1. task'[f] = task[f] /\ Fits(task[f], swept, strayed) /\ Leads(f)
      BY <1>1, <1>4, <2>2
    <3>2. Fits(task[f], swept', strayed')
      BY <1>3, <3>1, FitsKept
    <3>3. CASE task[f].pc \in Owning /\ task[f].at \notin lapsed \cup strayed
      <4>1. Busy(task[f]) /\ lease = Held(task[f].at)
        BY <3>1, <3>3 DEF Leads, Busy, Owning, Steady
      <4>2. task[f].at \in Proc
        BY <1>1, <4>1 DEF Lodged, Alive
      <4>3. task[f].at # p
        BY <1>1, <2>2, <3>3, <4>1 DEF Lodged, Busy
      <4>4. row' = row /\ lease' = lease
        BY <1>2, <4>1, <4>2, <4>3, WritesAlone
      <4> QED BY <3>1, <3>2, <4>4 DEF Leads, Mirrors
    <3>4. CASE ~(task[f].pc \in Owning /\ task[f].at \notin lapsed \cup strayed)
      BY <3>1, <3>2, <3>4 DEF Leads, Owning
    <3> QED BY <3>3, <3>4
  <2> QED BY <2>1, <2>2
<1> QED BY <1>5, <1>6, <1>7, <1>8 DEF RunInv

\* What else a step of a call leaves as it was.
Frame(p) ==
  /\ control' \in {"run", "pause", "stop"}
  /\ UNCHANGED <<up, events, lapsed>>
  /\ strayed' \in {strayed, strayed \cup {p}}
  /\ swept' \in {swept, "other"}

LEMMA Now ==
  ASSUME RunInv, NEW e \in Task
  PROVE  /\ Fits(task[e], swept, strayed) /\ Leads(e) /\ task[e] \in Local
         /\ Sound(task[e].base, swept) /\ Sound(task[e].run, swept)
         /\ Busy(task[e]) => row.status # "absent" /\ task[e].base.status # "absent"
                             /\ Alive(task[e].at) /\ task[e].at \in Proc
         /\ task[e].calls \in SUBSET Step /\ task[e].todo \in SUBSET Step
         /\ task[e].base \in Run /\ task[e].run \in Run
         /\ task[e].base.steps \in Steps /\ task[e].run.steps \in Steps
         /\ Sound(row, swept) /\ row \in Run /\ row.steps \in Steps
         /\ DOMAIN task = Task
<1>1. Fits(task[e], swept, strayed) /\ Leads(e) /\ Sound(row, swept) /\ row \in Run
      /\ DOMAIN task = Task
  BY DEF RunInv, GlobalTypes
<1>2. task[e] \in Local
  BY <1>1 DEF Fits, Typed
<1>3. Busy(task[e]) => row.status # "absent" /\ task[e].base.status # "absent"
                       /\ Alive(task[e].at) /\ task[e].at \in Proc
  BY <1>1 DEF RunInv, Lodged, Fits, Placed, Busy, Alive
<1>4. /\ task[e].calls \in SUBSET Step /\ task[e].todo \in SUBSET Step
      /\ task[e].base \in Run /\ task[e].run \in Run
  BY <1>2 DEF Local
<1>5. \A r \in Run : r.steps \in Steps
  BY DEF Run
<1> QED BY <1>1, <1>2, <1>3, <1>4, <1>5 DEF Fits

\* A call goes on without writing.
LEMMA MoveKeeps ==
  ASSUME RunInv, NEW e \in Task, NEW q, Alive(task[e].at), UNCHANGED <<row, lease>>,
         task[e].pc # "idle", task[e].pc = "done" => task[e].at \in strayed,
         task' = [task EXCEPT ![e] = q], Fits(q, swept', strayed'), Frame(task[e].at),
         Busy(q) => Busy(task[e]) /\ q.at = task[e].at, q.pc # "idle",
         q.pc \in Owning => task[e].pc \in Owning,
         q.pc \in Steady => task[e].pc \in Steady /\ Mirrors(task[e].run.steps, q.run.steps)
  PROVE  RunInv'
<1>1. Leading(q)'
  <2> SUFFICES ASSUME q.at \notin lapsed' \cup strayed', q.pc \in Owning
      PROVE  /\ lease' = Held(q.at)
             /\ q.pc \in Steady => Mirrors(row'.steps, q.run.steps)
    BY DEF Leading, Owning
  <2>1. Busy(q) /\ q.at = task[e].at
    BY DEF Busy, Owning, Steady
  <2>2. task[e].at \notin lapsed \cup strayed
    BY <2>1 DEF Frame
  <2>3. Leads(e) /\ row \in Run
    BY DEF RunInv, GlobalTypes
  <2>4. lease' = Held(q.at)
    BY <2>1, <2>2, <2>3 DEF Leads
  <2>5. ASSUME q.pc \in Steady  PROVE Mirrors(row'.steps, q.run.steps)
    <3>1. Mirrors(row.steps, task[e].run.steps) /\ Mirrors(task[e].run.steps, q.run.steps)
      BY <2>2, <2>3, <2>5 DEF Leads
    <3> QED BY <3>1 DEF Mirrors
  <2> QED BY <2>4, <2>5
<1>2. Writes(task[e].at)
  BY DEF Writes
<1> QED BY <1>1, <1>2, StepKeeps DEF Frame

\* A call saves a snapshot and goes on, or is refused and has the run no more.
LEMMA SaveKeeps ==
  ASSUME RunInv, NEW e \in Task, NEW r \in Run, NEW saved, NEW refused, Alive(task[e].at),
         task[e].pc # "idle", task[e].pc = "done" => task[e].at \in strayed,
         SaveThen(e, r, saved, refused), Frame(task[e].at),
         r.status # "absent", Sound(r, swept'),
         Fits(saved, swept', strayed'), Fits(refused, swept', strayed'),
         Busy(saved) => Busy(task[e]) /\ saved.at = task[e].at, saved.pc # "idle",
         Busy(refused) => Busy(task[e]) /\ refused.at = task[e].at, refused.pc # "idle",
         refused.pc \notin Owning,
         saved.pc \in Owning => r.status \in {"running", "paused"},
         saved.pc \in Steady => Mirrors(r.steps, saved.run.steps)
  PROVE  RunInv'
<1>1. CASE Save(task[e].at, r) /\ task' = [task EXCEPT ![e] = saved]
  <2>1. Writes(task[e].at)
    BY <1>1 DEF Writes
  <2>2. Leading(saved)'
    <3> SUFFICES ASSUME saved.pc \in Owning
        PROVE  /\ lease' = Held(saved.at)
               /\ saved.pc \in Steady => Mirrors(row'.steps, saved.run.steps)
      BY DEF Leading, Owning
    <3>1. Busy(saved) /\ saved.at = task[e].at
      BY DEF Busy, Owning, Steady
    <3>2. lease' = Held(saved.at) /\ row' = r
      BY <1>1, <3>1 DEF Save, LeaseAfter
    <3> QED BY <3>2
  <2> QED BY <1>1, <2>1, <2>2, StepKeeps DEF Frame
<1>2. CASE Refuse(task[e].at, r) /\ task' = [task EXCEPT ![e] = refused]
  <2>1. UNCHANGED <<row, lease>>
    BY <1>2 DEF Refuse
  <2>2. refused.pc \notin Steady
    BY DEF Owning
  <2> QED BY <1>2, <2>1, <2>2, MoveKeeps
<1> QED BY <1>1, <1>2 DEF SaveThen

\* A call that has no lane at work goes on with the same copy of the run.
LEMMA Relocated ==
  ASSUME NEW q, NEW q2 \in Local, NEW w, NEW w2, NEW s, NEW s2, Fits(q, w, s),
         q.calls = {}, q.todo = {}, q2.calls = {}, q2.todo = {}, q2.lanes = q.lanes,
         q2.run = q.run, Sound(q2.base, w2), w2 = "nothing" => w = "nothing",
         q2.reason # "none" => w2 # "nothing",
         Busy(q2) => q2.base.status # "absent",
         q2.pc \in Steady => q.pc \in Steady,
         q2.pc \in {"synth", "synthesizing", "finishing"} =>
           q.pc \in {"synth", "synthesizing", "finishing"},
         q2.pc \in {"failing", "cancelling", "returned"} => q.run.status # "absent"
  PROVE  Fits(q2, w2, s2)
<1>1. Typed(q2) /\ Sound(q2.run, w2)
  BY DEF Fits, Typed, Sound
<1>2. Placed(q2, w2, s2)
  BY DEF Fits, Placed, Spare
<1>3. Stepped(q2)
  BY DEF Fits, Stepped
<1>4. Topological => Clear(q2)
  BY DEF Fits, Clear
<1> QED BY <1>1, <1>2, <1>3, <1>4 DEF Fits

-----------------------------------------------------------------------------
(* Before runWorkflow, and at its gates.                                   *)

LEMMA AtIs ==
  ASSUME NEW e \in Task, task[e] \in Local, NEW pc \in Pc
  PROVE  LET q == At(e, pc) IN
         /\ q \in Local /\ q.pc = pc /\ q.at = task[e].at /\ q.origin = task[e].origin
         /\ q.base = task[e].base /\ q.run = task[e].run /\ q.todo = task[e].todo
         /\ q.calls = task[e].calls /\ q.lanes = task[e].lanes /\ q.reason = task[e].reason
         /\ q.asleep = task[e].asleep
BY DEF At, Local

LEMMA OverIs ==
  /\ Over.pc = "done" /\ Over.calls = {} /\ ~Busy(Over) /\ Over.pc # "idle"
  /\ Over.pc \notin Owning /\ Over.pc \notin Steady
BY DEF Over, Idle, Busy, Owning, Steady

\* A call with no lane at work, at some place before or between the levels.
Before == {"restarting", "resuming", "claiming", "rerunning", "start", "routing", "routed",
           "entering", "level", "synth", "synthesizing", "finishing"}

LEMMA AtRest ==
  ASSUME RunInv, NEW e \in Task, task[e].pc \in Before
  PROVE  /\ task[e].calls = {} /\ task[e].todo = {} /\ Busy(task[e])
         /\ Alive(task[e].at) /\ row.status # "absent" /\ task[e].base.status # "absent"
         /\ task[e].pc # "idle" /\ task[e].pc # "done"
         /\ task[e].reason # "none" => swept # "nothing"
         /\ task[e].pc \in Steady => task[e].run.status = "running"
<1>1. Fits(task[e], swept, strayed)
  BY Now
<1>2. task[e].calls = {} /\ task[e].todo = {}
  BY <1>1 DEF Fits, Placed, Before, Past
<1>3. Busy(task[e])
  BY DEF Busy, Before
<1> QED BY <1>1, <1>2, <1>3, Now DEF Fits, Placed, Busy

\* The pc alone changes, with no lane at work.
LEMMA Forward ==
  ASSUME RunInv, NEW e \in Task, task[e].pc \in Before, NEW pc \in Pc,
         pc \in Steady => task[e].pc \in Steady,
         pc \in {"synth", "synthesizing", "finishing"} =>
           task[e].pc \in {"synth", "synthesizing", "finishing"},
         pc \in {"failing", "cancelling", "returned"} => task[e].run.status # "absent",
         swept' \in {swept, "other"}
  PROVE  Fits(At(e, pc), swept', strayed')
<1>1. /\ Fits(task[e], swept, strayed) /\ task[e] \in Local /\ Sound(task[e].base, swept)
      /\ task[e].calls = {} /\ task[e].todo = {} /\ task[e].base.status # "absent"
      /\ task[e].reason # "none" => swept # "nothing"
  BY Now, AtRest
<1>2. Sound(task[e].base, swept')
  BY <1>1 DEF Sound
<1> QED BY <1>1, <1>2, AtIs, Relocated

LEMMA ClaimKeeps ==
  ASSUME RunInv, NEW e \in Task, Claim(e)
  PROVE  RunInv'
<1>1. task[e].pc \in Before /\ task[e].pc = "claiming"
  BY DEF Claim, Before
<1>2. /\ task[e].calls = {} /\ Alive(task[e].at) /\ task[e].pc # "idle" /\ task[e].pc # "done"
      /\ Busy(task[e]) /\ task[e] \in Local
  BY <1>1, AtRest, Now
<1>3. Frame(task[e].at)
  BY DEF Claim, Frame, history, RunInv, GlobalTypes
<1>4. CASE MayAcquire(task[e].at) /\ lease' = Held(task[e].at) /\ Became(e, "rerunning")
  <2> PICK q : q = At(e, "rerunning")
    OBVIOUS
  <2>1. "rerunning" \in Pc /\ "rerunning" \notin Steady
        /\ "rerunning" \notin {"synth", "synthesizing", "finishing", "failing", "cancelling", "returned"}
    BY DEF Pc, Steady
  <2>2. Fits(q, swept', strayed')
    BY <1>1, <1>3, <2>1, Forward DEF Frame
  <2>3. q.pc = "rerunning" /\ q.at = task[e].at /\ Busy(q)
    BY <1>2, <2>1, AtIs DEF Busy
  <2>4. task' = [task EXCEPT ![e] = q]
    BY <1>4 DEF Became, At
  <2>5. Leading(q)'
    BY <1>4, <2>1, <2>3 DEF Leading
  <2>6. Writes(task[e].at)
    BY <1>4 DEF Writes, Claim
  <2> QED BY <1>2, <1>3, <2>2, <2>3, <2>4, <2>5, <2>6, StepKeeps DEF Frame
<1>5. CASE UNCHANGED lease /\ Ends(e)
  <2>1. task' = [task EXCEPT ![e] = Over] /\ UNCHANGED <<row, lease>>
    BY <1>2, <1>5 DEF Ends, Ended, Claim
  <2> QED BY <1>2, <1>3, <2>1, RestFits, OverIs, MoveKeeps
<1> QED BY <1>4, <1>5 DEF Claim

LEMMA RerunKeeps ==
  ASSUME RunInv, NEW e \in Task, Rerun(e)
  PROVE  RunInv'
<1>1. task[e].pc \in Before /\ task[e].pc = "rerunning"
  BY DEF Rerun, Before
<1>2. /\ task[e].calls = {} /\ Alive(task[e].at) /\ task[e].pc # "idle" /\ task[e].pc # "done"
      /\ Busy(task[e]) /\ task[e] \in Local
  BY <1>1, AtRest, Now
<1>3. Frame(task[e].at) /\ UNCHANGED <<row, lease>>
  BY DEF Rerun, Frame, history, RunInv, GlobalTypes
<1>4. CASE Became(e, "start")
  <2> DEFINE q == At(e, "start")
  <2>1. "start" \in Pc /\ "start" \notin Steady
        /\ "start" \notin {"synth", "synthesizing", "finishing", "failing", "cancelling", "returned"}
    BY DEF Pc, Steady
  <2>2. Fits(q, swept', strayed')
    BY <1>1, <1>3, <2>1, Forward DEF Frame
  <2>3. q.pc = "start" /\ q.at = task[e].at /\ Busy(q)
    BY <1>2, <2>1, AtIs DEF Busy
  <2>4. task' = [task EXCEPT ![e] = q]
    BY <1>4 DEF Became, At
  <2>5. task[e].pc \in Owning
    BY <1>1 DEF Owning
  <2> HIDE DEF q
  <2> QED BY <1>2, <1>3, <2>1, <2>2, <2>3, <2>4, <2>5, MoveKeeps
<1>5. CASE Ends(e)
  <2>1. task' = [task EXCEPT ![e] = Over]
    BY <1>2, <1>5 DEF Ends, Ended
  <2> QED BY <1>2, <1>3, <2>1, RestFits, OverIs, MoveKeeps
<1> QED BY <1>4, <1>5 DEF Rerun

LEMMA RestartSaveKeeps ==
  ASSUME RunInv, NEW e \in Task, RestartSave(e)
  PROVE  RunInv'
<1>1. task[e].pc \in Before /\ task[e].pc = "restarting"
  BY DEF RestartSave, Before
<1>2. /\ Alive(task[e].at) /\ task[e].pc # "idle" /\ task[e].pc # "done" /\ Busy(task[e])
      /\ task[e] \in Local /\ task[e].base \in Run /\ task[e].base.status # "absent"
      /\ Sound(task[e].base, swept)
  BY <1>1, AtRest, Now
<1>3. Frame(task[e].at) /\ swept' = swept /\ Sound(task[e].base, swept')
  BY <1>2 DEF RestartSave, Frame, history, RunInv, GlobalTypes
<1> DEFINE q == At(e, "resuming")
<1>4. "resuming" \in Pc /\ "resuming" \notin Owning /\ "resuming" \notin Steady
      /\ "resuming" \notin {"synth", "synthesizing", "finishing", "failing", "cancelling", "returned"}
  BY DEF Pc, Steady, Owning
<1>5. Fits(q, swept', strayed')
  BY <1>1, <1>3, <1>4, Forward DEF Frame
<1>6. q.pc = "resuming" /\ q.at = task[e].at /\ q.pc # "idle"
  BY <1>2, <1>4, AtIs
<1>7. SaveThen(e, task[e].base, q, Over)
  BY DEF RestartSave
<1> HIDE DEF q
<1> QED BY <1>2, <1>3, <1>4, <1>5, <1>6, <1>7, RestFits, OverIs, SaveKeeps

LEMMA RestartResumeKeeps ==
  ASSUME RunInv, NEW e \in Task, RestartResume(e)
  PROVE  RunInv'
<1>1. task[e].pc \in Before /\ task[e].pc = "resuming"
  BY DEF RestartResume, Before
<1>2. /\ Alive(task[e].at) /\ task[e].pc # "idle" /\ task[e].pc # "done" /\ Busy(task[e])
      /\ task[e] \in Local /\ row \in Run /\ row.status # "absent" /\ Sound(row, swept)
      /\ Fits(task[e], swept, strayed) /\ task[e].calls = {} /\ task[e].todo = {}
      /\ task[e].reason # "none" => swept # "nothing"
  BY <1>1, AtRest, Now
<1>3. Frame(task[e].at) /\ swept' = swept /\ UNCHANGED <<row, lease>>
  BY DEF RestartResume, Frame, history, RunInv, GlobalTypes
<1> DEFINE q == [task[e] EXCEPT !.pc = "claiming", !.base = row]
<1>4. /\ q \in Local /\ q.pc = "claiming" /\ q.at = task[e].at /\ q.base = row
      /\ q.run = task[e].run /\ q.todo = task[e].todo /\ q.calls = task[e].calls
      /\ q.lanes = task[e].lanes /\ q.reason = task[e].reason
  BY <1>2 DEF Local, Pc
<1>5. task' = [task EXCEPT ![e] = q]
  BY DEF RestartResume
<1>6. "claiming" \notin Owning /\ "claiming" \notin Steady
      /\ "claiming" \notin {"synth", "synthesizing", "finishing", "failing", "cancelling", "returned"}
  BY DEF Steady, Owning
<1> HIDE DEF q
<1>7. Fits(q, swept', strayed')
  BY <1>2, <1>3, <1>4, <1>6, Relocated
<1> QED BY <1>2, <1>3, <1>4, <1>5, <1>6, <1>7, MoveKeeps

LEMMA GateRest ==
  ASSUME RunInv, NEW e \in Task, AtGate(e)
  PROVE  /\ task[e].pc \in Before /\ task[e].pc \in Owning /\ Busy(task[e])
         /\ task[e].pc \in Steady <=> task[e].pc # "start"
         /\ task[e].pc # "start" => task[e].run.status = "running"
         /\ Thrown(e) \in {"rejecting", "failing"} /\ Thrown(e) \in Pc /\ Thrown(e) \notin Owning
         /\ Thrown(e) \notin Steady
         /\ Thrown(e) = "failing" => task[e].run.status # "absent"
<1>1. task[e].pc \in {"start", "level", "synth"}
  BY DEF AtGate
<1>2. task[e].pc \in Before /\ task[e].pc \in Owning /\ (task[e].pc \in Steady <=> task[e].pc # "start")
  BY <1>1 DEF Before, Owning, Steady
<1>3. Busy(task[e]) /\ (task[e].pc # "start" => task[e].run.status = "running")
  BY <1>2, AtRest
<1>4. Thrown(e) \in {"rejecting", "failing"} /\ Thrown(e) \in Pc /\ Thrown(e) \notin Owning
      /\ Thrown(e) \notin Steady
  BY DEF Thrown, Pc, Owning, Steady
<1>5. Thrown(e) = "failing" => task[e].run.status # "absent"
  BY <1>3 DEF Thrown
<1> QED BY <1>2, <1>3, <1>4, <1>5

LEMMA GateHaltKeeps ==
  ASSUME RunInv, NEW e \in Task, GateHalt(e)
  PROVE  RunInv'
<1> DEFINE t == task[e]
           q == [Throw(e) EXCEPT !.reason = IF @ = "none" THEN "stopped" ELSE @]
<1>1. /\ AtGate(e) /\ t.pc \in Before /\ Busy(t) /\ Thrown(e) \in {"rejecting", "failing"}
      /\ Thrown(e) \in Pc /\ Thrown(e) \notin Owning /\ Thrown(e) \notin Steady
      /\ Thrown(e) = "failing" => t.run.status # "absent"
  BY GateRest DEF GateHalt
<1>2. /\ Alive(t.at) /\ t.pc # "idle" /\ t.pc # "done" /\ t \in Local
      /\ t.calls = {} /\ t.todo = {} /\ t.base.status # "absent"
      /\ t.reason # "none" => swept # "nothing"
      /\ Fits(t, swept, strayed) /\ Sound(t.base, swept)
  BY <1>1, AtRest, Now
<1>3. Frame(t.at) /\ UNCHANGED <<row, lease>> /\ swept' = IF t.reason = "none" THEN "other" ELSE swept
  BY DEF GateHalt, Frame, RunInv, GlobalTypes
<1>4. /\ q \in Local /\ q.pc = Thrown(e) /\ q.at = t.at /\ q.base = t.base /\ q.run = t.run
      /\ q.todo = t.todo /\ q.calls = t.calls /\ q.lanes = t.lanes
      /\ q.reason = IF t.reason = "none" THEN "stopped" ELSE t.reason
  BY <1>1, <1>2 DEF Throw, Local, Reason
<1>5. task' = [task EXCEPT ![e] = q]
  BY DEF GateHalt
<1> HIDE DEF q
<1>6. Sound(q.base, swept')
  BY <1>2, <1>3, <1>4 DEF Sound
<1>7. Fits(q, swept', strayed')
  BY <1>1, <1>2, <1>3, <1>4, <1>6, Relocated DEF Steady
<1>8. Busy(q) /\ q.pc # "idle"
  BY <1>1, <1>4 DEF Busy
<1> QED BY <1>1, <1>2, <1>3, <1>4, <1>5, <1>7, <1>8, MoveKeeps

\* What the gate saves, and the record with its status.
LEMMA GatedIs ==
  ASSUME RunInv, NEW e \in Task, AtGate(e), NEW status \in {"running", "paused"}
  PROVE  LET r == [Gated(e) EXCEPT !.status = status]
             q == Status(e, status)
         IN /\ r \in Run /\ r.status = status /\ Sound(r, swept)
            /\ task[e].pc # "start" => r.steps = task[e].run.steps
            /\ q \in Local /\ q.pc = task[e].pc /\ q.at = task[e].at /\ q.run = task[e].run
            /\ q.todo = task[e].todo /\ q.calls = task[e].calls /\ q.lanes = task[e].lanes
            /\ q.reason = task[e].reason /\ q.asleep = task[e].asleep /\ q.origin = task[e].origin
            /\ q.base \in Run /\ q.base.status # "absent" /\ Sound(q.base, swept)
<1> DEFINE t == task[e]
           r == [Gated(e) EXCEPT !.status = status]
           q == Status(e, status)
<1>1. /\ t \in Local /\ t.base \in Run /\ t.run \in Run /\ Sound(t.base, swept) /\ Sound(t.run, swept)
      /\ t.base.status # "absent"
  BY Now, GateRest
<1>2. status \in RunStatus
  BY DEF RunStatus, InFlight
<1>3. ASSUME NEW b \in Run, Sound(b, swept), NEW c, c = [b EXCEPT !.status = status]
      PROVE  c \in Run /\ c.status = status /\ Sound(c, swept) /\ c.steps = b.steps
  <2>1. c \in Run /\ c.status = status /\ c.steps = b.steps
    BY <1>2, <1>3 DEF Run
  <2>2. Sound(c, swept)
    BY <1>3, <2>1, SoundKept
  <2> QED BY <2>1, <2>2
<1>4. CASE t.pc = "start"
  <2>1. r = [t.base EXCEPT !.status = status]
    BY <1>4 DEF Gated
  <2>2. r \in Run /\ r.status = status /\ Sound(r, swept)
    BY <1>1, <1>3, <2>1
  <2>3. q = [t EXCEPT !.base = r]
    BY <1>1, <1>4, <2>1 DEF Status, Local
  <2>4. /\ q \in Local /\ q.pc = t.pc /\ q.at = t.at /\ q.run = t.run
        /\ q.todo = t.todo /\ q.calls = t.calls /\ q.lanes = t.lanes
        /\ q.reason = t.reason /\ q.asleep = t.asleep /\ q.origin = t.origin /\ q.base = r
    <3> HIDE DEF r
    <3> QED BY <1>1, <2>2, <2>3 DEF Local
  <2> HIDE DEF q, r
  <2>5. status # "absent"
    OBVIOUS
  <2>6. q.base \in Run /\ q.base.status # "absent" /\ Sound(q.base, swept)
    BY <2>2, <2>4, <2>5
  <2> QED BY <1>4, <2>2, <2>4, <2>6 DEF q, r
<1>5. CASE t.pc # "start"
  <2>1. r = [t.run EXCEPT !.status = status]
    BY <1>1, <1>5 DEF Gated, Run
  <2>2. r \in Run /\ r.status = status /\ Sound(r, swept) /\ r.steps = t.run.steps
    BY <1>1, <1>3, <2>1
  <2>3. q = t
    BY <1>5 DEF Status
  <2> HIDE DEF q, r
  <2> QED BY <1>1, <2>2, <2>3 DEF q, r
<1> QED BY <1>4, <1>5

LEMMA GatePauseKeeps ==
  ASSUME RunInv, NEW e \in Task, GatePause(e)
  PROVE  RunInv'
<1> DEFINE t == task[e]
<1>1. /\ AtGate(e) /\ t.pc \in Before /\ t.pc \in Owning /\ Busy(t)
      /\ t.pc \in Steady <=> t.pc # "start"
      /\ Thrown(e) \in {"rejecting", "failing"} /\ Thrown(e) \in Pc /\ Thrown(e) \notin Owning
      /\ Thrown(e) \notin Steady
      /\ Thrown(e) = "failing" => t.run.status # "absent"
  BY GateRest DEF GatePause
<1>2. /\ Alive(t.at) /\ t.pc # "idle" /\ t.pc # "done" /\ t \in Local
      /\ t.calls = {} /\ t.todo = {} /\ t.base.status # "absent"
      /\ t.reason # "none" => swept # "nothing"
      /\ Fits(t, swept, strayed) /\ Sound(t.base, swept) /\ t.run.steps \in Steps
  BY <1>1, AtRest, Now
<1>3. Frame(t.at) /\ swept' = swept /\ strayed' = strayed
  BY DEF GatePause, Frame, history, RunInv, GlobalTypes
<1>4. \A st : Mirrors(st, st)
  BY DEF Mirrors
<1>5. CASE task' = [task EXCEPT ![e].asleep = TRUE] /\ UNCHANGED <<row, lease>>
  <2> DEFINE q == [t EXCEPT !.asleep = TRUE]
  <2>1. /\ q \in Local /\ q.pc = t.pc /\ q.at = t.at /\ q.base = t.base /\ q.run = t.run
        /\ q.todo = t.todo /\ q.calls = t.calls /\ q.lanes = t.lanes /\ q.reason = t.reason
    BY <1>2 DEF Local
  <2>2. task' = [task EXCEPT ![e] = q]
    BY <1>5
  <2> HIDE DEF q
  <2>3. Fits(q, swept', strayed')
    BY <1>1, <1>2, <1>3, <2>1, Relocated DEF Before
  <2>4. Busy(q)
    BY <1>1, <2>1 DEF Busy
  <2> QED BY <1>1, <1>2, <1>3, <1>4, <1>5, <2>1, <2>2, <2>3, <2>4, MoveKeeps
<1>6. CASE SaveThen(e, [Gated(e) EXCEPT !.status = "paused"],
                   [Status(e, "paused") EXCEPT !.asleep = TRUE],
                   [Status(e, "paused") EXCEPT !.pc = Thrown(e)])
  <2> DEFINE r == [Gated(e) EXCEPT !.status = "paused"]
             b == Status(e, "paused")
             q == [b EXCEPT !.asleep = TRUE]
             x == [b EXCEPT !.pc = Thrown(e)]
  <2>1. /\ r \in Run /\ r.status = "paused" /\ Sound(r, swept)
        /\ t.pc # "start" => r.steps = t.run.steps
        /\ b \in Local /\ b.pc = t.pc /\ b.at = t.at /\ b.run = t.run
        /\ b.todo = t.todo /\ b.calls = t.calls /\ b.lanes = t.lanes /\ b.reason = t.reason
        /\ b.base.status # "absent" /\ Sound(b.base, swept)
    BY <1>1, GatedIs
  <2> HIDE DEF r, b
  <2>2. /\ q \in Local /\ q.pc = t.pc /\ q.at = t.at /\ q.base = b.base /\ q.run = t.run
        /\ q.todo = t.todo /\ q.calls = t.calls /\ q.lanes = t.lanes /\ q.reason = t.reason
    BY <2>1 DEF Local
  <2>3. /\ x \in Local /\ x.pc = Thrown(e) /\ x.at = t.at /\ x.base = b.base /\ x.run = t.run
        /\ x.todo = t.todo /\ x.calls = t.calls /\ x.lanes = t.lanes /\ x.reason = t.reason
    BY <1>1, <2>1 DEF Local
  <2>4. SaveThen(e, r, q, x)
    BY <1>6 DEF r, b
  <2> HIDE DEF q, x
  <2>5. Fits(q, swept', strayed')
    BY <1>1, <1>2, <1>3, <2>1, <2>2, Relocated DEF Before
  <2>6. Fits(x, swept', strayed')
    BY <1>1, <1>2, <1>3, <2>1, <2>3, Relocated
  <2>7. Busy(q) /\ Busy(x) /\ x.pc # "idle"
    BY <1>1, <2>2, <2>3 DEF Busy
  <2>8. q.pc \in Steady => Mirrors(r.steps, q.run.steps)
    BY <1>1, <1>4, <2>1, <2>2
  <2> QED BY <1>1, <1>2, <1>3, <2>1, <2>2, <2>3, <2>4, <2>5, <2>6, <2>7, <2>8, SaveKeeps
<1> QED BY <1>5, <1>6 DEF GatePause

\* An open gate before a level.
LEMMA LevelIs ==
  ASSUME RunInv, NEW e \in Task, task[e].pc = "level"
  PROVE  LET q == Level(e) IN
         /\ Fits(q, swept, strayed) /\ q.at = task[e].at /\ q.pc \in {"working", "failing"}
         /\ Mirrors(task[e].run.steps, q.run.steps)
<1> DEFINE t == task[e]
           old == t.run.steps
           st == CancelBlocked(old)
           ready == Ready(st)
           few == IF Cardinality(ready) < Width THEN Cardinality(ready) ELSE Width
           q == Level(e)
<1>1. t.pc \in Before /\ t.pc \in Steady
  BY DEF Before, Steady
<1>2. /\ t \in Local /\ t.calls = {} /\ t.todo = {} /\ t.base.status # "absent" /\ Busy(t)
      /\ t.reason # "none" => swept # "nothing"
      /\ t.run.status = "running" /\ t.run \in Run /\ old \in Steps
      /\ Fits(t, swept, strayed) /\ Sound(t.base, swept) /\ Sound(t.run, swept)
  BY <1>1, AtRest, Now
<1>3. /\ st \in Steps
      /\ \A s \in Step : st[s] = IF s \in Blocked(old) THEN "cancelled" ELSE old[s]
      /\ \A s \in Blocked(old) : s \in Step /\ old[s] = "pending"
      /\ Topological => \A s \in Ready(st) : \A d \in Needs[s] : Allows(st, d)
      /\ Justified(old) => Justified(st)
  BY <1>2, CancelBlockedIs
<1> HIDE DEF st
<1>4. \A s \in Step : st[s] \in Settled \cup {"pending"}
  <2>1. \A s \in Step : old[s] \in StepStatus /\ old[s] # "interrupted" /\ old[s] # "running"
    BY <1>1, <1>2 DEF Fits, Stepped, Steps
  <2> QED BY <1>3, <2>1 DEF StepStatus, Settled
<1>5. ready # {} \/ Pending(st) = {}
  BY <1>3, <1>4, ReadyExists
<1>6. q = [t EXCEPT !.pc = "working", !.asleep = FALSE, !.run.steps = st, !.todo = ready,
                    !.lanes = few]
  BY <1>5 DEF Level, st
<1>7. ready \in SUBSET Step /\ few \in 0..Width /\ Cardinality(ready) \in Nat
  <2>1. ready \in SUBSET Step
    BY DEF Ready, Pending
  <2> QED BY <2>1, Counts, StepFacts
<1> HIDE DEF ready, few, q
<1>8. /\ q.pc = "working" /\ q.at = t.at /\ q.base = t.base /\ q.calls = t.calls
      /\ q.todo = ready /\ q.lanes = few /\ q.reason = t.reason
      /\ q.run = [t.run EXCEPT !.steps = st]
  BY <1>2, <1>6 DEF Local
<1>9. q.run \in Run /\ q.run.steps = st /\ q.run.status = "running"
  BY <1>2, <1>3, <1>8 DEF Run
<1>10. q \in Local
  <2>1. [t.run EXCEPT !.steps = st] \in Run
    BY <1>8, <1>9
  <2> QED BY <1>2, <1>6, <1>7, <2>1 DEF Local, Pc
<1>11. Typed(q)
  BY <1>2, <1>7, <1>8, <1>10, FS_EmptySet DEF Typed
<1>12. Sound(q.run, swept)
  <2> SUFFICES ASSUME Topological
      PROVE  Met(st) /\ (swept = "nothing" => Justified(st))
    BY <1>9 DEF Sound
  <2>1. swept = "nothing" => Justified(st)
    BY <1>2, <1>3 DEF Sound
  <2>2. ASSUME NEW s \in Step, st[s] \in {"running", "completed"}, NEW d \in Needs[s]
        PROVE  Allows(st, d)
    <3>1. old[s] = st[s] /\ d \in Step
      BY <1>3, <2>2, StepFacts
    <3>2. Allows(old, d)
      BY <1>2, <2>2, <3>1 DEF Sound, Met, Allows
    <3> QED BY <1>3, <3>1, <3>2 DEF Allows, Settled
  <2> QED BY <2>1, <2>2 DEF Met, Allows
<1>13. Placed(q, swept, strayed)
  BY <1>2, <1>8, <1>9 DEF Placed, Busy, Steady, Past
<1>14. Stepped(q)
  <2>1. \A k \in ready : k \in Step /\ st[k] = "pending"
    BY DEF ready, Ready, Pending
  <2> QED BY <1>2, <1>4, <1>8, <1>9, <2>1 DEF Stepped, Settled
<1>15. ASSUME Topological  PROVE Clear(q)
  <2> SUFFICES ASSUME NEW s \in Step, s \in ready \/ st[s] \in {"running", "completed"},
                      NEW d \in Needs[s]
      PROVE  d \notin ready /\ Allows(st, d)
    BY <1>2, <1>8, <1>9 DEF Clear
  <2>1. Allows(st, d)
    <3>1. CASE s \in ready
      BY <1>3, <1>15, <3>1 DEF ready
    <3>2. CASE st[s] \in {"running", "completed"}
      BY <1>12, <1>9, <1>15, <3>2 DEF Sound, Met, Allows
    <3> QED BY <3>1, <3>2
  <2>2. d \notin ready
    BY <2>1 DEF ready, Ready, Pending, Allows, Settled
  <2> QED BY <2>1, <2>2
<1>16. Fits(q, swept, strayed)
  BY <1>2, <1>8, <1>11, <1>12, <1>13, <1>14, <1>15 DEF Fits
<1>17. Mirrors(old, st)
  BY <1>3 DEF Mirrors
<1> QED BY <1>8, <1>9, <1>16, <1>17 DEF q

LEMMA OpenedIs ==
  ASSUME RunInv, NEW e \in Task, AtGate(e), NEW pc \in Beyond(e)
  PROVE  LET q == Opened(e, pc) IN
         /\ Fits(q, swept, strayed) /\ q.at = task[e].at /\ Busy(q) /\ q.pc # "idle"
         /\ q.pc \in Steady => task[e].pc \in Steady /\ Mirrors(task[e].run.steps, q.run.steps)
<1> DEFINE t == task[e]
           q == Opened(e, pc)
<1>1. t.pc \in {"start", "level", "synth"} /\ t.pc \in Before /\ Busy(t)
  BY GateRest DEF AtGate
<1>2. /\ t \in Local /\ t.calls = {} /\ t.todo = {} /\ t.base.status # "absent"
      /\ t.reason # "none" => swept # "nothing"
      /\ t.base \in Run /\ t.run \in Run /\ t.origin \in Origin
      /\ Fits(t, swept, strayed) /\ Sound(t.base, swept) /\ t.run.steps \in Steps
  <2>1. t.origin \in Origin
    BY Now DEF Local
  <2> QED BY <1>1, <2>1, AtRest, Now
<1>3. CASE t.pc = "level"
  <2>1. pc = "working"
    BY <1>3 DEF Beyond
  <2>2. q = Level(e)
    BY <2>1 DEF Opened
  <2>3. Level(e).pc \in {"working", "failing"} => Busy(Level(e)) /\ Level(e).pc # "idle"
    BY DEF Busy
  <2> QED BY <1>3, <2>2, <2>3, LevelIs DEF Steady
<1>4. CASE t.pc # "level"
  <2>1. pc \in {"synthesizing", "routing", "routed"} /\ (pc = "synthesizing" <=> t.pc = "synth")
    BY <1>1, <1>2, <1>4 DEF Beyond, Origin
  <2> DEFINE b == [t.base EXCEPT !.status = IF t.pc = "start" /\ @ \in {"pending", "paused"}
                                            THEN "running" ELSE @]
  <2>2. q = [t EXCEPT !.pc = pc, !.asleep = FALSE, !.base = b]
    BY <1>2, <2>1 DEF Opened, Local
  <2>3. b \in Run /\ b.status # "absent" /\ b.steps = t.base.steps
        /\ (b.status = "completed" => t.base.status = "completed")
    BY <1>2 DEF Run, RunStatus, InFlight
  <2> HIDE DEF b, q
  <2>4. Sound(b, swept)
    BY <1>2, <2>3, SoundKept
  <2>5. /\ q \in Local /\ q.pc = pc /\ q.at = t.at /\ q.base = b /\ q.run = t.run
        /\ q.todo = t.todo /\ q.calls = t.calls /\ q.lanes = t.lanes /\ q.reason = t.reason
    BY <1>2, <2>1, <2>2, <2>3 DEF Local, Pc
  <2>6. Fits(q, swept, strayed)
    BY <1>1, <1>2, <2>1, <2>3, <2>4, <2>5, Relocated DEF Steady
  <2>7. Mirrors(t.run.steps, q.run.steps)
    BY <2>5 DEF Mirrors
  <2>8. Busy(q) /\ q.pc # "idle" /\ (q.pc \in Steady => t.pc \in Steady)
    BY <2>1, <2>5 DEF Busy, Steady
  <2> QED BY <2>5, <2>6, <2>7, <2>8 DEF q
<1> QED BY <1>3, <1>4

LEMMA GateOpenKeeps ==
  ASSUME RunInv, NEW e \in Task, GateOpen(e)
  PROVE  RunInv'
<1> DEFINE t == task[e]
<1>1. /\ AtGate(e) /\ t.pc \in Before /\ t.pc \in Owning /\ Busy(t)
      /\ t.pc \in Steady <=> t.pc # "start"
      /\ Thrown(e) \in {"rejecting", "failing"} /\ Thrown(e) \in Pc /\ Thrown(e) \notin Owning
      /\ Thrown(e) \notin Steady
      /\ Thrown(e) = "failing" => t.run.status # "absent"
  BY GateRest DEF GateOpen
<1>2. /\ Alive(t.at) /\ t.pc # "idle" /\ t.pc # "done" /\ t \in Local
      /\ t.calls = {} /\ t.todo = {} /\ t.base.status # "absent"
      /\ t.reason # "none" => swept # "nothing"
      /\ Fits(t, swept, strayed) /\ Sound(t.base, swept) /\ t.run.steps \in Steps
  BY <1>1, AtRest, Now
<1>3. Frame(t.at) /\ swept' = swept /\ strayed' = strayed
  BY DEF GateOpen, Frame, history, RunInv, GlobalTypes
<1>4. PICK pc \in Beyond(e) :
        \/ SaveThen(e, [Gated(e) EXCEPT !.status = "running"], Opened(e, pc),
                    [Status(e, "running") EXCEPT !.pc = Thrown(e), !.asleep = FALSE])
        \/ task' = [task EXCEPT ![e] = Opened(e, pc)] /\ UNCHANGED <<row, lease>>
  BY DEF GateOpen
<1> DEFINE q == Opened(e, pc)
<1>5. /\ Fits(q, swept', strayed') /\ q.at = t.at /\ Busy(q) /\ q.pc # "idle"
      /\ q.pc \in Steady => t.pc \in Steady /\ Mirrors(t.run.steps, q.run.steps)
  BY <1>1, <1>3, OpenedIs
<1> HIDE DEF q
<1>6. CASE task' = [task EXCEPT ![e] = q] /\ UNCHANGED <<row, lease>>
  BY <1>1, <1>2, <1>3, <1>5, <1>6, MoveKeeps
<1>7. CASE SaveThen(e, [Gated(e) EXCEPT !.status = "running"], q,
                    [Status(e, "running") EXCEPT !.pc = Thrown(e), !.asleep = FALSE])
  <2> DEFINE r == [Gated(e) EXCEPT !.status = "running"]
             b == Status(e, "running")
             x == [b EXCEPT !.pc = Thrown(e), !.asleep = FALSE]
  <2>1. /\ r \in Run /\ r.status = "running" /\ Sound(r, swept)
        /\ t.pc # "start" => r.steps = t.run.steps
        /\ b \in Local /\ b.pc = t.pc /\ b.at = t.at /\ b.run = t.run
        /\ b.todo = t.todo /\ b.calls = t.calls /\ b.lanes = t.lanes /\ b.reason = t.reason
        /\ b.base.status # "absent" /\ Sound(b.base, swept)
    BY <1>1, GatedIs
  <2> HIDE DEF r, b
  <2>2. /\ x \in Local /\ x.pc = Thrown(e) /\ x.at = t.at /\ x.base = b.base /\ x.run = t.run
        /\ x.todo = t.todo /\ x.calls = t.calls /\ x.lanes = t.lanes /\ x.reason = t.reason
    BY <1>1, <2>1 DEF Local
  <2>3. SaveThen(e, r, q, x)
    BY <1>7 DEF r, b
  <2> HIDE DEF x
  <2>4. Fits(x, swept', strayed')
    BY <1>1, <1>2, <1>3, <2>1, <2>2, Relocated
  <2>5. Busy(x) /\ x.pc # "idle"
    BY <1>1, <2>2 DEF Busy
  <2>6. q.pc \in Steady => Mirrors(r.steps, q.run.steps)
    BY <1>1, <1>5, <2>1
  <2> QED BY <1>1, <1>2, <1>3, <1>5, <2>1, <2>2, <2>3, <2>4, <2>5, <2>6, SaveKeeps
<1> QED BY <1>4, <1>6, <1>7 DEF q

LEMMA RoutedKeeps ==
  ASSUME RunInv, NEW e \in Task, Routed(e)
  PROVE  RunInv'
<1>1. task[e].pc \in Before /\ task[e].pc = "routing" /\ task[e].pc \in Owning
  BY DEF Routed, Before, Owning
<1>2. /\ Alive(task[e].at) /\ task[e].pc # "idle" /\ task[e].pc # "done"
      /\ Busy(task[e]) /\ task[e] \in Local
  BY <1>1, AtRest, Now
<1>3. Frame(task[e].at) /\ UNCHANGED <<row, lease>>
  BY DEF Routed, Frame, history, RunInv, GlobalTypes
<1> DEFINE q == At(e, "routed")
<1>4. "routed" \in Pc /\ "routed" \notin Steady
      /\ "routed" \notin {"synth", "synthesizing", "finishing", "failing", "cancelling", "returned"}
  BY DEF Pc, Steady
<1>5. Fits(q, swept', strayed')
  BY <1>1, <1>3, <1>4, Forward DEF Frame
<1>6. q.pc = "routed" /\ q.at = task[e].at /\ Busy(q)
  BY <1>2, <1>4, AtIs DEF Busy
<1>7. task' = [task EXCEPT ![e] = q]
  BY DEF Routed, Became, At
<1> HIDE DEF q
<1> QED BY <1>1, <1>2, <1>3, <1>4, <1>5, <1>6, <1>7, MoveKeeps

LEMMA SaveRoutedKeeps ==
  ASSUME RunInv, NEW e \in Task, SaveRouted(e)
  PROVE  RunInv'
<1>1. task[e].pc \in Before /\ task[e].pc = "routed"
  BY DEF SaveRouted, Before
<1>2. /\ Alive(task[e].at) /\ task[e].pc # "idle" /\ task[e].pc # "done" /\ Busy(task[e])
      /\ task[e] \in Local /\ task[e].base \in Run /\ task[e].base.status # "absent"
      /\ Sound(task[e].base, swept)
  BY <1>1, AtRest, Now
<1>3. Frame(task[e].at) /\ swept' = swept /\ Sound(task[e].base, swept')
  BY <1>2 DEF SaveRouted, Frame, history, RunInv, GlobalTypes
<1> DEFINE q == At(e, "entering")
           x == At(e, "rejecting")
<1>4. \A pc \in {"entering", "rejecting"} : pc \in Pc /\ pc \notin Owning /\ pc \notin Steady
      /\ pc \notin {"synth", "synthesizing", "finishing", "failing", "cancelling", "returned"}
  BY DEF Pc, Steady, Owning
<1>5. Fits(q, swept', strayed') /\ Fits(x, swept', strayed')
  BY <1>1, <1>3, <1>4, Forward DEF Frame
<1>6. /\ q.pc = "entering" /\ q.at = task[e].at /\ q.pc # "idle"
      /\ x.pc = "rejecting" /\ x.at = task[e].at /\ x.pc # "idle"
  BY <1>2, <1>4, AtIs
<1>7. SaveThen(e, task[e].base, q, x)
  BY DEF SaveRouted
<1> HIDE DEF q, x
<1> QED BY <1>2, <1>3, <1>4, <1>5, <1>6, <1>7, SaveKeeps

-----------------------------------------------------------------------------
(* runWorkflow.                                                            *)

LEMMA QuietFits ==
  ASSUME NEW q \in Local, NEW w, NEW straying, q.calls = {}, q.todo = {},
         Sound(q.base, w), Sound(q.run, w), q.reason # "none" => w # "nothing",
         Busy(q) => q.base.status # "absent",
         q.pc \in Steady => q.run.status = "running",
         q.pc \in {"failing", "cancelling", "returned"} => q.run.status # "absent",
         Stepped(q)
  PROVE  Fits(q, w, straying)
<1>1. Typed(q)
  <2>1. Cardinality({}) = 0 /\ q.lanes \in Nat
    BY StepFacts, FS_EmptySet DEF Local
  <2> QED BY <2>1 DEF Typed
<1>2. Placed(q, w, straying)
  BY DEF Placed, Spare
<1>3. Topological => Clear(q)
  BY DEF Sound, Clear, Met, Allows
<1> QED BY <1>1, <1>2, <1>3 DEF Fits

LEMMA EnterKeeps ==
  ASSUME RunInv, NEW e \in Task, Enter(e)
  PROVE  RunInv'
<1> DEFINE t == task[e]
           st == Reset(t.base.steps)
           started == [status |-> "running", steps |-> st]
           q == [At(e, LoopPc(st)) EXCEPT !.run = started]
           x == At(e, "rejecting")
<1>1. t.pc \in Before /\ t.pc = "entering"
  BY DEF Enter, Before
<1>2. /\ Alive(t.at) /\ t.pc # "idle" /\ t.pc # "done" /\ Busy(t)
      /\ t \in Local /\ t.base \in Run /\ t.base.status # "absent" /\ t.base.steps \in Steps
      /\ Sound(t.base, swept) /\ t.calls = {} /\ t.todo = {}
      /\ t.reason # "none" => swept # "nothing"
  BY <1>1, AtRest, Now
<1>3. Frame(t.at) /\ swept' = swept
  BY <1>2 DEF Enter, Frame, history, RunInv, GlobalTypes
<1>4. /\ st \in Steps
      /\ \A s \in Step : st[s] = IF t.base.steps[s] \in {"running", "interrupted"} THEN "pending"
                                 ELSE t.base.steps[s]
  BY <1>2, ResetIs
<1>5. LoopPc(st) \in {"level", "synth", "finishing"}
      /\ (LoopPc(st) # "level" => Pending(st) = {})
  BY DEF LoopPc
<1> HIDE DEF st
<1>6. started \in Run /\ started.status = "running" /\ started.steps = st
  BY <1>4 DEF Run, RunStatus, InFlight
<1> HIDE DEF started
<1>7. Sound(started, swept)
  <2>1. ASSUME NEW s \in Step
        PROVE  \/ started.steps[s] = t.base.steps[s]
               \/ /\ t.base.steps[s] \notin Settled
                  /\ started.steps[s] \notin {"running", "completed"}
    BY <1>4, <1>6 DEF Settled
  <2>2. \A s \in Step : started.steps[s] = "cancelled" => t.base.steps[s] = "cancelled"
    BY <1>4, <1>6
  <2> QED BY <1>2, <1>6, <2>1, <2>2, SoundKept
<1>8. LoopPc(st) \in Pc /\ LoopPc(st) \in Steady /\ "rejecting" \in Pc
      /\ "rejecting" \notin Steady /\ "rejecting" \notin Owning
  BY <1>5 DEF Pc, Steady, Owning
<1>9. /\ q \in Local /\ q.pc = LoopPc(st) /\ q.at = t.at /\ q.base = t.base /\ q.run = started
      /\ q.todo = {} /\ q.calls = {} /\ q.reason = t.reason
  <2> DEFINE a == At(e, LoopPc(st))
  <2>1. /\ a \in Local /\ a.pc = LoopPc(st) /\ a.at = t.at /\ a.base = t.base
        /\ a.todo = {} /\ a.calls = {} /\ a.reason = t.reason
    BY <1>2, <1>8, AtIs
  <2> HIDE DEF a
  <2>2. q = [a EXCEPT !.run = started]
    BY DEF a
  <2> QED BY <1>6, <2>1, <2>2 DEF Local
<1>10. Fits(x, swept', strayed')
  BY <1>1, <1>3, <1>8, Forward DEF Frame
<1>11. x.pc = "rejecting" /\ x.at = t.at
  BY <1>2, <1>8, AtIs
<1>12. SaveThen(e, started, q, x)
  BY DEF Enter, st, started
<1> HIDE DEF q, x
<1>13. Stepped(q)
  <2>1. \A k \in Step : st[k] # "interrupted" /\ st[k] # "running"
    BY <1>4
  <2> QED BY <1>5, <1>6, <1>9, <2>1 DEF Stepped
<1>14. Fits(q, swept', strayed')
  BY <1>2, <1>3, <1>5, <1>6, <1>7, <1>9, <1>13, QuietFits
<1>15. Mirrors(started.steps, q.run.steps)
  BY <1>9 DEF Mirrors
<1>16. q.pc # "idle" /\ x.pc # "idle"
  BY <1>5, <1>9, <1>11
<1> QED
  BY <1>2, <1>3, <1>6, <1>7, <1>8, <1>9, <1>10, <1>11, <1>12, <1>14, <1>15, <1>16, SaveKeeps

\* A lane starts a step, or is done with it: one step of the copy changes, to x.
LEMMA LaneFits ==
  ASSUME NEW q \in Local, NEW q2 \in Local, NEW w, NEW straying, Fits(q, w, straying),
         NEW s \in Step, s \in q.calls \/ (s \in q.todo /\ Spare(q)),
         NEW x \in {"running", "completed", "failed", "cancelled"},
         x = "cancelled" => w # "nothing",
         q2.run = [q.run EXCEPT !.steps[s] = x], q2.base = q.base, q2.reason = q.reason,
         q2.at = q.at,
         q2.todo \subseteq q.todo, q2.calls \subseteq q.calls \cup {s},
         q.calls \ {s} \subseteq q2.calls,
         q2.pc \in {"working", "failing"} => s \notin q2.todo /\ (s \in q2.calls => x = "running"),
         x = "running" /\ s \notin q2.calls => q2.pc # "working",
         Cardinality(q2.calls) <= q2.lanes,
         q2.pc = q.pc \/ (q.pc = "working" /\ q2.pc = "failing")
  PROVE  /\ Fits(q2, w, straying) /\ Sound(q2.run, w) /\ q2.run.status \notin {"absent", "completed"}
         /\ q2.run \in Run
<1>1. /\ q.run \in Run /\ q.run.steps \in Steps
      /\ Sound(q.base, w) /\ Sound(q.run, w) /\ Placed(q, w, straying) /\ Stepped(q)
      /\ Topological => Clear(q)
      /\ s \in q.todo \cup q.calls
  BY DEF Fits, Local, Run
<1>2. /\ q2.run \in Run /\ q2.run.status = q.run.status
      /\ \A k \in Step : q2.run.steps[k] = IF k = s THEN x ELSE q.run.steps[k]
  BY <1>1 DEF Run, Steps, StepStatus, Local
<1>3. q.pc \in {"working", "failing"} \cup Past /\ q.run.status \notin {"absent", "completed"}
      /\ (q.pc \in Past => q.at \in straying /\ w # "nothing")
  BY <1>1 DEF Placed, Spare
<1>4. q.pc \in {"working", "failing"} =>
        /\ s \in q.calls => q.run.steps[s] = "running"
        /\ s \in q.todo => q.run.steps[s] = "pending"
        /\ q.todo \cap q.calls = {}
  BY <1>1 DEF Stepped
<1>5. ASSUME Topological  PROVE Clear(q2)
  <2> SUFFICES ASSUME NEW t \in Step,
                      t \in q2.todo \cup q2.calls \/ q2.run.steps[t] \in {"running", "completed"},
                      NEW d \in Needs[t]
      PROVE  d \notin q2.todo \cup q2.calls /\ Allows(q2.run.steps, d)
    BY DEF Clear
  <2>1. t \in q.todo \cup q.calls \/ q.run.steps[t] \in {"running", "completed"}
    BY <1>1, <1>2
  <2>2. d \notin q.todo \cup q.calls /\ Allows(q.run.steps, d) /\ d \in Step
    BY <1>1, <1>5, <2>1, StepFacts DEF Clear
  <2>3. d # s /\ d \notin q2.todo \cup q2.calls
    BY <1>1, <2>2
  <2> QED BY <1>2, <2>2, <2>3 DEF Allows
<1>6. Sound(q2.run, w)
  <2> SUFFICES ASSUME Topological
      PROVE  /\ Met(q2.run.steps)
             /\ w = "nothing" => Justified(q2.run.steps)
    BY <1>2, <1>3 DEF Sound
  <2>1. Met(q2.run.steps)
    BY <1>5 DEF Clear, Met, Allows
  <2>2. ASSUME w = "nothing", NEW c \in Step, q2.run.steps[c] = "cancelled"
        PROVE  \E d \in Needs[c] : Blocking(q2.run.steps, d)
    <3>1. c # s /\ q.run.steps[c] = "cancelled"
      BY <1>2, <2>2
    <3>2. PICK d \in Needs[c] : Blocking(q.run.steps, d)
      BY <1>1, <2>2, <3>1 DEF Sound, Justified
    <3>3. d # s
      BY <1>1, <1>3, <1>4, <2>2, <3>2 DEF Blocking
    <3> QED BY <1>2, <3>2, <3>3, StepFacts DEF Blocking
  <2> QED BY <2>1, <2>2 DEF Justified
<1>7. Placed(q2, w, straying)
  BY <1>1, <1>2, <1>3 DEF Placed, Busy, Past, Steady
<1>8. Stepped(q2)
  <2>1. ASSUME q2.pc \in Steady, NEW k \in Step
        PROVE  /\ q2.run.steps[k] # "interrupted"
               /\ q2.run.steps[k] = "running" => k \in q2.calls
    <3>1. q.pc \in Steady /\ q2.pc = "working"
      BY <1>3, <2>1 DEF Steady, Past
    <3>2. CASE k = s
      BY <1>2, <3>1, <3>2
    <3>3. CASE k # s
      BY <1>1, <1>2, <3>1, <3>3 DEF Stepped
    <3> QED BY <3>2, <3>3
  <2>2. q2.pc \notin {"synth", "synthesizing", "finishing"}
    BY <1>3 DEF Past
  <2>3. ASSUME q2.pc \in {"working", "failing"}
        PROVE  /\ \A k \in q2.todo : q2.run.steps[k] = "pending"
               /\ \A k \in q2.calls : q2.run.steps[k] = "running"
    <3>1. q.pc \in {"working", "failing"}
      BY <2>3
    <3>2. q2.todo \subseteq Step /\ q2.calls \subseteq Step
      BY DEF Local
    <3> QED BY <1>1, <1>2, <3>1, <3>2 DEF Stepped
  <2> QED BY <2>1, <2>2, <2>3 DEF Stepped
<1>9. Typed(q2) /\ Sound(q2.base, w)
  BY <1>1 DEF Typed
<1> QED BY <1>2, <1>3, <1>5, <1>6, <1>7, <1>8, <1>9 DEF Fits

LEMMA TakeKeeps ==
  ASSUME RunInv, NEW e \in Task, Alive(task[e].at), Take(e)
  PROVE  RunInv'
<1> DEFINE t == task[e]
<1>1. PICK s \in t.todo, seated \in BOOLEAN :
        LET status == IF t.reason # "none" /\ seated THEN "cancelled" ELSE "running"
            run == [t.run EXCEPT !.steps[s] = status]
            todo == t.todo \ {s}
        IN SaveThen(e, run,
             IF ~seated THEN [LaneDies(e) EXCEPT !.run = run, !.todo = todo]
             ELSE [t EXCEPT !.run = run, !.todo = todo,
                     !.calls = IF status = "running" THEN @ \cup {s} ELSE @],
             [LaneDies(e) EXCEPT !.run = run, !.todo = todo])
  BY DEF Take
<1> DEFINE status == IF t.reason # "none" /\ seated THEN "cancelled" ELSE "running"
           run == [t.run EXCEPT !.steps[s] = status]
           todo == t.todo \ {s}
           q == [t EXCEPT !.run = run, !.todo = todo,
                   !.calls = IF status = "running" THEN @ \cup {s} ELSE @]
           x == [LaneDies(e) EXCEPT !.run = run, !.todo = todo]
           saved == IF ~seated THEN x ELSE q
<1>2. SaveThen(e, run, saved, x)
  BY <1>1
<1>3. /\ Fits(t, swept, strayed) /\ t \in Local /\ t.calls \in SUBSET Step /\ t.run \in Run
      /\ s \in Step /\ t.run.steps \in Steps
      /\ Placed(t, swept, strayed) /\ t.lanes \in 0..Width
  BY Now DEF Fits, Local
<1>4. Spare(t)
  BY DEF Take, LaneFree, Spare
<1>5. Frame(t.at) /\ swept' = swept /\ strayed' = strayed
  BY DEF Take, Frame, history, RunInv, GlobalTypes
<1>6. /\ t.pc # "idle" /\ (t.pc = "done" => t.at \in strayed)
      /\ t.pc \in {"working", "failing"} \cup Past
      /\ t.reason # "none" => swept # "nothing"
      /\ t.pc \in Steady => t.run.status = "running"
  BY <1>3, <1>4 DEF Placed, Spare, Past
<1>7. status \in {"running", "cancelled"} /\ (status = "cancelled" => swept # "nothing" /\ seated)
  BY <1>6
<1> HIDE DEF status
<1>8. run \in Run /\ run.status = t.run.status
  BY <1>3, <1>7 DEF Run, Steps, StepStatus
<1>9. /\ Cardinality(t.calls) \in Nat /\ Cardinality(t.calls) < t.lanes /\ t.lanes \in Nat
      /\ t.lanes - 1 \in 0..Width /\ Cardinality(t.calls) <= t.lanes - 1
      /\ Cardinality(t.calls \cup {s}) \in Nat
      /\ Cardinality(t.calls \cup {s}) <= Cardinality(t.calls) + 1
  <2>1. t.calls \cup {s} \in SUBSET Step
    BY <1>3
  <2>2. Cardinality(t.calls) \in Nat /\ Cardinality(t.calls \cup {s}) \in Nat
        /\ Cardinality(t.calls \cup {s}) <= Cardinality(t.calls) + 1
    BY <1>3, <2>1, Counts
  <2>3. Cardinality(t.calls) < t.lanes
    BY <1>4 DEF Spare
  <2> QED BY <1>3, <2>2, <2>3, StepFacts
<1> DEFINE calls == IF status = "running" THEN t.calls \cup {s} ELSE t.calls
           pc == IF t.pc = "working" THEN "failing" ELSE t.pc
<1>10. calls \in SUBSET Step /\ todo \in SUBSET Step /\ pc \in Pc
  <2>1. t.pc \in Pc /\ t.todo \in SUBSET Step
    BY <1>3 DEF Local
  <2> QED BY <1>3, <2>1 DEF Pc
<1>11. /\ q \in Local /\ q.pc = t.pc /\ q.at = t.at /\ q.base = t.base /\ q.run = run
       /\ q.todo = todo /\ q.calls = calls /\ q.lanes = t.lanes /\ q.reason = t.reason
  <2> HIDE DEF run, todo, pc
  <2>1. q = [t EXCEPT !.run = run, !.todo = todo, !.calls = calls]
    BY <1>3 DEF Local
  <2> HIDE DEF calls, q
  <2> QED BY <1>3, <1>8, <1>10, <2>1 DEF Local
<1>12. /\ x \in Local /\ x.pc = pc /\ x.at = t.at /\ x.base = t.base /\ x.run = run
       /\ x.todo = todo /\ x.calls = t.calls /\ x.lanes = t.lanes - 1 /\ x.reason = t.reason
  <2> HIDE DEF run, todo, q, calls
  <2>1. x = [t EXCEPT !.lanes = t.lanes - 1, !.pc = pc, !.run = run, !.todo = todo]
    BY <1>3 DEF LaneDies, Local
  <2> HIDE DEF pc, x
  <2> QED BY <1>3, <1>8, <1>9, <1>10, <2>1 DEF Local
<1> HIDE DEF q, x
<1>13. /\ Fits(x, swept, strayed) /\ Sound(run, swept) /\ run.status \notin {"absent", "completed"}
  <2> HIDE DEF saved
  <2>1. x.run = [t.run EXCEPT !.steps[s] = status]
    BY <1>12
  <2>2. /\ x.pc = t.pc \/ (t.pc = "working" /\ x.pc = "failing")
        /\ x.pc # "working" /\ Cardinality(x.calls) <= x.lanes
        /\ x.todo \subseteq t.todo \ {s} /\ x.calls \subseteq t.calls \cup {s}
        /\ t.calls \ {s} \subseteq x.calls
    BY <1>9, <1>12
  <2>3. x.pc \in {"working", "failing"} => s \notin x.todo /\ s \notin x.calls
    BY <1>3, <1>6, <1>12 DEF Fits, Stepped
  <2> HIDE DEF run
  <2>4. Fits(x, swept, strayed)
    BY <1>3, <1>4, <1>7, <1>12, <2>1, <2>2, <2>3, LaneFits
  <2>5. Sound(run, swept)
    BY <1>12, <2>4 DEF Fits
  <2>6. run.status \notin {"absent", "completed"}
    BY <1>3, <1>8 DEF Placed
  <2> QED BY <2>4, <2>5, <2>6
<1>14. seated => Fits(q, swept, strayed)
  <2>1. q.run = [t.run EXCEPT !.steps[s] = status]
    BY <1>11
  <2>2. /\ Cardinality(q.calls) <= q.lanes
        /\ q.todo \subseteq t.todo /\ q.calls \subseteq t.calls \cup {s}
        /\ t.calls \ {s} \subseteq q.calls
        /\ status = "running" => s \in q.calls
    BY <1>9, <1>11
  <2>3. q.pc \in {"working", "failing"} => s \notin q.todo /\ (s \in q.calls => status = "running")
    BY <1>3, <1>11 DEF Fits, Stepped
  <2> HIDE DEF run
  <2> QED BY <1>3, <1>4, <1>7, <1>11, <2>1, <2>2, <2>3, LaneFits
<1> HIDE DEF run
<1>15. Busy(t) <=> t.pc # "done"
  BY <1>6 DEF Busy
<1>16. \A st : Mirrors(st, st)
  BY DEF Mirrors
<1>17. /\ Busy(x) => Busy(t) /\ x.at = t.at
       /\ Busy(q) => Busy(t) /\ q.at = t.at
       /\ x.pc # "idle" /\ q.pc # "idle" /\ x.pc \notin Owning /\ x.pc \notin Steady
       /\ q.pc \in Owning => run.status = "running"
  BY <1>6, <1>8, <1>11, <1>12, <1>15 DEF Busy, Owning, Steady, Past
<1>18. Fits(saved, swept, strayed) /\ saved \in {q, x}
  BY <1>13, <1>14
<1> HIDE DEF saved
<1>19. /\ Busy(saved) => Busy(t) /\ saved.at = t.at
       /\ saved.pc # "idle"
       /\ saved.pc \in Owning => run.status \in {"running", "paused"}
       /\ saved.pc \in Steady => Mirrors(run.steps, saved.run.steps)
  BY <1>11, <1>12, <1>16, <1>17, <1>18
<1> QED
  BY <1>2, <1>5, <1>6, <1>8, <1>13, <1>17, <1>18, <1>19, SaveKeeps

LEMMA ReplyKeeps ==
  ASSUME RunInv, NEW e \in Task, Alive(task[e].at), NEW s \in Step, NEW result \in BOOLEAN,
         Reply(e, s, result)
  PROVE  RunInv'
<1> DEFINE t == task[e]
           error == IF t.reason # "none" THEN "cancelled" ELSE "failed"
           word == IF result THEN "completed" ELSE error
           calls == t.calls \ {s}
           run == [t.run EXCEPT !.steps[s] = word]
           lost == [t.run EXCEPT !.steps[s] = error]
           q == [t EXCEPT !.run = run, !.calls = calls]
           x == [LaneDies(e) EXCEPT !.run = lost, !.calls = calls]
           pc == IF t.pc = "working" THEN "failing" ELSE t.pc
<1>1. SaveThen(e, run, q, x)
  BY DEF Reply
<1>2. s \in t.calls
  BY DEF Reply
<1>3. /\ Fits(t, swept, strayed) /\ t \in Local /\ t.calls \in SUBSET Step /\ t.run \in Run
      /\ t.run.steps \in Steps
      /\ Placed(t, swept, strayed) /\ Typed(t) /\ t.lanes \in 0..Width
  BY Now DEF Fits, Local
<1>4. Frame(t.at) /\ swept' = swept /\ strayed' = strayed
  BY DEF Reply, Frame, history, RunInv, GlobalTypes
<1>5. /\ t.pc # "idle" /\ (t.pc = "done" => t.at \in strayed)
      /\ t.pc \in {"working", "failing"} \cup Past
      /\ t.reason # "none" => swept # "nothing"
      /\ t.pc \in Steady => t.run.status = "running"
      /\ t.run.status \notin {"absent", "completed"}
  BY <1>2, <1>3 DEF Placed, Past
<1>6. /\ error \in {"failed", "cancelled"} /\ (error = "cancelled" => swept # "nothing")
      /\ word \in {"completed", "failed", "cancelled"} /\ (word = "cancelled" => swept # "nothing")
  BY <1>5
<1> HIDE DEF error, word
<1>7. /\ run \in Run /\ run.status = t.run.status
      /\ lost \in Run /\ lost.status = t.run.status
  BY <1>3, <1>6 DEF Run, Steps, StepStatus
<1>8. /\ Cardinality(calls) <= t.lanes - 1 /\ Cardinality(calls) <= t.lanes
      /\ t.lanes - 1 \in 0..Width
  <2>1. Cardinality(calls) = Cardinality(t.calls) - 1 /\ Cardinality(t.calls) \in Nat
        /\ Cardinality(calls) \in Nat
    <3>1. calls \in SUBSET Step
      BY <1>3
    <3> QED BY <1>2, <1>3, <3>1, Counts
  <2> QED BY <1>3, <2>1, StepFacts DEF Typed
<1>9. calls \in SUBSET Step /\ pc \in Pc
  <2>1. t.pc \in Pc
    BY <1>3 DEF Local
  <2> QED BY <1>3, <2>1 DEF Pc
<1>10. /\ q \in Local /\ q.pc = t.pc /\ q.at = t.at /\ q.base = t.base /\ q.run = run
       /\ q.todo = t.todo /\ q.calls = calls /\ q.lanes = t.lanes /\ q.reason = t.reason
  <2> HIDE DEF run, calls
  <2> QED BY <1>3, <1>7, <1>9 DEF Local
<1>11. /\ x \in Local /\ x.pc = pc /\ x.at = t.at /\ x.base = t.base /\ x.run = lost
       /\ x.todo = t.todo /\ x.calls = calls /\ x.lanes = t.lanes - 1 /\ x.reason = t.reason
  <2> HIDE DEF lost, calls, q
  <2>1. x = [t EXCEPT !.lanes = t.lanes - 1, !.pc = pc, !.run = lost, !.calls = calls]
    BY <1>3 DEF LaneDies, Local
  <2> HIDE DEF pc, x
  <2> QED BY <1>3, <1>7, <1>8, <1>9, <2>1 DEF Local
<1> HIDE DEF q, x
<1>12. t.pc \in {"working", "failing"} => s \notin t.todo
  BY <1>2, <1>3 DEF Fits, Stepped
<1>13. Fits(x, swept, strayed)
  <2>1. /\ x.run = [t.run EXCEPT !.steps[s] = error]
        /\ x.pc = t.pc \/ (t.pc = "working" /\ x.pc = "failing")
        /\ Cardinality(x.calls) <= x.lanes
        /\ x.todo \subseteq t.todo /\ x.calls \subseteq t.calls \cup {s}
        /\ t.calls \ {s} \subseteq x.calls
        /\ x.pc \in {"working", "failing"} => s \notin x.todo
        /\ s \notin x.calls
    BY <1>5, <1>8, <1>11, <1>12
  <2> HIDE DEF run, lost, calls
  <2> QED BY <1>2, <1>3, <1>6, <1>11, <2>1, LaneFits
<1>14. Fits(q, swept, strayed)
  <2>1. /\ q.run = [t.run EXCEPT !.steps[s] = word]
        /\ Cardinality(q.calls) <= q.lanes
        /\ q.todo \subseteq t.todo /\ q.calls \subseteq t.calls \cup {s}
        /\ t.calls \ {s} \subseteq q.calls
        /\ q.pc \in {"working", "failing"} => s \notin q.todo
        /\ s \notin q.calls
    BY <1>8, <1>10, <1>12
  <2> HIDE DEF run, lost, calls
  <2> QED BY <1>2, <1>3, <1>6, <1>10, <2>1, LaneFits
<1>15. Sound(run, swept)
  BY <1>10, <1>14 DEF Fits
<1> HIDE DEF run, lost, calls
<1>16. Busy(t) <=> t.pc # "done"
  BY <1>5 DEF Busy
<1>17. \A st : Mirrors(st, st)
  BY DEF Mirrors
<1>18. /\ Busy(x) => Busy(t) /\ x.at = t.at
       /\ Busy(q) => Busy(t) /\ q.at = t.at
       /\ x.pc # "idle" /\ q.pc # "idle" /\ x.pc \notin Owning
       /\ q.pc \in Owning => run.status \in {"running", "paused"}
       /\ q.pc \in Steady => Mirrors(run.steps, q.run.steps)
  BY <1>5, <1>7, <1>10, <1>11, <1>16, <1>17 DEF Busy, Owning, Steady, Past
<1> QED
  BY <1>1, <1>4, <1>5, <1>7, <1>13, <1>14, <1>15, <1>18, SaveKeeps

LEMMA AtRunIs ==
  ASSUME NEW e \in Task, task[e] \in Local, NEW pc \in Pc, NEW r \in Run
  PROVE  LET q == [At(e, pc) EXCEPT !.run = r] IN
         /\ q \in Local /\ q.pc = pc /\ q.at = task[e].at /\ q.base = task[e].base /\ q.run = r
         /\ q.todo = task[e].todo /\ q.calls = task[e].calls /\ q.lanes = task[e].lanes
         /\ q.reason = task[e].reason
<1> DEFINE a == At(e, pc)
<1>1. /\ a \in Local /\ a.pc = pc /\ a.at = task[e].at /\ a.base = task[e].base
      /\ a.todo = task[e].todo /\ a.calls = task[e].calls /\ a.lanes = task[e].lanes
      /\ a.reason = task[e].reason
  BY AtIs
<1> HIDE DEF a
<1>2. [a EXCEPT !.run = r] \in Local /\ [a EXCEPT !.run = r].run = r
      /\ [a EXCEPT !.run = r].pc = a.pc /\ [a EXCEPT !.run = r].at = a.at
      /\ [a EXCEPT !.run = r].base = a.base /\ [a EXCEPT !.run = r].todo = a.todo
      /\ [a EXCEPT !.run = r].calls = a.calls /\ [a EXCEPT !.run = r].lanes = a.lanes
      /\ [a EXCEPT !.run = r].reason = a.reason
  BY <1>1 DEF Local
<1> QED BY <1>1, <1>2 DEF a

LEMMA EndLevelKeeps ==
  ASSUME RunInv, NEW e \in Task, Alive(task[e].at), EndLevel(e)
  PROVE  RunInv'
<1> DEFINE t == task[e]
           st == t.run.steps
           failed == [status |-> "failed", steps |-> Mark(st, Pending(st), "cancelled")]
<1>1. t.pc = "working" /\ t.todo = {} /\ t.calls = {}
  BY DEF EndLevel
<1>2. /\ Fits(t, swept, strayed) /\ t \in Local /\ t.run \in Run /\ st \in Steps
      /\ Sound(t.base, swept) /\ Sound(t.run, swept) /\ Placed(t, swept, strayed) /\ Stepped(t)
  BY Now DEF Fits
<1>3. /\ Frame(t.at) /\ strayed' = strayed
  BY DEF EndLevel, Frame, RunInv, GlobalTypes
<1>4. /\ Busy(t) /\ t.base.status # "absent" /\ (t.reason # "none" => swept # "nothing")
      /\ t.run.status = "running" /\ t.pc \in Steady /\ t.pc \in Owning
      /\ \A k \in Step : st[k] # "interrupted" /\ st[k] # "running"
  BY <1>1, <1>2 DEF Busy, Placed, Steady, Owning, Stepped
<1>5. \A w : (w = "nothing" => swept = "nothing") => Sound(t.base, w) /\ Sound(t.run, w)
  BY <1>2 DEF Sound
<1>6. CASE /\ SaveThen(e, failed, [At(e, "returned") EXCEPT !.run = failed],
                       [At(e, "failing") EXCEPT !.run = failed])
           /\ swept' = "other"
  <2> DEFINE q == [At(e, "returned") EXCEPT !.run = failed]
             x == [At(e, "failing") EXCEPT !.run = failed]
  <2>1. /\ Mark(st, Pending(st), "cancelled") \in Steps
        /\ \A s \in Step : Mark(st, Pending(st), "cancelled")[s] =
                             IF s \in Pending(st) THEN "cancelled" ELSE st[s]
    BY <1>2, MarkIs DEF StepStatus
  <2>2. /\ failed \in Run /\ failed.status = "failed"
        /\ \A s \in Step : failed.steps[s] = IF s \in Pending(st) THEN "cancelled" ELSE st[s]
    BY <2>1 DEF Run, RunStatus, Final
  <2>3. SaveThen(e, failed, q, x)
    BY <1>6
  <2> HIDE DEF failed
  <2>4. \A s \in Step : \/ failed.steps[s] = t.run.steps[s]
                        \/ /\ t.run.steps[s] \notin Settled
                           /\ failed.steps[s] \notin {"running", "completed"}
    BY <2>2 DEF Pending, Settled
  <2>5. Sound(failed, swept') /\ swept' # "nothing"
    BY <1>2, <1>6, <2>2, <2>4, SoundKept
  <2>6. \A pc \in {"returned", "failing"} : pc \in Pc /\ pc \notin Steady /\ pc \notin Owning
          /\ pc \notin {"synth", "synthesizing", "finishing"} /\ pc # "idle"
    BY DEF Pc, Steady, Owning
  <2>7. /\ q \in Local /\ q.pc = "returned" /\ q.at = t.at /\ q.base = t.base /\ q.run = failed
        /\ q.todo = {} /\ q.calls = {}
    BY <1>1, <1>2, <2>2, <2>6, AtRunIs
  <2>8. /\ x \in Local /\ x.pc = "failing" /\ x.at = t.at /\ x.base = t.base /\ x.run = failed
        /\ x.todo = {} /\ x.calls = {}
    BY <1>1, <1>2, <2>2, <2>6, AtRunIs
  <2> HIDE DEF q, x
  <2>9. Stepped(q) /\ Stepped(x)
    BY <2>6, <2>7, <2>8 DEF Stepped
  <2>10. Fits(q, swept', strayed') /\ Fits(x, swept', strayed')
    BY <1>4, <1>5, <2>2, <2>5, <2>6, <2>7, <2>8, <2>9, QuietFits
  <2>11. t.pc # "idle" /\ t.pc # "done"
    BY <1>1
  <2> QED BY <1>3, <1>4, <2>2, <2>3, <2>5, <2>6, <2>7, <2>8, <2>10, <2>11, SaveKeeps
<1>7. CASE /\ Became(e, IF t.reason # "none" THEN "failing" ELSE LoopPc(st))
           /\ UNCHANGED <<row, lease, swept>>
  <2> DEFINE pc == IF t.reason # "none" THEN "failing" ELSE LoopPc(st)
             q == At(e, pc)
  <2>1. /\ pc \in {"failing", "level", "synth", "finishing"}
        /\ pc \in {"synth", "finishing"} => Pending(st) = {}
    BY DEF LoopPc
  <2>2. task' = [task EXCEPT ![e] = q]
    BY <1>7 DEF Became, At
  <2> HIDE DEF pc
  <2>3. pc \in Pc
    BY <2>1 DEF Pc
  <2>4. /\ q \in Local /\ q.pc = pc /\ q.at = t.at /\ q.base = t.base /\ q.run = t.run
        /\ q.todo = {} /\ q.calls = {} /\ q.reason = t.reason
    BY <1>1, <1>2, <2>3, AtIs
  <2> HIDE DEF q
  <2>5. Stepped(q)
    BY <1>4, <2>1, <2>4 DEF Stepped
  <2>6. Fits(q, swept', strayed')
    BY <1>2, <1>4, <1>7, <2>4, <2>5, QuietFits
  <2>7. Mirrors(t.run.steps, q.run.steps)
    BY <2>4 DEF Mirrors
  <2>8. t.pc # "idle" /\ t.pc # "done" /\ q.pc # "idle"
    BY <1>1, <2>1, <2>4
  <2> QED BY <1>3, <1>4, <1>7, <2>2, <2>4, <2>6, <2>7, <2>8, MoveKeeps
<1> QED BY <1>6, <1>7 DEF EndLevel

LEMMA SynthesizedKeeps ==
  ASSUME RunInv, NEW e \in Task, NEW result \in BOOLEAN, Synthesized(e, result)
  PROVE  RunInv'
<1> DEFINE t == task[e]
           q == At(e, "finishing")
           x == At(e, "failing")
<1>1. t.pc \in Before /\ t.pc = "synthesizing" /\ t.pc \in Steady
  BY DEF Synthesized, Before, Steady
<1>2. /\ Alive(t.at) /\ t.pc # "idle" /\ t.pc # "done" /\ Busy(t)
      /\ t \in Local /\ t.run \in Run /\ t.run.status = "running" /\ Sound(t.run, swept)
  BY <1>1, AtRest, Now
<1>3. Frame(t.at) /\ swept' = swept /\ Sound(t.run, swept')
  BY <1>2 DEF Synthesized, Frame, history, RunInv, GlobalTypes
<1>4. /\ "finishing" \in Pc /\ "failing" \in Pc /\ "failing" \notin Steady
      /\ "failing" \notin Owning
  BY DEF Pc, Steady, Owning
<1>5. Fits(q, swept', strayed') /\ Fits(x, swept', strayed')
  BY <1>1, <1>2, <1>3, <1>4, Forward DEF Frame
<1>6. /\ q.pc = "finishing" /\ q.at = t.at /\ q.run = t.run
      /\ x.pc = "failing" /\ x.at = t.at
  BY <1>2, <1>4, AtIs
<1>7. CASE SaveThen(e, t.run, q, x)
  <2> HIDE DEF q, x
  <2>1. Mirrors(t.run.steps, q.run.steps)
    BY <1>6 DEF Mirrors
  <2> QED BY <1>2, <1>3, <1>4, <1>5, <1>6, <1>7, <2>1, SaveKeeps
<1>8. CASE Became(e, "failing") /\ UNCHANGED <<row, lease>>
  <2>1. task' = [task EXCEPT ![e] = x]
    BY <1>8 DEF Became, At
  <2> HIDE DEF q, x
  <2> QED BY <1>2, <1>3, <1>4, <1>5, <1>6, <1>8, <2>1, MoveKeeps
<1> QED BY <1>7, <1>8 DEF Synthesized

\* A run that is finished with no hard failure has carried out every step: of the steps
\* that were cancelled the first would need an earlier one.
LEMMA CarriedOut ==
  ASSUME NEW st \in Steps, Topological, Justified(st), ~HardFailure(st),
         \A s \in Step : st[s] \in Settled
  PROVE  AllDone(st)
<1> DEFINE C == {s \in Step : st[s] = "cancelled"}
<1>1. ASSUME C # {}  PROVE FALSE
  <2>1. C \subseteq Nat
    BY StepFacts
  <2>2. PICK c \in C : \A y \in C : c <= y
    BY <1>1, <2>1, Least
  <2>3. PICK d \in Needs[c] : Blocking(st, d)
    BY <2>2 DEF Justified
  <2>4. d \in Step /\ d < c /\ c \in Nat /\ d \in Nat
    BY <2>2, StepFacts DEF Topological
  <2>5. st[d] # "failed"
    BY <2>3, <2>4 DEF HardFailure, Blocking
  <2>6. d \in C
    BY <2>3, <2>4, <2>5 DEF Blocking
  <2> QED BY <2>2, <2>4, <2>6
<1> QED BY <1>1 DEF AllDone, Done, HardFailure, Settled

LEMMA FinishKeeps ==
  ASSUME RunInv, NEW e \in Task, Finish(e)
  PROVE  RunInv'
<1> DEFINE t == task[e]
           status == IF HardFailure(t.run.steps) THEN "failed" ELSE "completed"
           run == [t.run EXCEPT !.status = status]
           q == [At(e, "returned") EXCEPT !.run = run]
           x == [At(e, "failing") EXCEPT !.run = run]
<1>1. t.pc \in Before /\ t.pc = "finishing" /\ t.pc \in Steady
  BY DEF Finish, Before, Steady
<1>2. /\ Alive(t.at) /\ t.pc # "idle" /\ t.pc # "done" /\ Busy(t)
      /\ t \in Local /\ t.run \in Run /\ Sound(t.run, swept) /\ t.run.steps \in Steps
      /\ t.calls = {} /\ t.todo = {} /\ t.base.status # "absent" /\ Sound(t.base, swept)
      /\ t.reason # "none" => swept # "nothing"
      /\ Fits(t, swept, strayed)
  BY <1>1, AtRest, Now
<1>3. Frame(t.at) /\ swept' = swept
  BY DEF Finish, Frame, history, RunInv, GlobalTypes
<1>4. run \in Run /\ run.steps = t.run.steps /\ run.status = status
      /\ status \in {"failed", "completed"}
  BY <1>2 DEF Run, RunStatus, Final
<1>5. SaveThen(e, run, q, x)
  BY DEF Finish
<1> HIDE DEF run
<1>6. \A s \in Step : t.run.steps[s] \in Settled
  <2>1. ASSUME NEW s \in Step
        PROVE  t.run.steps[s] \in StepStatus /\ t.run.steps[s] \notin {"interrupted", "running", "pending"}
    BY <1>1, <1>2 DEF Fits, Stepped, Steps, Pending
  <2> QED BY <2>1 DEF StepStatus, Settled
<1>7. Sound(run, swept)
  <2> SUFFICES ASSUME Topological
      PROVE  /\ Met(run.steps)
             /\ swept = "nothing" => Justified(run.steps) /\ (run.status = "completed" => AllDone(run.steps))
    BY DEF Sound
  <2> QED BY <1>2, <1>4, <1>6, CarriedOut DEF Sound
<1> HIDE DEF status
<1>8. \A pc \in {"returned", "failing"} : pc \in Pc /\ pc \notin Steady /\ pc \notin Owning
        /\ pc \notin {"synth", "synthesizing", "finishing"} /\ pc # "idle"
  BY DEF Pc, Steady, Owning
<1>9. /\ q \in Local /\ q.pc = "returned" /\ q.at = t.at /\ q.base = t.base /\ q.run = run
      /\ q.todo = {} /\ q.calls = {} /\ q.reason = t.reason
  BY <1>2, <1>4, <1>8, AtRunIs
<1>10. /\ x \in Local /\ x.pc = "failing" /\ x.at = t.at /\ x.base = t.base /\ x.run = run
       /\ x.todo = {} /\ x.calls = {} /\ x.reason = t.reason
  BY <1>2, <1>4, <1>8, AtRunIs
<1> HIDE DEF q, x
<1>11. Stepped(q) /\ Stepped(x)
  BY <1>8, <1>9, <1>10 DEF Stepped
<1>12. Fits(q, swept', strayed') /\ Fits(x, swept', strayed')
  BY <1>2, <1>3, <1>4, <1>7, <1>8, <1>9, <1>10, <1>11, QuietFits
<1>13. Sound(run, swept') /\ run.status # "absent"
  BY <1>3, <1>4, <1>7
<1> QED BY <1>2, <1>3, <1>4, <1>5, <1>8, <1>9, <1>10, <1>12, <1>13, SaveKeeps

-----------------------------------------------------------------------------
(* The end of an execution, whose lanes may outlive it.                    *)

LEMMA PastFits ==
  ASSUME NEW q, NEW q2 \in Local, NEW w, NEW w2, NEW s, NEW s2, Fits(q, w, s),
         w2 = "nothing" => w = "nothing", q.at \in s => q.at \in s2,
         q2.pc \in Past, Busy(q2) => Busy(q),
         q.pc \in Past \/ (q.calls # {} \/ Spare(q) => q.at \in s2 /\ w2 # "nothing"),
         q2.at = q.at, q2.base = q.base, q2.todo = q.todo, q2.calls = q.calls,
         q2.lanes = q.lanes, q2.reason = q.reason,
         q2.run \in Run, Sound(q2.run, w2),
         \A k \in Step : \/ q2.run.steps[k] = q.run.steps[k]
                         \/ /\ q.run.steps[k] \notin Settled
                            /\ q2.run.steps[k] \notin {"running", "completed"},
         q2.run.status \in {"absent", "completed"} => q2.run.status = q.run.status,
         q2.pc \in {"cancelling", "returned"} => q2.run.status # "absent"
  PROVE  Fits(q2, w2, s2)
<1>1. Typed(q) /\ Sound(q.base, w) /\ Placed(q, w, s) /\ (Topological => Clear(q))
  BY DEF Fits
<1>2. Typed(q2) /\ Sound(q2.base, w2)
  BY <1>1 DEF Typed, Sound
<1>3. Spare(q2) = Spare(q)
  BY DEF Spare
<1>4. q2.calls # {} \/ Spare(q2) => q2.at \in s2 /\ w2 # "nothing"
  BY <1>1, <1>3 DEF Placed
<1>5. /\ q2.pc \notin Steady /\ q2.pc # "failing" /\ q2.pc # "working"
      /\ q2.pc \notin {"synth", "synthesizing", "finishing"}
  BY DEF Past, Steady
<1>6. Placed(q2, w2, s2)
  BY <1>1, <1>4, <1>5 DEF Placed
<1>7. Stepped(q2)
  BY <1>5 DEF Stepped
<1>8. ASSUME Topological  PROVE Clear(q2)
  <2> SUFFICES ASSUME NEW t \in Step,
                      t \in q.todo \cup q.calls \/ q2.run.steps[t] \in {"running", "completed"},
                      NEW d \in Needs[t]
      PROVE  d \notin q.todo \cup q.calls /\ Allows(q2.run.steps, d)
    BY DEF Clear
  <2>1. d \notin q.todo \cup q.calls /\ Allows(q.run.steps, d) /\ d \in Step
    BY <1>1, <1>8, StepFacts DEF Clear
  <2>2. q.run.steps[d] \in Settled
    BY <2>1 DEF Allows, Settled
  <2>3. q2.run.steps[d] = q.run.steps[d]
    BY <2>1, <2>2
  <2> QED BY <2>1, <2>3 DEF Allows
<1> QED BY <1>2, <1>6, <1>7, <1>8 DEF Fits

LEMMA FailKeeps ==
  ASSUME RunInv, NEW e \in Task, Fail(e)
  PROVE  RunInv'
<1> DEFINE t == task[e]
           aborted == t.reason # "none"
           st == t.run.steps
           left == {s \in Step : st[s] \in {"pending", "running"}}
           run == [status |-> IF aborted THEN "cancelled" ELSE "failed",
                   steps |-> Mark(st, left, "cancelled")]
           pc == IF aborted /\ t.calls # {} THEN "cancelling" ELSE "returned"
           q == [At(e, pc) EXCEPT !.run = run]
           x == [At(e, "rejecting") EXCEPT !.run = run]
<1>1. t.pc = "failing" /\ ~Spare(t)
  BY DEF Fail, LaneFree, Spare
<1>2. /\ Busy(t) /\ t.pc # "idle" /\ t.pc # "done"
  BY <1>1 DEF Busy
<1>3. /\ Fits(t, swept, strayed) /\ t \in Local /\ t.run \in Run /\ st \in Steps
      /\ Sound(t.run, swept) /\ Alive(t.at)
      /\ t.reason # "none" => swept # "nothing"
  BY <1>2, Now DEF Fits, Placed
<1>4. /\ Frame(t.at) /\ strayed \subseteq strayed'
      /\ swept' # "nothing" /\ (t.calls # {} => t.at \in strayed')
  BY <1>3 DEF Fail, Frame, RunInv, GlobalTypes
<1>5. /\ Mark(st, left, "cancelled") \in Steps
      /\ \A s \in Step : Mark(st, left, "cancelled")[s] = IF s \in left THEN "cancelled" ELSE st[s]
  <2> HIDE DEF left
  <2> QED BY <1>3, MarkIs DEF StepStatus
<1>6. /\ run \in Run /\ run.status \in {"cancelled", "failed"}
      /\ \A s \in Step : run.steps[s] = IF s \in left THEN "cancelled" ELSE st[s]
  BY <1>5 DEF Run, RunStatus, Final
<1>7. SaveThen(e, run, q, x)
  BY DEF Fail
<1> HIDE DEF run
<1>8. \A s \in Step : \/ run.steps[s] = t.run.steps[s]
                      \/ t.run.steps[s] \notin Settled /\ run.steps[s] \notin {"running", "completed"}
  BY <1>6 DEF Settled
<1>9. Sound(run, swept')
  BY <1>3, <1>4, <1>6, <1>8, SoundKept
<1>10. pc \in {"cancelling", "returned"}
  OBVIOUS
<1> HIDE DEF pc
<1>11. \A c \in {"cancelling", "returned", "rejecting"} :
         c \in Pc /\ c \in Past /\ c \notin Owning /\ c \notin Steady /\ c # "idle"
  BY DEF Pc, Past, Owning, Steady
<1>12. /\ q \in Local /\ q.pc = pc /\ q.at = t.at /\ q.base = t.base /\ q.run = run
       /\ q.todo = t.todo /\ q.calls = t.calls /\ q.lanes = t.lanes /\ q.reason = t.reason
  BY <1>3, <1>6, <1>10, <1>11, AtRunIs
<1>13. /\ x \in Local /\ x.pc = "rejecting" /\ x.at = t.at /\ x.base = t.base /\ x.run = run
       /\ x.todo = t.todo /\ x.calls = t.calls /\ x.lanes = t.lanes /\ x.reason = t.reason
  BY <1>3, <1>6, <1>11, AtRunIs
<1> HIDE DEF q, x, left
<1>14. Fits(q, swept', strayed')
  BY <1>1, <1>2, <1>3, <1>4, <1>6, <1>8, <1>9, <1>10, <1>11, <1>12, PastFits
<1>15. Fits(x, swept', strayed')
  BY <1>1, <1>2, <1>3, <1>4, <1>6, <1>8, <1>9, <1>11, <1>13, PastFits
<1> QED
  BY <1>2, <1>3, <1>4, <1>6, <1>7, <1>9, <1>10, <1>11, <1>12, <1>13, <1>14, <1>15, SaveKeeps

\* A call that has only lanes left.
LEMMA EndedFits ==
  ASSUME RunInv, NEW e \in Task, task[e].pc \in {"returned", "rejecting"},
         swept' \in {swept, "other"}, strayed' = strayed
  PROVE  LET q == Ended(e) IN
         /\ Fits(q, swept', strayed') /\ ~Busy(q) /\ q.pc # "idle"
         /\ q.pc \notin Owning /\ q.pc \notin Steady
<1> DEFINE t == task[e]
           q == At(e, "done")
<1>1. /\ Fits(t, swept, strayed) /\ t \in Local /\ t.run \in Run /\ Sound(t.run, swept)
  BY Now
<1>2. "done" \in Pc /\ "done" \in Past /\ "done" \notin Owning /\ "done" \notin Steady
  BY DEF Pc, Past, Owning, Steady
<1>3. /\ q \in Local /\ q.pc = "done" /\ q.at = t.at /\ q.base = t.base /\ q.run = t.run
      /\ q.todo = t.todo /\ q.calls = t.calls /\ q.lanes = t.lanes /\ q.reason = t.reason
  BY <1>1, <1>2, AtIs
<1> HIDE DEF q
<1>4. Sound(t.run, swept')
  BY <1>1 DEF Sound
<1>5. ~Busy(q) /\ t.pc \in Past
  BY <1>3 DEF Busy, Past
<1>6. Fits(q, swept', strayed')
  BY <1>1, <1>2, <1>3, <1>4, <1>5, PastFits
<1>7. CASE t.calls = {}
  BY <1>7, RestFits, OverIs DEF Ended
<1>8. CASE t.calls # {}
  BY <1>2, <1>3, <1>5, <1>6, <1>8 DEF Ended, q
<1> QED BY <1>7, <1>8

LEMMA CancelledKeeps ==
  ASSUME RunInv, NEW e \in Task, Cancelled(e)
  PROVE  RunInv'
<1> DEFINE t == task[e]
           q == At(e, "returned")
<1>1. t.pc = "cancelling" /\ t.pc \in Past /\ Busy(t)
  BY DEF Cancelled, Past, Busy
<1>2. /\ Fits(t, swept, strayed) /\ t \in Local /\ t.run \in Run
      /\ Sound(t.run, swept) /\ Alive(t.at) /\ t.run.status # "absent"
  BY <1>1, Now DEF Fits, Placed
<1>3. Frame(t.at) /\ UNCHANGED <<row, lease, swept, strayed>>
  BY DEF Cancelled, Frame, history, RunInv, GlobalTypes
<1>4. "returned" \in Pc /\ "returned" \in Past /\ "returned" \notin Owning /\ "returned" \notin Steady
  BY DEF Pc, Past, Owning, Steady
<1>5. /\ q \in Local /\ q.pc = "returned" /\ q.at = t.at /\ q.base = t.base /\ q.run = t.run
      /\ q.todo = t.todo /\ q.calls = t.calls /\ q.lanes = t.lanes /\ q.reason = t.reason
  BY <1>2, <1>4, AtIs
<1>6. task' = [task EXCEPT ![e] = q]
  BY DEF Cancelled, Became, At
<1> HIDE DEF q
<1>7. Fits(q, swept', strayed')
  BY <1>1, <1>2, <1>3, <1>4, <1>5, PastFits
<1> QED BY <1>1, <1>2, <1>3, <1>4, <1>5, <1>6, <1>7, MoveKeeps

LEMMA ReturnKeeps ==
  ASSUME RunInv, NEW e \in Task, Return(e)
  PROVE  RunInv'
<1> DEFINE t == task[e]
<1>1. t.pc = "returned" /\ t.pc \in Past /\ Busy(t) /\ t.pc # "idle" /\ t.pc # "done"
  BY DEF Return, Past, Busy
<1>2. /\ Fits(t, swept, strayed) /\ t \in Local /\ t.run \in Run
      /\ Sound(t.run, swept) /\ Alive(t.at) /\ t.run.status # "absent"
  BY <1>1, Now DEF Fits, Placed
<1>3. Frame(t.at) /\ swept' = swept /\ strayed' = strayed
  BY DEF Return, Frame, history, RunInv, GlobalTypes
<1> DEFINE q == Ended(e)
<1>4. /\ Fits(q, swept', strayed') /\ ~Busy(q) /\ q.pc # "idle"
      /\ q.pc \notin Owning /\ q.pc \notin Steady
  BY <1>1, <1>3, EndedFits
<1>5. CASE Ends(e) /\ UNCHANGED <<row, lease>>
  <2>1. task' = [task EXCEPT ![e] = q]
    BY <1>5 DEF Ends
  <2> HIDE DEF q
  <2> QED BY <1>1, <1>2, <1>3, <1>4, <1>5, <2>1, MoveKeeps
<1>6. ASSUME ~(Ends(e) /\ UNCHANGED <<row, lease>>)  PROVE RunInv'
  <2> DEFINE word == IF t.reason = "timeout" THEN "failed" ELSE AbortedStatus(t.reason)
             run == [t.run EXCEPT !.status = word]
             x == [At(e, "rejecting") EXCEPT !.run = run]
  <2>1. SaveThen(e, run, q, x)
    BY <1>6 DEF Return
  <2>2. word \in {"failed", "stopped", "interrupted", "cancelled"}
    BY DEF AbortedStatus
  <2> HIDE DEF word, q
  <2>3. run \in Run /\ run.steps = t.run.steps /\ run.status = word
    BY <1>2, <2>2 DEF Run, RunStatus, Final
  <2> HIDE DEF run
  <2>4. Sound(run, swept')
    BY <1>2, <1>3, <2>2, <2>3, SoundKept
  <2>5. /\ "rejecting" \in Pc /\ "rejecting" \in Past /\ "rejecting" \notin Owning
        /\ "rejecting" \notin Steady
    BY DEF Pc, Past, Owning, Steady
  <2>6. /\ x \in Local /\ x.pc = "rejecting" /\ x.at = t.at /\ x.base = t.base /\ x.run = run
        /\ x.todo = t.todo /\ x.calls = t.calls /\ x.lanes = t.lanes /\ x.reason = t.reason
    BY <1>2, <2>3, <2>5, AtRunIs
  <2> HIDE DEF x
  <2>7. Fits(x, swept', strayed')
    BY <1>1, <1>2, <1>3, <2>2, <2>3, <2>4, <2>5, <2>6, PastFits
  <2> QED BY <1>1, <1>2, <1>3, <1>4, <2>1, <2>2, <2>3, <2>4, <2>5, <2>6, <2>7, SaveKeeps
<1> QED BY <1>5, <1>6

LEMMA RejectKeeps ==
  ASSUME RunInv, NEW e \in Task, Reject(e)
  PROVE  RunInv'
<1> DEFINE t == task[e]
           aborted == t.reason # "none"
           status == IF aborted THEN AbortedStatus(t.reason) ELSE "failed"
           base == [status |-> status, steps |-> Finalize(t.base.steps, status)]
           q == Ended(e)
<1>1. t.pc = "rejecting" /\ Busy(t) /\ t.pc # "idle" /\ t.pc # "done"
  BY DEF Reject, Busy
<1>2. /\ t.base \in Run /\ t.base.steps \in Steps /\ Sound(t.base, swept) /\ Alive(t.at)
      /\ t.reason # "none" => swept # "nothing"
  BY <1>1, Now DEF Fits, Placed
<1>3. Frame(t.at) /\ strayed' = strayed /\ swept' # "nothing"
  BY <1>2 DEF Reject, Frame, RunInv, GlobalTypes
<1>4. status \in {"failed", "stopped", "interrupted", "cancelled"}
  BY DEF AbortedStatus
<1>5. SaveThen(e, base, q, q)
  BY DEF Reject
<1> HIDE DEF status
<1>6. /\ base \in Run /\ base.status = status
      /\ \A s \in Step : base.steps[s] =
           IF t.base.steps[s] \notin {"pending", "running", "interrupted"} THEN t.base.steps[s]
           ELSE IF status = "failed" THEN "failed" ELSE "cancelled"
  BY <1>2, <1>4, FinalizeIs DEF Run, RunStatus, Final
<1> HIDE DEF base
<1>7. \A s \in Step : \/ base.steps[s] = t.base.steps[s]
                      \/ t.base.steps[s] \notin Settled /\ base.steps[s] \notin {"running", "completed"}
  BY <1>6 DEF Settled
<1>8. Sound(base, swept')
  BY <1>2, <1>3, <1>6, <1>7, SoundKept
<1>9. /\ Fits(q, swept', strayed') /\ ~Busy(q) /\ q.pc # "idle"
      /\ q.pc \notin Owning /\ q.pc \notin Steady
  BY <1>1, <1>3, EndedFits DEF Frame
<1> HIDE DEF q
<1> QED BY <1>1, <1>2, <1>3, <1>4, <1>5, <1>6, <1>8, <1>9, SaveKeeps

LEMMA ExecutesKeeps ==
  ASSUME RunInv, NEW e \in Task, Executes(e)
  PROVE  RunInv'
<1>1. Alive(task[e].at)
  BY DEF Executes, Runs
<1>2. CASE Claim(e) \/ Rerun(e) \/ RestartSave(e) \/ RestartResume(e)
  BY <1>2, ClaimKeeps, RerunKeeps, RestartSaveKeeps, RestartResumeKeeps
<1>3. CASE GateHalt(e) \/ GatePause(e) \/ GateOpen(e)
  BY <1>3, GateHaltKeeps, GatePauseKeeps, GateOpenKeeps
<1>4. CASE Routed(e) \/ SaveRouted(e) \/ Enter(e)
  BY <1>4, RoutedKeeps, SaveRoutedKeeps, EnterKeeps
<1>5. CASE Take(e)
  BY <1>1, <1>5, TakeKeeps
<1>6. ASSUME NEW s \in Step, NEW result \in BOOLEAN, Reply(e, s, result)  PROVE RunInv'
  BY <1>1, <1>6, ReplyKeeps
<1>7. CASE EndLevel(e)
  BY <1>1, <1>7, EndLevelKeeps
<1>8. ASSUME NEW result \in BOOLEAN, Synthesized(e, result)  PROVE RunInv'
  BY <1>8, SynthesizedKeeps
<1>9. CASE Finish(e) \/ Fail(e) \/ Cancelled(e) \/ Return(e) \/ Reject(e)
  BY <1>9, FinishKeeps, FailKeeps, CancelledKeeps, ReturnKeeps, RejectKeeps
<1> QED BY <1>2, <1>3, <1>4, <1>5, <1>6, <1>7, <1>8, <1>9 DEF Executes

-----------------------------------------------------------------------------
(* Calls on the service.                                                   *)

LEMMA NobodyBusy ==
  ASSUME RunInv, NEW p \in Proc, Callable(p), ~ActiveAt(p), NEW f \in Task, task[f].at = p
  PROVE  ~Busy(task[f])
<1>1. Alive(p) /\ ~InTurn(f)
  BY DEF Callable, Free
<1>2. task[f].pc \notin Executing
  BY <1>1 DEF ActiveAt, Active
<1>3. task[f].pc \in Pc
  BY Now DEF Local
<1> QED BY <1>1, <1>2, <1>3 DEF Busy, InTurn, Executing, Pc

LEMMA IdleIs ==
  /\ Idle \in Local /\ Idle.run = Absent /\ Idle.todo = {} /\ Idle.calls = {} /\ Idle.reason = "none"
<1>1. {} \in SUBSET Step /\ 0 \in 0..Width
  BY StepFacts
<1> QED BY <1>1, AbsentSound DEF Idle, Local, Pc, Origin, Reason

\* A call that begins.
LEMMA FreshFits ==
  ASSUME RunInv, NEW q \in Local, q.pc \in {"start", "claiming", "restarting"},
         q.base.status # "absent", Sound(q.base, swept), q.run = Absent,
         q.todo = {}, q.calls = {}, q.reason = "none"
  PROVE  Fits(q, swept, strayed)
<1>1. /\ q.pc \notin Steady
      /\ q.pc \notin {"synth", "synthesizing", "finishing", "working", "failing", "cancelling", "returned"}
  BY DEF Steady
<1>2. Stepped(q)
  BY <1>1 DEF Stepped
<1> QED BY <1>1, <1>2, AbsentSound, QuietFits

LEMMA CallKeeps ==
  ASSUME RunInv, NEW p \in Proc, Alive(p), NEW e \in Task, NEW q, task[e].pc = "idle",
         \A f \in Task : task[f].at = p => ~Busy(task[f]),
         task' = [task EXCEPT ![e] = q], Fits(q, swept, strayed), q.at = p, q.pc # "idle",
         q.pc \notin Steady, q.pc \in Owning => lease' = Held(p),
         row.status = "absent" \/ UNCHANGED <<row, lease>>,
         row' \in Run, row'.status # "absent", Sound(row', swept),
         lease' \in [owner : Proc \cup {None}, live : BOOLEAN],
         UNCHANGED <<control, up, history>>
  PROVE  RunInv'
<1>1. /\ GlobalTypes /\ Lodged
      /\ \A f \in Task : Fits(task[f], swept, strayed) /\ Leads(f)
  BY DEF RunInv
<1>2. task'[e] = q /\ \A f \in Task : f # e => task'[f] = task[f]
  BY <1>1 DEF GlobalTypes
<1>3. GlobalTypes'
  BY <1>1 DEF GlobalTypes, history
<1>4. Lodged'
  <2>1. \A f \in Task : f # e => (Busy(task'[f]) => task'[f].at # p)
    BY <1>2
  <2> QED BY <1>1, <1>2, <2>1 DEF Lodged, Alive, Busy
<1>5. ASSUME NEW f \in Task  PROVE Fits(task'[f], swept', strayed') /\ Leads(f)'
  <2>1. CASE f = e
    BY <1>2, <2>1 DEF Leads, history
  <2>2. CASE f # e
    <3>1. task'[f] = task[f] /\ Fits(task[f], swept, strayed) /\ Leads(f)
      BY <1>1, <1>2, <2>2
    <3>2. CASE row.status = "absent"
      <4>1. task[f].pc = "idle"
        BY <1>1, <3>2 DEF Lodged
      <4> QED BY <3>1, <4>1 DEF Leads, Owning, Steady, history
    <3>3. CASE UNCHANGED <<row, lease>>
      BY <3>1, <3>3 DEF Leads, history
    <3> QED BY <3>2, <3>3
  <2> QED BY <2>1, <2>2
<1>6. Sound(row', swept')
  BY DEF history
<1> QED BY <1>3, <1>4, <1>5, <1>6 DEF RunInv

LEMMA StartWorkflowKeeps ==
  ASSUME RunInv, NEW p \in Proc, Callable(p), NEW e \in Task, StartWorkflow(e, p)
  PROVE  RunInv'
<1> DEFINE r == [status |-> "pending", steps |-> Fresh]
           q == [Idle EXCEPT !.pc = "start", !.at = p, !.origin = "started", !.base = r]
<1>1. /\ row' = r /\ lease' = Held(p) /\ row.status = "absent"
      /\ task[e].pc = "idle" /\ UNCHANGED <<control, up, history>>
  BY DEF StartWorkflow, NextCall
<1>2. task' = [task EXCEPT ![e] = q]
  BY <1>1 DEF StartWorkflow
<1>3. r \in Run /\ r.status = "pending" /\ r.steps = Absent.steps
  BY AbsentSound DEF Absent, Run, RunStatus, InFlight
<1> HIDE DEF r
<1>4. Sound(r, swept)
  BY <1>3, AbsentSound, SoundKept
<1>5. Fits(q, swept, strayed) /\ q.pc = "start" /\ q.at = p
  <2>1. "start" \in Pc /\ "started" \in Origin
    BY DEF Pc, Origin
  <2>2. /\ q \in Local /\ q.pc = "start" /\ q.at = p /\ q.base = r /\ q.run = Idle.run
        /\ q.todo = Idle.todo /\ q.calls = Idle.calls /\ q.reason = Idle.reason
    BY <1>3, <2>1, IdleIs DEF Local
  <2> HIDE DEF q
  <2> QED BY <1>3, <1>4, <2>2, IdleIs, FreshFits
<1> HIDE DEF q
<1>6. \A f \in Task : ~Busy(task[f])
  BY <1>1 DEF RunInv, Lodged, Busy
<1>7. Held(p) \in [owner : Proc \cup {None}, live : BOOLEAN]
  BY DEF Held
<1>8. Alive(p) /\ "start" \notin Steady
  BY DEF Callable, Free, Steady
<1> QED BY <1>1, <1>2, <1>3, <1>4, <1>5, <1>6, <1>7, <1>8, CallKeeps

\* A call that reads the row.
LEMMA ReaderKeeps ==
  ASSUME RunInv, NEW p \in Proc, Callable(p), ~ActiveAt(p), NEW e \in Task, NextCall(e),
         NEW pc \in {"claiming", "restarting"}, NEW b \in Run, b.status # "absent",
         Sound(b, swept), row.status # "absent",
         task' = [task EXCEPT ![e] = [Idle EXCEPT !.pc = pc, !.at = p, !.base = b]],
         UNCHANGED <<row, control, lease, up, history>>
  PROVE  RunInv'
<1> DEFINE q == [Idle EXCEPT !.pc = pc, !.at = p, !.base = b]
<1>2. Fits(q, swept, strayed) /\ q.pc = pc /\ q.at = p
  <2>1. pc \in Pc
    BY DEF Pc
  <2>2. /\ q \in Local /\ q.pc = pc /\ q.at = p /\ q.base = b /\ q.run = Idle.run
        /\ q.todo = Idle.todo /\ q.calls = Idle.calls /\ q.reason = Idle.reason
    BY <2>1, IdleIs DEF Local
  <2> HIDE DEF q
  <2> QED BY <2>2, IdleIs, FreshFits
<1>3. task' = [task EXCEPT ![e] = q]
  OBVIOUS
<1> HIDE DEF q
<1>4. \A f \in Task : task[f].at = p => ~Busy(task[f])
  BY NobodyBusy
<1>5. Alive(p) /\ task[e].pc = "idle" /\ pc \notin Steady /\ pc \notin Owning
  BY DEF Callable, Free, Steady, Owning, NextCall
<1>6. row \in Run /\ Sound(row, swept) /\ lease \in [owner : Proc \cup {None}, live : BOOLEAN]
  BY DEF RunInv, GlobalTypes
<1>7. row' = row /\ lease' = lease /\ UNCHANGED <<row, lease>> /\ UNCHANGED <<control, up, history>>
  OBVIOUS
<1>8. /\ row' \in Run /\ row'.status # "absent" /\ Sound(row', swept)
      /\ lease' \in [owner : Proc \cup {None}, live : BOOLEAN]
  BY <1>6, <1>7
<1>9. q.pc # "idle" /\ q.pc \notin Steady /\ q.pc \notin Owning
  BY <1>2, <1>5
<1> QED BY <1>2, <1>3, <1>4, <1>5, <1>7, <1>8, <1>9, CallKeeps

LEMMA ResumeKeeps ==
  ASSUME RunInv, NEW p \in Proc, Callable(p), NEW e \in Task, Resume(e, p)
  PROVE  RunInv'
<1>1. row \in Run /\ Sound(row, swept)
  BY DEF RunInv, GlobalTypes
<1> QED BY <1>1, ReaderKeeps DEF Resume

\* Taking back every step from one on takes back what they justify.
LEMMA RestartAgentKeeps ==
  ASSUME RunInv, NEW p \in Proc, Callable(p), NEW e \in Task, NEW s \in Step,
         RestartAgent(e, p, s)
  PROVE  RunInv'
<1> DEFINE S == s..N
           st == Mark(row.steps, S, "pending")
           b == [status |-> "interrupted", steps |-> st]
<1>1. row \in Run /\ Sound(row, swept) /\ row.steps \in Steps
  BY DEF RunInv, GlobalTypes, Run
<1>2. /\ st \in Steps
      /\ \A k \in Step : st[k] = IF k \in S THEN "pending" ELSE row.steps[k]
  <2> HIDE DEF S
  <2> QED BY <1>1, MarkIs DEF StepStatus
<1> HIDE DEF st
<1>3. \A k \in Step : st[k] = IF s <= k THEN "pending" ELSE row.steps[k]
  BY <1>2, DagAssumption DEF Step
<1>4. b \in Run /\ b.status = "interrupted" /\ b.steps = st
  BY <1>2 DEF Run, RunStatus
<1>5. Sound(b, swept)
  <2> SUFFICES ASSUME Topological
      PROVE  Met(st) /\ (swept = "nothing" => Justified(st))
    BY <1>4 DEF Sound
  <2>1. ASSUME NEW k \in Step, st[k] # "pending", NEW d \in Needs[k]
        PROVE  d \in Step /\ st[k] = row.steps[k] /\ st[d] = row.steps[d]
    <3>1. d \in Step /\ d < k /\ d \in Nat /\ k \in Nat /\ s \in Nat /\ ~(s <= k)
      BY <1>3, <2>1, StepFacts DEF Topological
    <3>2. ~(s <= d)
      BY <3>1
    <3> QED BY <1>3, <3>1, <3>2
  <2>2. Met(row.steps) /\ (swept = "nothing" => Justified(row.steps))
    BY <1>1 DEF Sound
  <2>3. ASSUME NEW k \in Step, st[k] \in {"running", "completed"}, NEW d \in Needs[k]
        PROVE  st[d] = "completed" \/ (st[d] \in Settled /\ d \in Tolerant)
    BY <2>1, <2>2, <2>3 DEF Met
  <2>4. ASSUME swept = "nothing", NEW c \in Step, st[c] = "cancelled"
        PROVE  \E d \in Needs[c] : Blocking(st, d)
    <3>1. row.steps[c] = "cancelled"
      BY <1>3, <2>4
    <3>2. PICK d \in Needs[c] : Blocking(row.steps, d)
      BY <2>2, <2>4, <3>1 DEF Justified
    <3> QED BY <2>1, <2>4, <3>2 DEF Blocking
  <2> QED BY <2>3, <2>4 DEF Met, Justified
<1>6. /\ NextCall(e) /\ row.status # "absent" /\ ~ActiveAt(p)
      /\ task' = [task EXCEPT ![e] = [Idle EXCEPT !.pc = "restarting", !.at = p, !.base = b]]
      /\ UNCHANGED <<row, control, lease, up, history>>
  BY DEF RestartAgent, st
<1>7. b.status # "absent"
  BY <1>4
<1> HIDE DEF b
<1> QED BY <1>4, <1>5, <1>6, <1>7, ReaderKeeps

-----------------------------------------------------------------------------
(* What stops executions, and what happens to processes and leases.        *)

LEMMA EventIs ==
  ASSUME RunInv, Event
  PROVE  events' \in 0..MaxEvents
BY RunAssumption DEF RunInv, GlobalTypes, Event

LEMMA AbortKeeps ==
  ASSUME RunInv, NEW es \in SUBSET Task, \A e \in es : Active(e), NEW reason \in Reason,
         Abort(es, reason), UNCHANGED <<row, lease>>, control' \in {control, "stop"},
         up' \in [Proc -> {"new", "up", "disposing", "gone"}],
         \A p \in Proc : up[p] \in {"up", "disposing"} => up'[p] \in {"up", "disposing"}
  PROVE  RunInv'
<1> DEFINE aborted == {e \in es : task[e].reason = "none"}
<1>1. /\ GlobalTypes /\ Lodged /\ Sound(row, swept)
      /\ \A f \in Task : Fits(task[f], swept, strayed) /\ Leads(f)
  BY DEF RunInv
<1>2. /\ task' = [e \in Task |-> IF e \in aborted THEN [task[e] EXCEPT !.reason = reason]
                                 ELSE task[e]]
      /\ swept' = IF aborted = {} THEN swept ELSE Swept(reason)
      /\ UNCHANGED <<lapsed, strayed>>
  BY DEF Abort
<1>3. swept' \in {"nothing", "disposal", "other"} /\ (swept' = "nothing" => swept = "nothing")
      /\ (aborted # {} => swept' # "nothing")
  BY <1>1, <1>2 DEF Swept, GlobalTypes
<1>4. events' \in 0..MaxEvents
  BY EventIs DEF Abort
<1>5. \A e \in aborted : e \in Task /\ task[e].pc # "idle"
  BY DEF Active, Executing
<1> HIDE DEF aborted
<1>6. GlobalTypes'
  BY <1>1, <1>2, <1>3, <1>4 DEF GlobalTypes
<1>7. ASSUME NEW f \in Task
      PROVE  /\ Fits(task'[f], swept', strayed')
             /\ task'[f].pc = task[f].pc /\ task'[f].at = task[f].at /\ task'[f].run = task[f].run
  <2>1. CASE f \notin aborted
    <3>1. task'[f] = task[f]
      BY <1>2, <2>1
    <3>2. Fits(task[f], swept', strayed')
      BY <1>1, <1>2, <1>3, FitsKept
    <3> QED BY <3>1, <3>2
  <2>2. CASE f \in aborted
    <3> DEFINE t == task[f]
               q == [t EXCEPT !.reason = reason]
    <3>1. t \in Local /\ task'[f] = q /\ Fits(t, swept', strayed') /\ swept' # "nothing"
      BY <1>1, <1>2, <1>3, <2>2, FitsKept, Now
    <3>2. /\ q \in Local /\ q.pc = t.pc /\ q.at = t.at /\ q.base = t.base /\ q.run = t.run
          /\ q.todo = t.todo /\ q.calls = t.calls /\ q.lanes = t.lanes
      BY <3>1 DEF Local
    <3> HIDE DEF q
    <3>3. Typed(q) /\ Sound(q.base, swept') /\ Sound(q.run, swept') /\ Stepped(q)
          /\ (Topological => Clear(q))
      BY <3>1, <3>2 DEF Fits, Typed, Stepped, Clear
    <3>4. Placed(q, swept', strayed')
      BY <3>1, <3>2 DEF Fits, Placed, Busy, Spare
    <3> QED BY <3>1, <3>2, <3>3, <3>4 DEF Fits
  <2> QED BY <2>1, <2>2
<1>8. Lodged'
  BY <1>1, <1>7 DEF Lodged, Alive, Busy
<1>9. ASSUME NEW f \in Task  PROVE Leads(f)'
  BY <1>1, <1>2, <1>7 DEF Leads, Mirrors
<1>10. Sound(row', swept')
  BY <1>1, <1>3 DEF Sound
<1> QED BY <1>6, <1>7, <1>8, <1>9, <1>10 DEF RunInv

\* Nothing changes for a call, unless its process is over.
LEMMA WorldKeeps ==
  ASSUME RunInv, GlobalTypes', Sound(row', swept'), row'.status = "absent" => row.status = "absent",
         swept' = "nothing" => swept = "nothing",
         \A f \in Task : task[f].pc = "idle" => task'[f] = task[f],
         \A f \in Task :
           \/ task'[f] = Over
           \/ /\ task'[f] = task[f]
              /\ task[f].at \in strayed => task[f].at \in strayed'
              /\ Busy(task[f]) => up'[task[f].at] \in {"up", "disposing"}
              /\ task[f].pc \in Owning /\ task[f].at \notin lapsed' \cup strayed' =>
                   task[f].at \notin lapsed \cup strayed /\ lease' = lease /\ row' = row
  PROVE  RunInv'
<1>1. /\ GlobalTypes /\ Lodged
      /\ \A f \in Task : Fits(task[f], swept, strayed) /\ Leads(f)
  BY DEF RunInv
<1>2. Lodged'
  BY <1>1, OverIs DEF Lodged, Alive
<1>3. ASSUME NEW f \in Task  PROVE Fits(task'[f], swept', strayed') /\ Leads(f)'
  <2>1. CASE task'[f] = Over
    BY <2>1, RestFits, OverIs DEF Leads
  <2>2. CASE task'[f] # Over
    <3>1. /\ task'[f] = task[f]
          /\ task[f].at \in strayed => task[f].at \in strayed'
          /\ task[f].pc \in Owning /\ task[f].at \notin lapsed' \cup strayed' =>
               task[f].at \notin lapsed \cup strayed /\ lease' = lease /\ row' = row
      BY <2>2
    <3>2. Fits(task[f], swept', strayed')
      BY <1>1, <3>1, FitsKept
    <3>3. Leads(f)'
      BY <1>1, <3>1 DEF Leads, Owning
    <3> QED BY <3>1, <3>2, <3>3
  <2> QED BY <2>1, <2>2
<1> QED BY <1>2, <1>3 DEF RunInv

\* Whom a step takes the lease from has to be one that does not need it.
LEMMA LeaseOf ==
  ASSUME RunInv, NEW f \in Task, task[f].pc \in Owning, task[f].at \notin lapsed \cup strayed
  PROVE  /\ lease = Held(task[f].at) /\ lease.owner = task[f].at /\ lease.live
         /\ task[f].at \in Proc /\ Alive(task[f].at)
<1>1. Busy(task[f])
  BY DEF Busy, Owning, Steady
<1>2. lease = Held(task[f].at)
  BY DEF RunInv, Leads
<1> QED BY <1>1, <1>2, Now DEF Held

LEMMA StillKeeps ==
  ASSUME RunInv, UNCHANGED <<row, lease, up, task, lapsed, strayed, swept>>,
         control' \in {"run", "pause", "stop"}, events' = events
  PROVE  RunInv'
<1>1. GlobalTypes /\ Sound(row, swept) /\ Lodged
  BY DEF RunInv
<1>2. GlobalTypes'
  BY <1>1 DEF GlobalTypes
<1>3. \A f \in Task : Busy(task[f]) => up'[task[f].at] \in {"up", "disposing"}
  BY <1>1 DEF Lodged, Alive
<1> QED BY <1>1, <1>2, <1>3, WorldKeeps

LEMMA RenewKeeps ==
  ASSUME RunInv, NEW p \in Proc, Renew(p)
  PROVE  RunInv'
<1>1. GlobalTypes /\ Sound(row, swept) /\ Lodged
  BY DEF RunInv
<1>2. MayAcquire(p) /\ lease' = Held(p) /\ UNCHANGED <<row, control, up, task, events, lapsed, strayed, swept>>
  BY DEF Renew, history
<1>3. GlobalTypes'
  BY <1>1, <1>2 DEF GlobalTypes, Held
<1>4. ASSUME NEW f \in Task, task[f].pc \in Owning, task[f].at \notin lapsed \cup strayed
      PROVE  lease' = lease
  BY <1>2, <1>4, LeaseOf, RunAssumption DEF MayAcquire
<1>5. \A f \in Task : Busy(task[f]) => up'[task[f].at] \in {"up", "disposing"}
  BY <1>1, <1>2 DEF Lodged, Alive
<1> QED BY <1>1, <1>2, <1>3, <1>4, <1>5, WorldKeeps

LEMMA BootKeeps ==
  ASSUME RunInv, NEW p \in Proc, Boot(p)
  PROVE  RunInv'
<1>1. GlobalTypes /\ Sound(row, swept) /\ Lodged
  BY DEF RunInv
<1> DEFINE left == {s \in Step : row.steps[s] = "running"}
           marked == [status |-> "interrupted", steps |-> Mark(row.steps, left, "interrupted")]
<1>2. /\ up[p] = "new" /\ up' = [up EXCEPT ![p] = "up"]
      /\ row' = row \/ (row.status \in InFlight /\ ~lease.live /\ row' = marked)
      /\ lease' = IF lease.live THEN lease ELSE NoLease
      /\ lease.live => row' = row
      /\ UNCHANGED <<control, task, events, lapsed, strayed, swept>>
  BY DEF Boot, history
<1>3. row' \in Run /\ Sound(row', swept') /\ (row'.status = "absent" => row.status = "absent")
  <2>1. CASE row' = row
    BY <1>1, <1>2, <2>1 DEF GlobalTypes
  <2>2. CASE row' = marked
    <3>1. row \in Run /\ row.steps \in Steps
      BY <1>1 DEF GlobalTypes, Run
    <3>2. /\ Mark(row.steps, left, "interrupted") \in Steps
          /\ \A s \in Step : Mark(row.steps, left, "interrupted")[s] =
                               IF s \in left THEN "interrupted" ELSE row.steps[s]
      <4> HIDE DEF left
      <4> QED BY <3>1, MarkIs DEF StepStatus
    <3>3. /\ marked \in Run /\ marked.status = "interrupted"
          /\ \A s \in Step : marked.steps[s] = IF s \in left THEN "interrupted" ELSE row.steps[s]
      BY <3>2 DEF Run, RunStatus
    <3> HIDE DEF marked
    <3>4. \A s \in Step : \/ marked.steps[s] = row.steps[s]
                          \/ /\ row.steps[s] \notin Settled
                             /\ marked.steps[s] \notin {"running", "completed"}
      BY <3>3 DEF Settled
    <3>5. Sound(marked, swept)
      BY <1>1, <3>1, <3>3, <3>4, SoundKept
    <3> QED BY <1>2, <2>2, <3>3, <3>5
  <2> QED BY <1>2, <2>1, <2>2
<1>4. GlobalTypes'
  BY <1>1, <1>2, <1>3 DEF GlobalTypes, NoLease
<1>5. ASSUME NEW f \in Task, task[f].pc \in Owning, task[f].at \notin lapsed \cup strayed
      PROVE  lease' = lease /\ row' = row
  BY <1>2, <1>5, LeaseOf
<1>6. \A f \in Task : Busy(task[f]) => up'[task[f].at] \in {"up", "disposing"}
  BY <1>1, <1>2 DEF Lodged, Alive, GlobalTypes
<1> QED BY <1>1, <1>2, <1>3, <1>4, <1>5, <1>6, WorldKeeps

\* A process is over.
LEMMA LeaveKeeps ==
  ASSUME RunInv, NEW p \in Proc, Leave(p), up' = [up EXCEPT ![p] = "gone"],
         lease' = lease \/ (lease.owner = p /\ lease' = NoLease),
         UNCHANGED <<row, control, events>>
  PROVE  RunInv'
<1>1. GlobalTypes /\ Sound(row, swept) /\ Lodged
  BY DEF RunInv
<1>2. /\ task' = [e \in Task |-> IF task[e].at = p THEN Over ELSE task[e]]
      /\ lapsed' = lapsed \ {p} /\ strayed' = strayed \ {p} /\ swept' = swept
  BY DEF Leave
<1>3. GlobalTypes'
  <2>1. DOMAIN task' = Task /\ task' = [e \in Task |-> task'[e]]
    BY <1>2
  <2>2. lease' \in [owner : Proc \cup {None}, live : BOOLEAN]
    <3>1. NoLease \in [owner : Proc \cup {None}, live : BOOLEAN]
      BY DEF NoLease
    <3> QED BY <1>1, <3>1 DEF GlobalTypes
  <2>3. up' \in [Proc -> {"new", "up", "disposing", "gone"}]
    BY <1>1 DEF GlobalTypes
  <2>4. lapsed' \subseteq Proc /\ strayed' \subseteq Proc
    BY <1>1, <1>2 DEF GlobalTypes
  <2> QED BY <1>1, <1>2, <2>1, <2>2, <2>3, <2>4 DEF GlobalTypes
<1>4. ASSUME NEW f \in Task, task[f].at # p, task[f].pc \in Owning,
             task[f].at \notin lapsed \cup strayed
      PROVE  lease' = lease
  BY <1>4, LeaseOf
<1>5. \A f \in Task : task[f].at # p /\ Busy(task[f]) => up'[task[f].at] \in {"up", "disposing"}
  BY <1>1 DEF Lodged, Alive, GlobalTypes
<1>6. \A f \in Task : task[f].pc = "idle" => task[f].at # p
  BY <1>1, RunAssumption DEF Lodged
<1>7. ASSUME NEW f \in Task
      PROVE  task'[f] = IF task[f].at = p THEN Over ELSE task[f]
  BY <1>2
<1>8. Sound(row', swept')
  BY <1>1, <1>2
<1> QED BY <1>2, <1>3, <1>4, <1>5, <1>6, <1>7, <1>8, WorldKeeps

LEMMA CrashKeeps ==
  ASSUME RunInv, NEW p \in Proc, Crash(p) \/ Disposed(p)
  PROVE  RunInv'
<1>1. /\ Leave(p) /\ up' = [up EXCEPT ![p] = "gone"]
      /\ lease' = lease \/ (lease.owner = p /\ lease' = NoLease)
      /\ UNCHANGED <<row, control, events>>
  BY DEF Crash, Disposed
<1> QED BY <1>1, LeaveKeeps

LEMMA ExpireKeeps ==
  ASSUME RunInv, Expire
  PROVE  RunInv'
<1>1. GlobalTypes /\ Sound(row, swept) /\ Lodged
  BY DEF RunInv
<1>2. /\ lease' = [lease EXCEPT !.live = FALSE] /\ lapsed' = lapsed \cup Slow
      /\ UNCHANGED <<row, control, up, task, strayed, swept>>
  BY DEF Expire
<1>3. events' \in 0..MaxEvents
  BY <1>1, EventIs DEF Expire, GlobalTypes
<1>4. Slow \subseteq Proc
  BY DEF Slow, Alive
<1>5. GlobalTypes'
  BY <1>1, <1>2, <1>3, <1>4 DEF GlobalTypes
<1>6. ASSUME NEW f \in Task, task[f].pc \in Owning, task[f].at \notin lapsed \cup strayed
      PROVE  task[f].at \in Slow
  <2>1. lease.owner = task[f].at /\ Alive(task[f].at)
    BY <1>6, LeaseOf
  <2>2. task[f].pc # "done"
    BY <1>6 DEF Owning, Steady
  <2> QED BY <2>1, <2>2 DEF Slow
<1>7. \A f \in Task : Busy(task[f]) => up'[task[f].at] \in {"up", "disposing"}
  BY <1>1, <1>2 DEF Lodged, Alive
<1> QED BY <1>1, <1>2, <1>5, <1>6, <1>7, WorldKeeps

LEMMA CallsKeep ==
  ASSUME RunInv, NEW p \in Proc, Calls(p)
  PROVE  RunInv'
<1>1. Callable(p) /\ up[p] = "up" /\ GlobalTypes
  BY DEF Calls, Callable, RunInv
<1>2. ActiveTasks(p) \in SUBSET Task /\ \A e \in ActiveTasks(p) : Active(e)
  BY DEF ActiveTasks
<1>3. ASSUME NEW e \in Task, StartWorkflow(e, p) \/ Resume(e, p)  PROVE RunInv'
  BY <1>1, <1>3, StartWorkflowKeeps, ResumeKeeps
<1>4. ASSUME NEW e \in Task, NEW s \in Step, RestartAgent(e, p, s)  PROVE RunInv'
  BY <1>1, <1>4, RestartAgentKeeps
<1>5. CASE ResumeActive(p) \/ Pause(p)
  <2>1. /\ UNCHANGED <<row, lease, up, task, lapsed, strayed, swept>>
        /\ control' \in {"run", "pause", "stop"} /\ events' = events
    BY <1>5 DEF ResumeActive, Pause, history
  <2> QED BY <2>1, StillKeeps
<1>6. ASSUME NEW reason \in {"stopped", "cancelled"}, Halt(p, reason)  PROVE RunInv'
  <2>1. /\ reason \in Reason /\ Abort(ActiveTasks(p), reason) /\ UNCHANGED <<row, lease>>
        /\ control' \in {control, "stop"} /\ up' = up
    BY <1>6 DEF Halt, Reason
  <2>2. /\ up' \in [Proc -> {"new", "up", "disposing", "gone"}]
        /\ \A o \in Proc : up[o] \in {"up", "disposing"} => up'[o] \in {"up", "disposing"}
    BY <1>1, <2>1 DEF GlobalTypes
  <2> QED BY <1>2, <2>1, <2>2, AbortKeeps
<1>7. CASE Dispose(p)
  <2>1. /\ "disposed" \in Reason /\ Abort(ActiveTasks(p), "disposed") /\ UNCHANGED <<row, lease>>
        /\ control' \in {control, "stop"} /\ up' = [up EXCEPT ![p] = "disposing"]
    BY <1>7 DEF Dispose, Reason
  <2>2. /\ up' \in [Proc -> {"new", "up", "disposing", "gone"}]
        /\ \A o \in Proc : up[o] \in {"up", "disposing"} => up'[o] \in {"up", "disposing"}
    BY <1>1, <2>1 DEF GlobalTypes
  <2> QED BY <1>2, <2>1, <2>2, AbortKeeps
<1>8. CASE Renew(p)
  BY <1>8, RenewKeeps
<1> QED BY <1>3, <1>4, <1>5, <1>6, <1>7, <1>8 DEF Calls

LEMMA OneAborts ==
  ASSUME RunInv, NEW e \in Task, CallerAbort(e) \/ Timeout(e)
  PROVE  RunInv'
<1>1. PICK reason \in Reason :
        Abort({e}, reason) /\ Active(e) /\ UNCHANGED <<row, control, lease, up>>
  BY DEF CallerAbort, Timeout, Reason
<1>2. /\ {e} \in SUBSET Task /\ \A f \in {e} : Active(f)
      /\ UNCHANGED <<row, lease>> /\ control' \in {control, "stop"}
  BY <1>1
<1>3. /\ up' \in [Proc -> {"new", "up", "disposing", "gone"}]
      /\ \A o \in Proc : up[o] \in {"up", "disposing"} => up'[o] \in {"up", "disposing"}
  BY <1>1 DEF RunInv, GlobalTypes
<1> QED BY <1>1, <1>2, <1>3, AbortKeeps

-----------------------------------------------------------------------------
(* The invariant and what follows from it.                                 *)

LEMMA InitRunInv == Init => RunInv
<1> SUFFICES ASSUME Init  PROVE RunInv
  OBVIOUS
<1>1. /\ row = Absent /\ control = "run" /\ lease = NoLease /\ up = [p \in Proc |-> "new"]
      /\ task = [e \in Task |-> Idle] /\ lapsed = {} /\ strayed = {} /\ swept = "nothing"
      /\ events = 0
  BY DEF Init
<1>2. NoLease \in [owner : Proc \cup {None}, live : BOOLEAN]
  BY DEF NoLease
<1>3. GlobalTypes
  BY <1>1, <1>2, AbsentSound, RunAssumption DEF GlobalTypes
<1>4. Idle.pc = "idle" /\ Idle.at = None
  BY DEF Idle
<1>5. Lodged
  BY <1>1, <1>4 DEF Lodged, Busy
<1>6. \A e \in Task : Fits(task[e], swept, strayed) /\ Leads(e)
  BY <1>1, <1>4, RestFits DEF Leads, Owning, Steady
<1> QED BY <1>1, <1>3, <1>5, <1>6, AbsentSound DEF RunInv

LEMMA NextRunInv == RunInv /\ [Next]_vars => RunInv'
<1> SUFFICES ASSUME RunInv, [Next]_vars  PROVE RunInv'
  OBVIOUS
<1>1. ASSUME NEW p \in Proc, Calls(p) \/ Boot(p) \/ Crash(p) \/ Disposed(p)  PROVE RunInv'
  BY <1>1, CallsKeep, BootKeeps, CrashKeeps
<1>2. ASSUME NEW e \in Task, Executes(e) \/ CallerAbort(e) \/ Timeout(e)  PROVE RunInv'
  BY <1>2, ExecutesKeeps, OneAborts
<1>3. CASE Expire
  BY <1>3, ExpireKeeps
<1>4. CASE UNCHANGED vars
  <2>1. UNCHANGED <<row, lease, up, task, lapsed, strayed, swept, control, events>>
    BY <1>4 DEF vars
  <2> QED BY <2>1, StillKeeps DEF RunInv, GlobalTypes
<1> QED BY <1>1, <1>2, <1>3, <1>4 DEF Next

\* Whatever the processes, the agents and the clock do, every copy of the run is sound,
\* every call is where its lanes, its reason and its copy say, and an execution that
\* neither lost its heartbeats nor has a stray lane beside it has the lease and the row
\* (the invariant of the whole of RunService.execute and runWorkflow).
THEOREM RunInvariant == Spec => []RunInv
<1> QED BY InitRunInv, NextRunInv, PTL DEF Spec

\* The row, the lease and every call keep their types; no lane is ever counted below none,
\* though lanes that throw leave one by one (mapLimit's lanes, the row's columns).
THEOREM RunTypeCorrect == Spec => []TypeOK
<1>1. RunInv => TypeOK
  <2> SUFFICES ASSUME RunInv  PROVE TypeOK
    OBVIOUS
  <2>1. \A e \in Task : task[e] \in Local
    BY Now
  <2> QED BY <2>1 DEF RunInv, GlobalTypes, TypeOK
<1> QED BY <1>1, RunInvariant, PTL

\* Two processes never have agents at work for one run, as long as the heartbeats of the
\* one that drives it go on and no lane of an earlier run of its own does: the lease of
\* every other is refused (claimLease, saveRun).
THEOREM DriversHaveTheLease == Spec => []DrivesUnderLease
<1>1. RunInv => DrivesUnderLease
  BY DEF RunInv, Leads, DrivesUnderLease, Driving, Owning, Steady
<1> QED BY <1>1, RunInvariant, PTL

\* What an execution reads of its own copy is what the file says, between any two of its
\* saves, whoever boots, resumes, restarts or stops the run meanwhile (saveRun,
\* restartAgent, initialize).
THEOREM RowIsTheCopy == Spec => []RowIsDrivers
<1>1. RunInv => RowIsDrivers
  BY DEF RunInv, Leads, RowIsDrivers, Mirrors, Steady
<1> QED BY <1>1, RunInvariant, PTL

\* For a definition that lists each step after its needs, no step is under way or completed
\* before what it needs, in the row or in any copy of it, through crashes, resumes and
\* restarts of a step in any order (runWorkflow's level, restartAgent's slice).
THEOREM StepsHaveTheirNeeds == Spec => []NeedsMet
<1>1. RunInv => NeedsMet
  BY DEF RunInv, NeedsMet, Fits, Sound
<1> QED BY <1>1, RunInvariant, PTL

\* For every definition without cycles, in whatever order it lists its steps, a level finds
\* a step to start whatever statuses the run was resumed with (cancelBlockedSteps and the
\* error "Workflow cannot make progress").
THEOREM LevelsProgress == Spec => []NeverStuck
<1>1. RunInv => NeverStuck
  <2> SUFFICES ASSUME RunInv, NEW e \in Task, task[e].pc = "level"
               PROVE  LET st == CancelBlocked(task[e].run.steps)
                      IN Pending(st) = {} \/ Ready(st) # {}
    BY DEF NeverStuck
  <2> DEFINE old == task[e].run.steps
             st == CancelBlocked(old)
  <2>1. old \in Steps /\ Stepped(task[e]) /\ task[e].calls = {}
    BY Now, AtRest DEF Fits, Before
  <2>2. \A s \in Step : old[s] \in Settled \cup {"pending"}
    <3>1. \A s \in Step : old[s] \in StepStatus /\ old[s] # "interrupted" /\ old[s] # "running"
      BY <2>1 DEF Stepped, Steady, Steps
    <3> QED BY <3>1 DEF StepStatus, Settled
  <2>3. /\ st \in Steps
        /\ \A s \in Step : st[s] = IF s \in Blocked(old) THEN "cancelled" ELSE old[s]
    BY <2>1, CancelBlockedIs
  <2> HIDE DEF st
  <2>4. \A s \in Step : st[s] \in Settled \cup {"pending"}
    BY <2>2, <2>3 DEF Settled
  <2>5. Pending(st) = {} \/ Ready(st) # {}
    BY <2>3, <2>4, ReadyExists
  <2> QED BY <2>5 DEF st
<1> QED BY <1>1, RunInvariant, PTL

\* A run of such a definition that is recorded completed has carried out every step, as long
\* as nothing made an execution give up on steps, across any number of crashes, lost leases,
\* pauses, resumes and restarts of steps (runWorkflow's reset, initialize, restartAgent).
THEOREM CompletedRunsAreDone == Spec => []CompletedMeansDone
<1>1. RunInv => CompletedMeansDone
  BY DEF RunInv, CompletedMeansDone, Sound, AllDone
<1> QED BY <1>1, RunInvariant, PTL
=============================================================================
