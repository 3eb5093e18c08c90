--------------------------- MODULE FleetRunProofs ---------------------------
(***************************************************************************)
(* Theorems about the calls of fleet runs, for any fleet, any modes and    *)
(* assignments, any number of runs, executions and crashes, and any        *)
(* limits on lanes and calls.                                              *)
(***************************************************************************)
EXTENDS FleetRun, SequenceTheorems, TLAPS

-----------------------------------------------------------------------------
(* Programs.                                                               *)

\* Stages follow each other, and a call that may end the run has its stage for itself.
Tidy(calls) ==
  /\ calls \in Seq(CallRecord)
  /\ \A i, j \in 1..Len(calls) : i < j => calls[i].stage <= calls[j].stage
  /\ \A i, j \in 1..Len(calls) :
       i # j /\ ~calls[i].optional => calls[i].stage # calls[j].stage

Between(calls, lo, hi) == \A i \in 1..Len(calls) : calls[i].stage \in lo..hi

\* What is needed of a program: those of scripts' parallels and of modules are one stage.
Shape(p) ==
  /\ p.calls \in Seq(CallRecord)
  /\ \A i, j \in 1..Len(p.calls) : i < j => p.calls[i].stage <= p.calls[j].stage
  /\ IF p.mode \in {"parallel", "module"}
       THEN \A i \in 1..Len(p.calls) : p.calls[i].stage = 1
       ELSE Tidy(p.calls)

LEMMA Members ==
  /\ Lead \in Member /\ Workers \subseteq Member
  /\ Worker \in Seq(Member) /\ \A w \in Workers : w \in Member
  /\ \A ts \in Tasks \cup {<<>>} : ts \in Seq(Member)
<1>1. Workers \subseteq Member /\ Lead \in Member
  BY DEF Member
<1>2. \A ts : ts \in Seq(Workers) => ts \in Seq(Member)
  <2> TAKE ts
  <2> HAVE ts \in Seq(Workers)
  <2>1. ts \in [1..Len(ts) -> Workers] /\ Len(ts) \in Nat
    BY LenProperties
  <2>2. ts \in [1..Len(ts) -> Member]
    BY <1>1, <2>1
  <2> QED BY <2>1, <2>2
<1>3. <<>> \in Seq(Member)
  BY EmptySeq
<1> QED BY <1>1, <1>2, <1>3, FleetAssumption

LEMMA TidyInTurn ==
  ASSUME NEW ms \in Seq(Member), NEW s \in Nat
  PROVE  /\ Tidy(InTurn(ms, s)) /\ Len(InTurn(ms, s)) = Len(ms)
         /\ Between(InTurn(ms, s), s, s + Len(ms) - 1)
<1> DEFINE c == InTurn(ms, s)
<1>1. Len(ms) \in Nat /\ DOMAIN ms = 1..Len(ms) /\ \A j \in 1..Len(ms) : ms[j] \in Member
  BY LenProperties, ElementOfSeq
<1>2. \A j \in 1..Len(ms) :
        c[j].stage = s + j - 1 /\ c[j] \in CallRecord
  BY <1>1 DEF InTurn, Call, CallRecord
<1>3. c \in [1..Len(ms) -> CallRecord]
  BY <1>1, <1>2 DEF InTurn, Call
<1>4. c \in Seq(CallRecord) /\ Len(c) = Len(ms)
  <2> HIDE DEF c
  <2>1. c \in Seq(CallRecord)
    BY <1>1, <1>3
  <2> QED BY <1>1, <1>3, <2>1, LenProperties
<1> HIDE DEF c
<1>5. Tidy(c) /\ Between(c, s, s + Len(ms) - 1)
  BY <1>1, <1>2, <1>4 DEF Tidy, Between
<1> QED BY <1>4, <1>5 DEF c

LEMMA LanesAre ==
  ASSUME NEW ms \in Seq(Member), NEW s \in Nat, NEW o \in BOOLEAN
  PROVE  /\ Lanes(ms, s, o) \in Seq(CallRecord) /\ Len(Lanes(ms, s, o)) = Len(ms)
         /\ \A j \in 1..Len(ms) : Lanes(ms, s, o)[j].stage = s /\ Lanes(ms, s, o)[j].optional = o
<1> DEFINE c == Lanes(ms, s, o)
<1>1. Len(ms) \in Nat /\ DOMAIN ms = 1..Len(ms) /\ \A j \in 1..Len(ms) : ms[j] \in Member
  BY LenProperties, ElementOfSeq
<1>2. \A j \in 1..Len(ms) :
        c[j].stage = s /\ c[j].optional = o /\ c[j] \in CallRecord
  BY <1>1 DEF Lanes, Call, CallRecord
<1>3. c \in [1..Len(ms) -> CallRecord]
  BY <1>1, <1>2 DEF Lanes, Call
<1>4. c \in Seq(CallRecord) /\ Len(c) = Len(ms)
  <2> HIDE DEF c
  <2>1. c \in Seq(CallRecord)
    BY <1>1, <1>3
  <2> QED BY <1>1, <1>3, <2>1, LenProperties
<1> QED BY <1>2, <1>4

LEMMA TidyLanes ==
  ASSUME NEW ms \in Seq(Member), NEW s \in Nat
  PROVE  Tidy(Lanes(ms, s, TRUE)) /\ Between(Lanes(ms, s, TRUE), s, s)
<1> DEFINE c == Lanes(ms, s, TRUE)
<1>1. TRUE \in BOOLEAN
  OBVIOUS
<1>2. /\ c \in Seq(CallRecord) /\ Len(c) = Len(ms) /\ Len(ms) \in Nat
      /\ \A j \in 1..Len(c) : c[j].stage = s /\ c[j].optional = TRUE
  BY <1>1, LanesAre, LenProperties
<1> HIDE DEF c
<1>3. Tidy(c) /\ Between(c, s, s)
  BY <1>2 DEF Tidy, Between
<1> QED BY <1>3 DEF c

LEMMA TidyConcat ==
  ASSUME NEW a, NEW b, NEW lo \in Nat, NEW mid \in Nat, NEW top \in Nat, NEW hi \in Nat,
         Tidy(a), Between(a, lo, mid), Tidy(b), Between(b, top, hi),
         mid < top, lo <= top, mid <= hi
  PROVE  Tidy(a \o b) /\ Between(a \o b, lo, hi)
<1> DEFINE c == a \o b
<1>1. /\ c \in Seq(CallRecord) /\ Len(c) = Len(a) + Len(b) /\ Len(a) \in Nat /\ Len(b) \in Nat
      /\ \A i \in 1..Len(c) : c[i] = IF i <= Len(a) THEN a[i] ELSE b[i - Len(a)]
  BY ConcatProperties, LenProperties DEF Tidy
<1>2. \A i \in 1..Len(c) : i <= Len(a) => i \in 1..Len(a) /\ c[i] = a[i]
  BY <1>1
<1>3. \A i \in 1..Len(c) : ~(i <= Len(a)) => i - Len(a) \in 1..Len(b) /\ c[i] = b[i - Len(a)]
  BY <1>1
<1>4. \A i \in 1..Len(c) : c[i].stage \in lo..hi
  BY <1>1, <1>2, <1>3 DEF Between
<1>5. ASSUME NEW i \in 1..Len(c), NEW j \in 1..Len(c), i < j
      PROVE  c[i].stage <= c[j].stage
  <2>1. CASE j <= Len(a)
    BY <1>1, <1>2, <1>5, <2>1 DEF Tidy
  <2>2. CASE i <= Len(a) /\ ~(j <= Len(a))
    BY <1>1, <1>2, <1>3, <2>2 DEF Between
  <2>3. CASE ~(i <= Len(a))
    <3>1. ~(j <= Len(a)) /\ i - Len(a) < j - Len(a)
      BY <1>1, <1>5, <2>3
    <3> QED BY <1>3, <2>3, <3>1 DEF Tidy
  <2> QED BY <2>1, <2>2, <2>3
<1>6. ASSUME NEW i \in 1..Len(c), NEW j \in 1..Len(c), i # j, ~c[i].optional
      PROVE  c[i].stage # c[j].stage
  <2>1. CASE i <= Len(a) /\ j <= Len(a)
    BY <1>2, <1>6, <2>1 DEF Tidy
  <2>2. CASE i <= Len(a) /\ ~(j <= Len(a))
    BY <1>2, <1>3, <2>2 DEF Between
  <2>3. CASE ~(i <= Len(a)) /\ j <= Len(a)
    BY <1>2, <1>3, <2>3 DEF Between
  <2>4. CASE ~(i <= Len(a)) /\ ~(j <= Len(a))
    <3>1. i - Len(a) # j - Len(a)
      BY <1>1, <1>6
    <3> QED BY <1>3, <1>6, <2>4, <3>1 DEF Tidy
  <2> QED BY <2>1, <2>2, <2>3, <2>4
<1> QED BY <1>1, <1>4, <1>5, <1>6 DEF Tidy, Between

\* Every program a mode may make has the shape the runner relies on.
LEMMA ProgramsShaped ==
  ASSUME NEW p, p.mode \in Mode, p.calls \in Programs(p.mode)
  PROVE  Shape(p)
<1> DEFINE mode == p.mode
           calls == p.calls
<1>0. mode \in {"lead", "pair", "handoff", "round", "council", "orchestrate", "jury",
                "pipeline", "parallel", "module"}
  BY FleetAssumption
<1>1. ASSUME Tidy(calls), mode \notin {"parallel", "module"}
      PROVE  Shape(p)
  BY <1>1 DEF Shape, Tidy
<1>2. Worker[1] \in Member
  BY FleetAssumption, ElementOfSeq, LenProperties, EmptySeq, Members
<1>3. ASSUME NEW x \in Member  PROVE <<x>> \in Seq(Member) /\ Len(<<x>>) = 1
  OBVIOUS
<1>4. ASSUME NEW s \in Nat
      PROVE  Tidy(InTurn(<<Lead>>, s)) /\ Between(InTurn(<<Lead>>, s), s, s)
  <2>1. s + Len(<<Lead>>) - 1 = s
    OBVIOUS
  <2> QED BY <2>1, <1>3, Members, TidyInTurn
<1>4a. 1 \in Nat /\ 2 \in Nat /\ 3 \in Nat /\ 1 < 2 /\ 2 < 3 /\ 1 <= 1 /\ 1 <= 2 /\ 1 <= 3 /\ 2 <= 3
  OBVIOUS
<1>4b. ASSUME NEW ms \in Seq(Member), NEW s \in Nat
       PROVE  Tidy(Lanes(ms, s, TRUE)) /\ Between(Lanes(ms, s, TRUE), s, s)
  BY TidyLanes
<1>5. CASE mode = "lead"
  BY <1>1, <1>4, <1>5 DEF Programs
<1>6. CASE mode = "pair"
  <2>1. calls = InTurn(<<Lead, Worker[1], Lead>>, 1)
    BY <1>6 DEF Programs
  <2>2. <<Lead, Worker[1], Lead>> \in Seq(Member)
    BY <1>2, Members
  <2> QED BY <1>1, <1>6, <2>1, <2>2, TidyInTurn
<1>7. CASE mode = "handoff"
  <2>1. PICK w \in Workers : calls = InTurn(<<Lead, w, Lead>>, 1)
    BY <1>7 DEF Programs
  <2>2. <<Lead, w, Lead>> \in Seq(Member)
    BY Members
  <2> QED BY <1>1, <1>7, <2>1, <2>2, TidyInTurn
<1>8. CASE mode = "round"
  <2>1. calls = InTurn(<<Lead>> \o Worker, 1)
    BY <1>8 DEF Programs
  <2>2. <<Lead>> \o Worker \in Seq(Member)
    BY <1>3, Members, ConcatProperties
  <2> QED BY <1>1, <1>8, <2>1, <2>2, TidyInTurn
<1>9. CASE mode = "council"
  <2>1. calls = Lanes(Worker, 1, TRUE) \o InTurn(<<Lead>>, 2)
    BY <1>9 DEF Programs
  <2>2. Tidy(Lanes(Worker, 1, TRUE)) /\ Between(Lanes(Worker, 1, TRUE), 1, 1)
    BY <1>4a, <1>4b, Members
  <2>3. Tidy(InTurn(<<Lead>>, 2)) /\ Between(InTurn(<<Lead>>, 2), 2, 2)
    BY <1>4, <1>4a
  <2>4. Tidy(calls)
    BY <1>4a, <2>1, <2>2, <2>3, TidyConcat, Zenon
  <2> QED BY <1>1, <1>9, <2>4
<1>10. CASE mode = "jury"
  <2>1. Tidy(Lanes(Worker, 1, TRUE)) /\ Between(Lanes(Worker, 1, TRUE), 1, 1)
    BY <1>4a, <1>4b, Members
  <2>2. Tidy(Lanes(Worker, 2, TRUE)) /\ Between(Lanes(Worker, 2, TRUE), 2, 2)
    BY <1>4a, <1>4b, Members
  <2>3. /\ Tidy(InTurn(<<Lead>>, 2)) /\ Between(InTurn(<<Lead>>, 2), 2, 2)
        /\ Tidy(InTurn(<<Lead>>, 3)) /\ Between(InTurn(<<Lead>>, 3), 3, 3)
    BY <1>4, <1>4a
  <2>4. Tidy(Lanes(Worker, 1, TRUE) \o InTurn(<<Lead>>, 2))
    BY <1>4a, <2>1, <2>3, TidyConcat, Zenon
  <2>5. /\ Tidy(Lanes(Worker, 1, TRUE) \o Lanes(Worker, 2, TRUE))
        /\ Between(Lanes(Worker, 1, TRUE) \o Lanes(Worker, 2, TRUE), 1, 2)
    BY <1>4a, <2>1, <2>2, TidyConcat, Zenon
  <2>6. Tidy((Lanes(Worker, 1, TRUE) \o Lanes(Worker, 2, TRUE)) \o InTurn(<<Lead>>, 3))
    BY <1>4a, <2>3, <2>5, TidyConcat, Zenon
  <2> QED BY <1>1, <1>10, <2>4, <2>6 DEF Programs
<1>11. CASE mode = "orchestrate"
  <2>1. PICK ts \in Tasks \cup {<<>>} :
          calls = InTurn(<<Lead>>, 1) \o Lanes(ts, 2, TRUE) \o InTurn(<<Lead>>, 3)
    BY <1>11 DEF Programs
  <2>2. /\ Tidy(InTurn(<<Lead>>, 1)) /\ Between(InTurn(<<Lead>>, 1), 1, 1)
        /\ Tidy(InTurn(<<Lead>>, 3)) /\ Between(InTurn(<<Lead>>, 3), 3, 3)
    BY <1>4, <1>4a
  <2>3. Tidy(Lanes(ts, 2, TRUE)) /\ Between(Lanes(ts, 2, TRUE), 2, 2)
    BY <1>4a, <1>4b, Members
  <2>4. /\ Tidy(InTurn(<<Lead>>, 1) \o Lanes(ts, 2, TRUE))
        /\ Between(InTurn(<<Lead>>, 1) \o Lanes(ts, 2, TRUE), 1, 2)
    BY <1>4a, <2>2, <2>3, TidyConcat, Zenon
  <2>5. Tidy(calls)
    BY <1>4a, <2>1, <2>2, <2>4, TidyConcat, Zenon
  <2> QED BY <1>1, <1>11, <2>5
<1>12. CASE mode = "pipeline"
  <2>1. PICK ts \in Tasks : calls = InTurn(ts, 1)
    BY <1>12 DEF Programs
  <2> QED BY <1>1, <1>12, <2>1, TidyInTurn, Members
<1>13. CASE mode \in {"parallel", "module"}
  <2>1. PICK ts \in Tasks, o \in BOOLEAN : calls = Lanes(ts, 1, o)
    BY <1>13 DEF Programs
  <2> QED BY <1>13, <2>1, LanesAre, Members DEF Shape
<1> QED BY <1>0, <1>5, <1>6, <1>7, <1>8, <1>9, <1>10, <1>11, <1>12, <1>13

LEMMA BudgetNat ==
  ASSUME NEW p, p.mode \in Mode, p.calls \in Seq(CallRecord)
  PROVE  Budget(p) \in Nat
<1>1. Len(Worker) \in Nat /\ Len(p.calls) \in Nat /\ AgentLimit \in Nat
  BY LenProperties, FleetAssumption
<1>2. p.mode \in {"lead", "pair", "handoff", "round", "council", "orchestrate", "jury",
                  "pipeline", "parallel", "module"}
  BY FleetAssumption
<1> QED BY <1>1, <1>2 DEF Budget, Authored

-----------------------------------------------------------------------------
(* The invariant.                                                          *)

RunTypes ==
  /\ prog \in [Run -> {None} \cup [mode : Mode, calls : Seq(CallRecord)]]
  /\ \A r \in Run : prog[r] # None => prog[r].calls \in Programs(prog[r].mode)
  /\ DOMAIN rows = Run
  /\ \A r \in Run : \A k \in DOMAIN rows[r] :
       /\ prog[r] # None /\ k \in 1..Budget(prog[r])
       /\ rows[r][k].status \in {"running", "completed", "failed", "cancelled"}

SessionTypes ==
  /\ saved \in [Key -> Session \cup {None}] /\ sessions \in [Key -> Session \cup {None}]
  /\ kept \subseteq Session /\ cleaning \subseteq Session

ExecTypes ==
  /\ run \in [Exec -> Run \cup {None}] /\ status \in [Exec -> Statuses]
  /\ item \in [Exec -> Seq(Item)] /\ DOMAIN count = Exec /\ DOMAIN prior = Exec
  /\ aborted \subseteq Exec /\ crashes \in 0..MaxCrashes

\* An execution that has started has the calls of its run's program.
Started ==
  \A e \in Exec :
    /\ status[e] = "none" <=> run[e] = None
    /\ run[e] = None => item[e] = <<>> /\ count[e] = 0
    /\ run[e] # None => /\ prog[run[e]] # None
                       /\ Items(e) = 1..Len(Program(e).calls)
                       /\ count[e] \in 0..Budget(Program(e))
                       /\ \A i \in Items(e) : item[e][i].at \in Asking =>
                            item[e][i].index \in 1..Budget(Program(e))

\* But for a module, a call is its own index and is made by the member of the plan.
Planned ==
  /\ \A e \in Exec : run[e] # None /\ Program(e).mode # "module" =>
       \A i \in Items(e) :
         /\ item[e][i].who = Plan(e, i).who
         /\ item[e][i].at \in Asking => item[e][i].index = i
         /\ item[e][i].at \in InProgress => i \in 1..Budget(Program(e))
         /\ item[e][i].at = "threw" => ~Plan(e, i).optional
  /\ \A r \in Run : prog[r] # None /\ prog[r].mode # "module" =>
       \A k \in DOMAIN rows[r] :
         k \in DOMAIN prog[r].calls /\ rows[r][k].who = prog[r].calls[k].who

\* A call is made when the stages before it have settled.
InStages ==
  \A e \in Exec : \A i, j \in Items(e) :
    item[e][i].at \notin {"idle", "lost"} /\ Plan(e, j).stage < Plan(e, i).stage
      => item[e][j].at \in {"done", "failed"}

\* An execution is over when a call threw or all have settled.
Ended ==
  \A e \in Exec :
    /\ status[e] \in {"completed", "failed", "cancelled"} =>
         Threw(e) \/ \A i \in Items(e) : item[e][i].at \in Settled
    /\ status[e] = "dead" => \A i \in Items(e) : item[e][i].at \in Settled \cup {"lost"}

\* A prompt is sent in a session.
InSession == \A e \in Exec : \A i \in Prompting(e) : item[e][i].session \in Session

\* A saved session is of the member, and of the run, it is saved for.
SavedFor ==
  \A k \in Key : saved[k] # None =>
    saved[k][3] = k[1] /\ (k[2] # None => run[saved[k][1]] = k[2])

\* Execution d has the reply to call i.
Got(d, i) == At(d, i, "done")

\* A recorded reply, and one that is reused, answered the prompt it is kept with.
Origins ==
  /\ \A r \in Run : \A k \in DOMAIN rows[r] : rows[r][k].status = "completed" =>
       \E d \in Exec, i \in Position :
         rows[r][k].out = d /\ Got(d, i) /\ rows[r][k].prompt = Prompt(d, i)
  /\ \A e \in Exec : \A i \in Items(e) : item[e][i].at = "done" =>
       \E d \in Exec : item[e][i].out = d /\ Got(d, i) /\ Quotes(d, i) = Quotes(e, i)

\* One execution of a run is running.
OneRunning ==
  \A d, e \in Exec :
    run[d] = run[e] /\ status[d] = "running" /\ status[e] = "running" => d = e

\* Call k of a running execution is answered by the records that it found.
Reusable(e, k) ==
  /\ status[e] = "running" /\ Program(e).mode # "module"
  /\ Coherent(Program(e), prior[e], k)

\* Nobody asks for what a running execution can reuse.
Unasked ==
  \A d, e \in Exec : run[d] = run[e] =>
    \A k \in Items(d) : item[d][k].at \in Asking => ~Reusable(e, k)

\* What can be reused is still recorded.
Recalled ==
  \A e \in Exec : \A n \in Items(e) : Reusable(e, n) =>
    \A k \in 1..n : k \in DOMAIN rows[run[e]] /\ rows[run[e]][k] = prior[e][k]

\* What can be reused is reused.
Reused ==
  \A e \in Exec \ aborted : \A n \in Items(e) : Reusable(e, n) =>
    /\ item[e][n].at \in {"idle", "gate", "done"}
    /\ item[e][n].at = "done" => item[e][n].out = prior[e][n].out


Types == RunTypes /\ ExecTypes /\ Started

\* What the types say of an execution that has started.
LEMMA Programmed ==
  ASSUME Types, NEW e \in Exec, run[e] # None
  PROVE  /\ run[e] \in Run /\ Program(e) = prog[run[e]] /\ Program(e) # None
         /\ Program(e).mode \in Mode /\ Program(e).calls \in Programs(Program(e).mode)
         /\ Program(e).calls \in Seq(CallRecord) /\ Shape(Program(e))
         /\ Budget(Program(e)) \in Nat
         /\ Len(Program(e).calls) \in Nat /\ Items(e) = 1..Len(Program(e).calls)
         /\ Items(e) = DOMAIN Program(e).calls
<1>1. run[e] \in Run /\ Program(e) = prog[run[e]] /\ Program(e) # None
  BY DEF Types, ExecTypes, Started, Program
<1>2. Program(e) \in [mode : Mode, calls : Seq(CallRecord)]
  BY <1>1 DEF Types, RunTypes
<1>3. Program(e).mode \in Mode /\ Program(e).calls \in Seq(CallRecord)
  BY <1>2
<1>4. Program(e).calls \in Programs(Program(e).mode)
  BY <1>1 DEF Types, RunTypes
<1>5. Shape(Program(e)) /\ Budget(Program(e)) \in Nat
  BY <1>3, <1>4, ProgramsShaped, BudgetNat
<1>6. Len(Program(e).calls) \in Nat /\ DOMAIN Program(e).calls = 1..Len(Program(e).calls)
  BY <1>3, LenProperties
<1>7. Items(e) = 1..Len(Program(e).calls)
  BY <1>1 DEF Types, Started
<1> QED BY <1>1, <1>3, <1>4, <1>5, <1>6, <1>7

LEMMA ItemTyped ==
  ASSUME Types, NEW e \in Exec, NEW i \in Items(e)
  PROVE  /\ run[e] # None /\ item[e] \in Seq(Item) /\ item[e][i] \in Item
         /\ i \in Nat /\ i \in 1..Len(item[e]) /\ i \in Position
         /\ Plan(e, i) \in CallRecord
<1>1. item[e] \in Seq(Item)
  BY DEF Types, ExecTypes
<1>2. i \in 1..Len(item[e])
  BY <1>1, LenProperties DEF Items
<1>3. item[e][i] \in Item
  BY <1>1, <1>2, ElementOfSeq
<1>4. run[e] # None
  <2>1. ASSUME run[e] = None  PROVE FALSE
    <3>1. item[e] = <<>>
      BY <2>1 DEF Types, Started
    <3> QED BY <1>2, <3>1, EmptySeq
  <2> QED BY <2>1
<1>5. i \in 1..Len(Program(e).calls) /\ i \in DOMAIN Program(e).calls
  BY <1>4, Programmed
<1>6. i \in Position
  BY <1>4, <1>5, Programmed DEF Position
<1>7. Plan(e, i) \in CallRecord
  BY <1>4, <1>5, Programmed, ElementOfSeq DEF Plan
<1> QED BY <1>1, <1>2, <1>3, <1>4, <1>5, <1>6, <1>7

\* One call is changed.
Becomes(e, i, o) == item' = [item EXCEPT ![e][i] = o]

LEMMA OneItem ==
  ASSUME ExecTypes, NEW e \in Exec, NEW i \in Items(e), NEW o \in Item, Becomes(e, i, o)
  PROVE  /\ item' \in [Exec -> Seq(Item)]
         /\ \A d \in Exec : Items(d)' = Items(d)
         /\ item'[e][i] = o
         /\ \A d \in Exec : \A j \in Items(d) :
              d # e \/ j # i => item'[d][j] = item[d][j]
<1>1. item \in [Exec -> Seq(Item)] /\ item[e] \in Seq(Item) /\ i \in 1..Len(item[e])
  BY LenProperties DEF ExecTypes, Items
<1>2. [item[e] EXCEPT ![i] = o] \in Seq(Item)
  BY <1>1, ExceptSeq
<1>3. item' = [item EXCEPT ![e] = [item[e] EXCEPT ![i] = o]]
  BY <1>1 DEF Becomes
<1>4. item' \in [Exec -> Seq(Item)]
  BY <1>1, <1>2, <1>3
<1> QED BY <1>1, <1>2, <1>3, <1>4 DEF Items

-----------------------------------------------------------------------------
(* Steps of calls.                                                         *)

Module(e) == Program(e).mode = "module"

\* Call i of execution e goes on, to become o.
Moves(e, i, o) ==
  /\ i \in Items(e) /\ o \in Item /\ item' = [item EXCEPT ![e][i] = o]
  /\ item[e][i].at \in {"idle"} \cup InProgress /\ o.at \notin {"idle", "lost"}
  /\ item[e][i].at = "idle" => CanTake(e, i)

\* It keeps to the plan and to the budget.
KeepsPlan(e, i, o) ==
  /\ ~Module(e) => /\ o.who = item[e][i].who
                   /\ o.at \in Asking => o.index = i
                   /\ o.at \in InProgress => i \in 1..Budget(Program(e))
                   /\ o.at = "threw" => ~Plan(e, i).optional
  /\ o.at \in Asking => o.index \in 1..Budget(Program(e))

\* It asks a model only if it has to, and it fails for a reason.
Reasons(e, i, o) ==
  /\ o.at \in Asking /\ item[e][i].at \notin Asking =>
       e \notin aborted /\ (~Module(e) => ~Cached(e, i, i))
  /\ o.at \in {"failed", "threw"} /\ ~Module(e) =>
       item[e][i].at \in Asking \/ e \in aborted \/ Spent(e, i)
  /\ o.at = "done" =>
       \/ item[e][i].at = "prompting" /\ o.out = e
       \/ \E k \in DOMAIN rows[run[e]] :
            Cached(e, i, k) /\ o.out = rows[run[e]][k].out /\ (~Module(e) => k = i)

\* A prompt is sent in a session of the member, unless it has been aborted.
Prompted(e, i, o) ==
  o.at = "prompting" =>
    /\ e \notin aborted /\ o.session \in Session /\ o.session[3] = o.who
    /\ o.who \in Isolated => run[o.session[1]] = run[e]

\* Row k of the run is written.
Writes(e, i, o, k, row) ==
  /\ rows' = [rows EXCEPT ![run[e]] =
       [n \in DOMAIN @ \cup {k} |-> IF n = k THEN row ELSE @[n]]]
  /\ k \in 1..Budget(Program(e))
  /\ row.status \in {"running", "completed", "failed", "cancelled"}
  /\ ~Module(e) => k = i /\ row.who = item[e][i].who
  /\ row.status = "completed" =>
       item[e][i].at = "prompting" /\ o.at = "done" /\ row.out = e /\ row.prompt = Prompt(e, i)
  /\ ~Module(e) /\ item[e][i].at \notin Asking => e \notin aborted /\ ~Cached(e, i, i)

CallStep(e, i, o) ==
  /\ Moves(e, i, o) /\ KeepsPlan(e, i, o) /\ Reasons(e, i, o) /\ Prompted(e, i, o)
  /\ rows' = rows \/ (\E k, row : Writes(e, i, o, k, row))
  /\ UNCHANGED <<prog, run, status, aborted, crashes, prior>>

\* A call that fails ends or, in a module, waits to be made again.
LEMMA OutcomeIs ==
  ASSUME NEW e \in Exec, NEW i \in Nat, NEW it \in Item, NEW o \in Outcome(e, i, it)
  PROVE  /\ o \in Item /\ o.at \in {"failed", "threw", "gate"}
         /\ ~Module(e) => /\ o.who = it.who /\ o.at # "gate"
                          /\ o.at = "threw" => ~Plan(e, i).optional
<1>1. Failure \in Reply /\ None \in Session \cup {None}
  BY DEF Reply
<1>2. Over(it, "threw", Failure) \in Item /\ Over(it, "threw", Failure).at = "threw"
      /\ Over(it, "threw", Failure).who = it.who
  BY <1>1 DEF Over, Item, InProgress, Settled
<1>3. Over(it, "failed", Failure) \in Item /\ Over(it, "failed", Failure).at = "failed"
      /\ Over(it, "failed", Failure).who = it.who
  BY <1>1 DEF Over, Item, InProgress, Settled
<1>4. ASSUME NEW m \in Member
      PROVE  LET n == [it EXCEPT !.at = "gate", !.who = m, !.tried = @ \cup {m}, !.told = FALSE,
                                 !.session = None]
             IN  n \in Item /\ n.at = "gate"
  BY DEF Item, InProgress
<1>5. CASE Module(e)
  <2>1. \/ o = Over(it, "threw", Failure) \/ o = Over(it, "failed", Failure)
        \/ \E m \in Member : o = [it EXCEPT !.at = "gate", !.who = m, !.tried = @ \cup {m},
                                            !.told = FALSE, !.session = None]
    BY <1>5 DEF Outcome, Module
  <2> QED BY <1>2, <1>3, <1>4, <1>5, <2>1
<1>6. CASE ~Module(e)
  BY <1>2, <1>3, <1>6 DEF Outcome, Module
<1> QED BY <1>5, <1>6

\* The call is prompted in a session of its own, or is aborted first.
LEMMA PromptsMoves ==
  ASSUME Types, NEW e \in Exec, NEW i \in Items(e), NEW it \in Item,
         item[e][i].at \in {"idle", "gate", "creating"},
         item[e][i].at = "idle" => CanTake(e, i),
         it.index \in 1..Budget(Program(e)),
         ~Module(e) => it.index = i /\ it.who = item[e][i].who,
         it.session \in Session, it.session[3] = it.who,
         it.who \in Isolated => run[it.session[1]] = run[e],
         item[e][i].at # "creating" => e \notin aborted /\ (~Module(e) => ~Cached(e, i, i)),
         Prompts(e, i, it),
         UNCHANGED <<prog, run, status, aborted, crashes, prior>>
  PROVE  \E o : CallStep(e, i, o)
<1> DEFINE row(state) == [who |-> it.who, prompt |-> Prompt(e, i), status |-> state,
                          out |-> IF state = "completed" THEN e ELSE None]
<1>1. ASSUME NEW o, NEW state \in {"running", "cancelled"}, rows' = Recorded(e, i, it, state)
      PROVE  Writes(e, i, o, it.index, row(state))
  <2>1. row(state).status = state /\ row(state).who = it.who
    OBVIOUS
  <2> HIDE DEF row
  <2>2. item[e][i].at \notin Asking =>  e \notin aborted /\ (~Module(e) => ~Cached(e, i, i))
    BY DEF Asking
  <2>3. rows' = [rows EXCEPT ![run[e]] =
         [n \in DOMAIN @ \cup {it.index} |-> IF n = it.index THEN row(state) ELSE @[n]]]
    BY <1>1 DEF Recorded, row
  <2> QED BY <2>1, <2>2, <2>3 DEF Writes
<1>2. CASE e \in aborted
  <2>1. PICK o \in Outcome(e, i, it) :
          item' = [item EXCEPT ![e][i] = o] /\ rows' = Recorded(e, i, it, "cancelled")
    BY <1>2 DEF Prompts, Refused
  <2>2. i \in Nat
    BY ItemTyped
  <2>3. /\ o \in Item /\ o.at \in {"failed", "threw", "gate"}
        /\ ~Module(e) => /\ o.who = it.who /\ o.at # "gate"
                         /\ o.at = "threw" => ~Plan(e, i).optional
    BY <2>2, OutcomeIs
  <2>4. Writes(e, i, o, it.index, row("cancelled"))
    BY <1>1, <2>1
  <2> HIDE DEF row
  <2>5. Moves(e, i, o)
    BY <2>1, <2>3 DEF Moves, InProgress, Asking
  <2>6. KeepsPlan(e, i, o) /\ Reasons(e, i, o) /\ Prompted(e, i, o)
    BY <1>2, <2>3 DEF KeepsPlan, Reasons, Prompted, InProgress, Asking
  <2> QED BY <2>4, <2>5, <2>6 DEF CallStep
<1>3. CASE e \notin aborted
  <2> DEFINE o == [it EXCEPT !.at = "prompting"]
  <2>1. item' = [item EXCEPT ![e][i] = o] /\ rows' = Recorded(e, i, it, "running")
    BY <1>3 DEF Prompts, Refused
  <2>2. /\ o \in Item /\ o.at = "prompting" /\ o.who = it.who /\ o.index = it.index
        /\ o.session = it.session
    BY DEF Item, InProgress, Asking
  <2>3. Writes(e, i, o, it.index, row("running"))
    BY <1>1, <2>1
  <2> HIDE DEF row, o
  <2>5. Moves(e, i, o)
    BY <2>1, <2>2 DEF Moves, InProgress, Asking
  <2>6. KeepsPlan(e, i, o) /\ Reasons(e, i, o) /\ Prompted(e, i, o)
    BY <1>3, <2>2 DEF KeepsPlan, Reasons, Prompted, InProgress, Asking
  <2> QED BY <2>3, <2>5, <2>6 DEF CallStep
<1> QED BY <1>2, <1>3

Remembers == \A k \in Key : sessions[k] \in {None, saved[k]}

\* What the runner knows of a member's session is what is saved, for the member and,
\* when it is isolated, for the run.
LEMMA KnownIs ==
  ASSUME Types, SessionTypes, SavedFor, Remembers, NEW e \in Exec, run[e] # None, NEW m \in Member
  PROVE  /\ KeyOf(e, m) \in Key /\ Known(KeyOf(e, m)) = saved[KeyOf(e, m)]
         /\ Known(KeyOf(e, m)) # None =>
              /\ Known(KeyOf(e, m)) \in Session /\ Known(KeyOf(e, m))[3] = m
              /\ m \in Isolated => run[Known(KeyOf(e, m))[1]] = run[e]
<1> DEFINE key == KeyOf(e, m)
<1>1. key \in Key /\ key[1] = m /\ (m \in Isolated => key[2] = run[e])
  BY Programmed DEF KeyOf, Key
<1>2. Known(key) = saved[key]
  BY <1>1 DEF Known, Remembers
<1>3. saved[key] \in Session \cup {None}
  BY <1>1 DEF SessionTypes
<1> QED BY <1>1, <1>2, <1>3 DEF SavedFor

LEMMA RunsMoves ==
  ASSUME Types, SessionTypes, SavedFor, Remembers, NEW e \in Exec, NEW i \in Items(e),
         NEW k \in 1..Budget(Program(e)),
         item[e][i].at \in {"idle", "gate"}, item[e][i].at = "idle" => CanTake(e, i),
         e \notin aborted, ~Module(e) => k = i,
         RunTypes, Origins,
         Runs(e, i, k), UNCHANGED <<prog, run, status, aborted, crashes, prior>>
  PROVE  \E o : CallStep(e, i, o)
<1> DEFINE it == [item[e][i] EXCEPT !.index = k]
           key == KeyOf(e, it.who)
<1>1. /\ item[e][i] \in Item /\ run[e] # None /\ Budget(Program(e)) \in Nat /\ run[e] \in Run
      /\ i \in Nat
  BY ItemTyped, Programmed
<1>2. it \in Item /\ it.index = k /\ it.who = item[e][i].who /\ it.who \in Member
  BY <1>1 DEF Item
<1>3. CASE Cached(e, i, k) /\ item' = [item EXCEPT ![e][i] = Over(it, "done", rows[run[e]][k].out)]
           /\ UNCHANGED <<rows, sessions>>
  <2> DEFINE out == rows[run[e]][k].out
             o == Over(it, "done", out)
  <2>1. k \in DOMAIN rows[run[e]] /\ rows[run[e]][k].status = "completed"
    BY <1>3 DEF Cached, Prefix
  <2>2. out \in Exec /\ out \in Reply
    BY <1>1, <2>1 DEF Origins, Got, Reply
  <2>3. o \in Item /\ o.at = "done" /\ o.out = out /\ o.who = it.who
    BY <1>2, <2>2 DEF Over, Item, Settled
  <2>4. item' = [item EXCEPT ![e][i] = o] /\ rows' = rows
    BY <1>3
  <2>5. k \in DOMAIN rows[run[e]] /\ o.out = rows[run[e]][k].out
    BY <2>1, <2>3
  <2> HIDE DEF o, out, it
  <2>6. Moves(e, i, o)
    BY <2>3, <2>4 DEF Moves, InProgress
  <2>7. KeepsPlan(e, i, o) /\ Reasons(e, i, o) /\ Prompted(e, i, o)
    BY <1>2, <1>3, <2>3, <2>5 DEF KeepsPlan, Reasons, Prompted, InProgress, Asking
  <2> QED BY <2>4, <2>6, <2>7 DEF CallStep
<1>4. CASE ~Cached(e, i, k) /\ Known(key) # None /\ Prompts(e, i, [it EXCEPT !.session = Known(key)])
  <2> DEFINE ps == [it EXCEPT !.session = Known(key)]
  <2>1. /\ Known(key) \in Session /\ Known(key)[3] = it.who
        /\ it.who \in Isolated => run[Known(key)[1]] = run[e]
    BY <1>1, <1>2, <1>4, KnownIs
  <2>2. ps \in Item /\ ps.session = Known(key) /\ ps.who = it.who /\ ps.index = k
    BY <1>2, <2>1 DEF Item
  <2> HIDE DEF ps, key, it
  <2>3. Prompts(e, i, ps)
    BY <1>4 DEF ps
  <2>4. ~Module(e) => ~Cached(e, i, i)
    BY <1>4
  <2>5. /\ item[e][i].at \in {"idle", "gate", "creating"}
        /\ ps.index \in 1..Budget(Program(e))
        /\ ~Module(e) => ps.index = i /\ ps.who = item[e][i].who
        /\ ps.session \in Session /\ ps.session[3] = ps.who
        /\ ps.who \in Isolated => run[ps.session[1]] = run[e]
    BY <1>2, <2>1, <2>2
  <2> QED BY <2>2, <2>3, <2>4, <2>5, PromptsMoves, Zenon
<1>5. CASE /\ ~Cached(e, i, k) /\ Known(key) = None
           /\ item' = [item EXCEPT ![e][i] =
                   [it EXCEPT !.at = IF it.who \in Isolated THEN "workspace" ELSE "creating"]]
           /\ UNCHANGED <<rows, sessions>>
  <2> DEFINE o == [it EXCEPT !.at = IF it.who \in Isolated THEN "workspace" ELSE "creating"]
  <2>1. o \in Item /\ o.at \in {"workspace", "creating"} /\ o.who = it.who /\ o.index = k
    BY <1>2 DEF Item, InProgress, Asking
  <2>2. item' = [item EXCEPT ![e][i] = o] /\ rows' = rows
    BY <1>5
  <2>3. ~Module(e) => ~Cached(e, i, i)
    BY <1>5
  <2> HIDE DEF o, it
  <2>6. Moves(e, i, o)
    BY <2>1, <2>2 DEF Moves, InProgress
  <2>7. KeepsPlan(e, i, o) /\ Reasons(e, i, o) /\ Prompted(e, i, o)
    BY <1>2, <2>1, <2>3 DEF KeepsPlan, Reasons, Prompted, InProgress, Asking
  <2> QED BY <2>2, <2>6, <2>7 DEF CallStep
<1> QED BY <1>3, <1>4, <1>5 DEF Runs

\* A call is counted within the budget of its execution.
Counts(e) ==
  /\ DOMAIN count' = Exec
  /\ \A d \in Exec : count'[d] # count[d] => d = e /\ count'[d] \in 0..Budget(Program(e))

LEMMA TakesMoves ==
  ASSUME Types, SessionTypes, SavedFor, Remembers, Origins, NEW e \in Exec, NEW i \in Position,
         Takes(e, i)
  PROVE  (\E o : CallStep(e, i, o)) /\ Counts(e)
<1>1. /\ i \in Items(e) /\ item[e][i].at = "idle" /\ CanTake(e, i) /\ item[e][i] \in Item
      /\ run[e] # None /\ Budget(Program(e)) \in Nat /\ i \in Nat /\ i >= 1
  <2>1. i \in Items(e) /\ item[e][i].at = "idle" /\ CanTake(e, i)
    BY DEF Takes, CanTake, At, Items
  <2> QED BY <2>1, ItemTyped, Programmed
<1>2. UNCHANGED <<prog, run, status, aborted, crashes, prior>>
  BY DEF Takes
<1> DEFINE failed == IF Module(e) \/ ~Plan(e, i).optional THEN "threw" ELSE "failed"
<1>3. CASE /\ e \in aborted \/ (~Module(e) /\ Spent(e, i))
           /\ item' = [item EXCEPT ![e][i] = Over(@, failed, Failure)]
           /\ UNCHANGED <<rows, sessions, count>>
  <2> DEFINE o == Over(item[e][i], failed, Failure)
  <2>1. o \in Item /\ o.at = failed /\ o.who = item[e][i].who
    BY <1>1 DEF Over, Item, Settled, Reply
  <2>2. item' = [item EXCEPT ![e][i] = o] /\ rows' = rows /\ count' = count
    BY <1>3
  <2> HIDE DEF o
  <2>3. Moves(e, i, o)
    BY <1>1, <2>1, <2>2 DEF Moves
  <2>4. KeepsPlan(e, i, o) /\ Reasons(e, i, o) /\ Prompted(e, i, o)
    BY <1>3, <2>1 DEF KeepsPlan, Reasons, Prompted, InProgress, Asking
  <2>5. Counts(e)
    BY <2>2 DEF Counts, Types, ExecTypes
  <2> QED BY <1>2, <2>2, <2>3, <2>4, <2>5 DEF CallStep
<1>4. CASE /\ e \notin aborted /\ (Module(e) \/ ~Spent(e, i))
           /\ IF Authored(Program(e).mode)
                THEN item' = [item EXCEPT ![e][i].at = "gate"] /\ UNCHANGED <<rows, sessions>>
                ELSE Runs(e, i, i)
           /\ count' = [count EXCEPT ![e] = IF Module(e) THEN @ ELSE i]
  <2>1. Counts(e)
    BY <1>1, <1>4 DEF Counts, Types, ExecTypes, Spent
  <2>2. CASE Authored(Program(e).mode)
    <3> DEFINE o == [item[e][i] EXCEPT !.at = "gate"]
    <3>1. o \in Item /\ o.at = "gate" /\ o.who = item[e][i].who
      BY <1>1 DEF Item, InProgress
    <3>2. item' = [item EXCEPT ![e][i] = o] /\ rows' = rows
      BY <1>1, <1>4, <2>2
    <3> HIDE DEF o
    <3>3. Moves(e, i, o)
      BY <1>1, <3>1, <3>2 DEF Moves
    <3>5. ~Module(e) => i \in 1..Budget(Program(e))
      BY <1>1, <1>4 DEF Spent
    <3>4. KeepsPlan(e, i, o) /\ Reasons(e, i, o) /\ Prompted(e, i, o)
      BY <3>1, <3>5 DEF KeepsPlan, Reasons, Prompted, InProgress, Asking
    <3> QED BY <1>2, <2>1, <3>2, <3>3, <3>4 DEF CallStep
  <2>3. CASE ~Authored(Program(e).mode)
    <3>1. ~Module(e) /\ Runs(e, i, i)
      BY <1>4, <2>3 DEF Authored, Module
    <3>2. i \in 1..Budget(Program(e))
      BY <1>1, <1>4, <3>1 DEF Spent
    <3> QED BY <1>1, <1>2, <1>4, <2>1, <3>1, <3>2, RunsMoves DEF Types
  <2> QED BY <2>2, <2>3
<1>5. /\ Program(e).mode = "module" <=> Module(e)
  BY DEF Module
<1> QED BY <1>3, <1>4, <1>5 DEF Takes

LEMMA PassesMoves ==
  ASSUME Types, SessionTypes, SavedFor, Remembers, Origins, Planned,
         NEW e \in Exec, NEW i \in Position, Passes(e, i)
  PROVE  (\E o : CallStep(e, i, o)) /\ Counts(e)
<1> DEFINE k == IF Module(e) THEN NextIndex(e) ELSE i
<1>1. /\ i \in Items(e) /\ item[e][i].at = "gate" /\ item[e][i] \in Item
      /\ run[e] # None /\ Budget(Program(e)) \in Nat /\ i \in Nat /\ i >= 1
  <2>1. i \in Items(e) /\ item[e][i].at = "gate"
    BY DEF Passes, At, Items
  <2> QED BY <2>1, ItemTyped, Programmed
<1>2. UNCHANGED <<prog, run, status, aborted, crashes, prior>>
  BY DEF Passes
<1>3. CASE /\ e \in aborted \/ (Module(e) /\ Spent(e, k))
           /\ \E o \in Outcome(e, i, item[e][i]) : item' = [item EXCEPT ![e][i] = o]
           /\ UNCHANGED <<rows, sessions, count>>
  <2>1. PICK o \in Outcome(e, i, item[e][i]) : item' = [item EXCEPT ![e][i] = o]
    BY <1>3
  <2>2. /\ o \in Item /\ o.at \in {"failed", "threw", "gate"}
        /\ ~Module(e) => /\ o.who = item[e][i].who /\ o.at # "gate"
                         /\ o.at = "threw" => ~Plan(e, i).optional
    BY <1>1, OutcomeIs
  <2>3. Moves(e, i, o)
    BY <1>1, <2>1, <2>2 DEF Moves, InProgress
  <2>4. KeepsPlan(e, i, o) /\ Reasons(e, i, o) /\ Prompted(e, i, o)
    BY <1>3, <2>2 DEF KeepsPlan, Reasons, Prompted, InProgress, Asking
  <2>5. Counts(e)
    BY <1>3 DEF Counts, Types, ExecTypes
  <2> QED BY <1>2, <1>3, <2>3, <2>4, <2>5 DEF CallStep
<1>4. CASE /\ e \notin aborted /\ (~Module(e) \/ ~Spent(e, k))
           /\ Runs(e, i, k)
           /\ count' = [count EXCEPT ![e] = IF Module(e) THEN k ELSE @]
  <2>1. k \in 1..Budget(Program(e))
    <3>1. CASE Module(e)
      <4>1. count[e] \in 0..Budget(Program(e))
        BY <1>1 DEF Types, Started
      <4> QED BY <1>1, <1>4, <3>1, <4>1 DEF Spent, NextIndex
    <3>2. CASE ~Module(e)
      BY <1>1, <3>2 DEF Planned, Module, InProgress
    <3> QED BY <3>1, <3>2
  <2>2. Counts(e)
    BY <1>1, <1>4, <2>1 DEF Counts, Types, ExecTypes
  <2> QED BY <1>1, <1>2, <1>4, <2>1, <2>2, RunsMoves DEF Types
<1>5. /\ Program(e).mode = "module" <=> Module(e)
  BY DEF Module
<1> QED BY <1>3, <1>4, <1>5 DEF Passes

\* A call that is being made.
LEMMA AskingIs ==
  ASSUME Types, Planned, NEW e \in Exec, NEW i, i \in Items(e), item[e][i].at \in Asking
  PROVE  /\ i \in Nat /\ item[e][i] \in Item /\ run[e] # None
         /\ item[e][i].index \in 1..Budget(Program(e))
         /\ ~Module(e) => item[e][i].index = i /\ i \in 1..Budget(Program(e))
BY ItemTyped DEF Types, Started, Planned, Module, InProgress

LEMMA CountsSame ==
  ASSUME ExecTypes, NEW e \in Exec, count' = count
  PROVE  Counts(e)
BY DEF Counts, ExecTypes

\* A call that is being made fails, and may be recorded as failed or cancelled.
LEMMA FailsMoves ==
  ASSUME Types, Planned, NEW e \in Exec, NEW i \in Position, i \in Items(e),
         item[e][i].at \in Asking,
         NEW o \in Outcome(e, i, item[e][i]), item' = [item EXCEPT ![e][i] = o],
         \/ rows' = rows
         \/ \E state \in {"failed", "cancelled"} : rows' = Recorded(e, i, item[e][i], state),
         UNCHANGED <<prog, run, status, aborted, crashes, prior>>
  PROVE  CallStep(e, i, o)
<1>1. /\ i \in Nat /\ item[e][i] \in Item /\ run[e] # None
      /\ item[e][i].index \in 1..Budget(Program(e))
      /\ ~Module(e) => item[e][i].index = i /\ i \in 1..Budget(Program(e))
  BY AskingIs
<1>2. /\ o \in Item /\ o.at \in {"failed", "threw", "gate"}
      /\ ~Module(e) => /\ o.who = item[e][i].who /\ o.at # "gate"
                       /\ o.at = "threw" => ~Plan(e, i).optional
  BY <1>1, OutcomeIs
<1>3. Moves(e, i, o)
  BY <1>1, <1>2 DEF Moves, InProgress, Asking
<1>4. KeepsPlan(e, i, o) /\ Reasons(e, i, o) /\ Prompted(e, i, o)
  BY <1>2 DEF KeepsPlan, Reasons, Prompted, InProgress, Asking
<1>5. ASSUME NEW state \in {"failed", "cancelled"}, rows' = Recorded(e, i, item[e][i], state)
      PROVE  \E k, row : Writes(e, i, o, k, row)
  <2> DEFINE row == [who |-> item[e][i].who, prompt |-> Prompt(e, i), status |-> state,
                     out |-> IF state = "completed" THEN e ELSE None]
             k == item[e][i].index
  <2>1. rows' = [rows EXCEPT ![run[e]] =
         [n \in DOMAIN @ \cup {k} |-> IF n = k THEN row ELSE @[n]]]
    BY <1>5 DEF Recorded
  <2>2. row.status = state /\ row.who = item[e][i].who
    OBVIOUS
  <2> HIDE DEF row
  <2>3. Writes(e, i, o, k, row)
    BY <1>1, <2>1, <2>2 DEF Writes
  <2> QED BY <2>3
<1> QED BY <1>3, <1>4, <1>5 DEF CallStep

LEMMA CreatedMoves ==
  ASSUME Types, Planned, NEW e \in Exec, NEW i \in Position, Created(e, i)
  PROVE  (\E o : CallStep(e, i, o)) /\ Counts(e)
<1>1. /\ i \in Items(e) /\ item[e][i].at \in {"workspace", "creating"}
      /\ UNCHANGED <<prog, run, status, count, aborted, crashes, prior>>
  BY DEF Created, WorkspaceCreated, SessionCreated, CreationFails, At, Items
<1>2. /\ i \in Nat /\ item[e][i] \in Item /\ run[e] # None
      /\ item[e][i].index \in 1..Budget(Program(e))
      /\ ~Module(e) => item[e][i].index = i /\ i \in 1..Budget(Program(e))
  BY <1>1, AskingIs DEF Asking
<1>3. Counts(e)
  BY <1>1, CountsSame DEF Types
<1>4. CASE WorkspaceCreated(e, i)
  <2> DEFINE o == [item[e][i] EXCEPT !.at = "creating"]
  <2>1. o \in Item /\ o.at = "creating" /\ o.who = item[e][i].who /\ o.index = item[e][i].index
    BY <1>2 DEF Item, InProgress, Asking
  <2>2. item' = [item EXCEPT ![e][i] = o] /\ rows' = rows
    BY <1>4 DEF WorkspaceCreated
  <2> HIDE DEF o
  <2>3. Moves(e, i, o)
    BY <1>1, <2>1, <2>2 DEF Moves, InProgress, Asking
  <2>4. KeepsPlan(e, i, o) /\ Reasons(e, i, o) /\ Prompted(e, i, o)
    BY <1>1, <1>2, <2>1 DEF KeepsPlan, Reasons, Prompted, InProgress, Asking
  <2> QED BY <1>1, <1>3, <2>2, <2>3, <2>4 DEF CallStep
<1>5. CASE SessionCreated(e, i)
  <2> DEFINE s == <<e, i, item[e][i].who>>
             ps == [item[e][i] EXCEPT !.session = s]
  <2>1. s \in Session /\ s[3] = item[e][i].who /\ s[1] = e
    BY <1>2 DEF Session, Item
  <2>2. /\ ps \in Item /\ ps.session = s /\ ps.who = item[e][i].who
        /\ ps.index = item[e][i].index
    BY <1>2, <2>1 DEF Item
  <2>3. Prompts(e, i, ps) /\ item[e][i].at = "creating"
    BY <1>5 DEF SessionCreated, At
  <2> HIDE DEF ps, s
  <2>4. /\ ps.index \in 1..Budget(Program(e))
        /\ ~Module(e) => ps.index = i /\ ps.who = item[e][i].who
        /\ ps.session \in Session /\ ps.session[3] = ps.who
        /\ ps.who \in Isolated => run[ps.session[1]] = run[e]
    BY <1>2, <2>1, <2>2
  <2> QED BY <1>1, <1>3, <2>2, <2>3, <2>4, PromptsMoves
<1>6. CASE CreationFails(e, i)
  <2>1. PICK o \in Outcome(e, i, item[e][i]) : item' = [item EXCEPT ![e][i] = o] /\ rows' = rows
    BY <1>6 DEF CreationFails
  <2> QED BY <1>1, <1>3, <2>1, FailsMoves DEF Asking
<1> QED BY <1>4, <1>5, <1>6 DEF Created

LEMMA AnswersMoves ==
  ASSUME Types, Planned, NEW e \in Exec, NEW i \in Position, Answers(e, i) \/ PromptFails(e, i)
  PROVE  (\E o : CallStep(e, i, o)) /\ Counts(e)
<1>1. /\ i \in Items(e) /\ item[e][i].at = "prompting"
      /\ UNCHANGED <<prog, run, status, count, aborted, crashes, prior>>
  BY DEF Answers, PromptFails, At, Items
<1>2. /\ i \in Nat /\ item[e][i] \in Item /\ run[e] # None
      /\ item[e][i].index \in 1..Budget(Program(e))
      /\ ~Module(e) => item[e][i].index = i /\ i \in 1..Budget(Program(e))
  BY <1>1, AskingIs DEF Asking
<1>3. Counts(e)
  BY <1>1, CountsSame DEF Types
<1>4. CASE Answers(e, i)
  <2> DEFINE o == Over(item[e][i], "done", e)
             k == item[e][i].index
             row == [who |-> item[e][i].who, prompt |-> Prompt(e, i), status |-> "completed",
                     out |-> e]
  <2>1. o \in Item /\ o.at = "done" /\ o.out = e /\ o.who = item[e][i].who
    BY <1>2 DEF Over, Item, Settled, Reply
  <2>2. item' = [item EXCEPT ![e][i] = o]
    BY <1>2, <1>4 DEF Answers
  <2>3. rows' = [rows EXCEPT ![run[e]] =
         [n \in DOMAIN @ \cup {k} |-> IF n = k THEN row ELSE @[n]]]
    BY <1>4 DEF Answers, Recorded
  <2>4. /\ row.status = "completed" /\ row.who = item[e][i].who /\ row.out = e
        /\ row.prompt = Prompt(e, i)
    OBVIOUS
  <2> HIDE DEF o, row
  <2>5. Moves(e, i, o)
    BY <1>1, <2>1, <2>2 DEF Moves, InProgress, Asking
  <2>6. KeepsPlan(e, i, o) /\ Reasons(e, i, o) /\ Prompted(e, i, o)
    BY <1>1, <2>1 DEF KeepsPlan, Reasons, Prompted, InProgress, Asking
  <2>7. Writes(e, i, o, k, row)
    BY <1>1, <1>2, <2>1, <2>3, <2>4 DEF Writes, Asking
  <2> QED BY <1>1, <1>3, <2>5, <2>6, <2>7 DEF CallStep
<1>5. CASE PromptFails(e, i)
  <2>1. PICK o \in Outcome(e, i, item[e][i]) : item' = [item EXCEPT ![e][i] = o]
    BY <1>5 DEF PromptFails
  <2>2. \E state \in {"failed", "cancelled"} : rows' = Recorded(e, i, item[e][i], state)
    BY <1>5 DEF PromptFails
  <2> QED BY <1>1, <1>3, <2>1, <2>2, FailsMoves DEF Asking
<1> QED BY <1>4, <1>5

-----------------------------------------------------------------------------
(* The other steps.                                                        *)

\* The calls stay where they are; sessions may be told of aborts.
OnlyTold ==
  /\ item' \in [Exec -> Seq(Item)]
  /\ \A d \in Exec : Items(d)' = Items(d)
  /\ \A d \in Exec : \A j \in Items(d) :
       /\ item'[d][j].at = item[d][j].at /\ item'[d][j].who = item[d][j].who
       /\ item'[d][j].index = item[d][j].index /\ item'[d][j].session = item[d][j].session
       /\ item'[d][j].out = item[d][j].out
       /\ item[d][j].told => item'[d][j].told

\* No call moves, and an execution that ends may end.
Stays ==
  /\ OnlyTold /\ UNCHANGED <<prog, rows, run, count, crashes, prior>>
  /\ aborted \subseteq aborted' /\ aborted' \subseteq Exec
  /\ \A d \in aborted' \ aborted : \A j \in Prompting(d) : item'[d][j].told
  /\ status' \in [Exec -> Statuses]
  /\ \A d \in Exec : status'[d] # status[d] =>
       CanEnd(d) /\ status'[d] \in {"completed", "failed", "cancelled"}

LEMMA ToldIs ==
  ASSUME ExecTypes, NEW S, item' = Told(S)
  PROVE  /\ OnlyTold
         /\ \A d \in Exec : \A j \in Prompting(d) :
              item[d][j].session \in S => item'[d][j].told
<1> DEFINE T(d, j) ==
      [item[d][j] EXCEPT !.told = @ \/ (j \in Prompting(d) /\ item[d][j].session \in S)]
<1>1. ASSUME NEW d \in Exec
      PROVE  /\ item[d] \in Seq(Item) /\ Len(item[d]) \in Nat /\ Items(d) = 1..Len(item[d])
             /\ \A j \in Items(d) : item[d][j] \in Item
  BY LenProperties, ElementOfSeq DEF ExecTypes, Items
<1>2. ASSUME NEW d \in Exec, NEW j \in Items(d)
      PROVE  /\ T(d, j) \in Item
             /\ T(d, j).at = item[d][j].at /\ T(d, j).who = item[d][j].who
             /\ T(d, j).index = item[d][j].index /\ T(d, j).session = item[d][j].session
             /\ T(d, j).out = item[d][j].out
             /\ item[d][j].told => T(d, j).told
             /\ j \in Prompting(d) /\ item[d][j].session \in S => T(d, j).told
  <2>1. item[d][j] \in Item
    BY <1>1
  <2>2. (item[d][j].told \/ (j \in Prompting(d) /\ item[d][j].session \in S)) \in BOOLEAN
    BY <2>1 DEF Item
  <2> QED BY <2>1, <2>2 DEF Item
<1>3. item' = [d \in Exec |-> [j \in Items(d) |-> T(d, j)]]
  BY DEF Told
<1> HIDE DEF T
<1>4. ASSUME NEW d \in Exec
      PROVE  /\ item'[d] \in Seq(Item) /\ DOMAIN item'[d] = Items(d)
             /\ \A j \in Items(d) : item'[d][j] = T(d, j)
  <2>1. item'[d] = [j \in Items(d) |-> T(d, j)]
    BY <1>3
  <2>2. item'[d] \in [1..Len(item[d]) -> Item]
    BY <1>1, <1>2, <2>1
  <2>3. item'[d] \in Seq(Item)
    BY <1>1, <2>2
  <2> QED BY <2>1, <2>3
<1>5. item' \in [Exec -> Seq(Item)]
  BY <1>3, <1>4
<1>6. \A d \in Exec : Items(d)' = Items(d)
  BY <1>4 DEF Items
<1>7. OnlyTold
  BY <1>2, <1>4, <1>5, <1>6 DEF OnlyTold
<1>8. \A d \in Exec : \A j \in Prompting(d) : item[d][j].session \in S => item'[d][j].told
  BY <1>2, <1>4 DEF Prompting
<1> QED BY <1>7, <1>8

LEMMA SameIsTold ==
  ASSUME ExecTypes, item' = item
  PROVE  OnlyTold
BY DEF ExecTypes, OnlyTold, Items

LEMMA OthersStay ==
  ASSUME ExecTypes,
         \/ \E e \in Exec : Aborts(e) \/ Ends(e) \/ \E i \in Position : SeatTimesOut(e, i)
         \/ Cleans \/ (\E w \in Session : WorkspaceRemoved(w)) \/ CleanupFails
  PROVE  Stays
<1>1. ASSUME NEW e \in Exec, Aborts(e)  PROVE Stays
  <2> DEFINE S == {item[e][j].session : j \in Prompting(e)}
  <2>1. item' = Told(S)
    BY <1>1 DEF Aborts
  <2>2. /\ OnlyTold
        /\ \A d \in Exec : \A j \in Prompting(d) :
             item[d][j].session \in S => item'[d][j].told
    <3> HIDE DEF S
    <3> QED BY <2>1, ToldIs
  <2>3. \A j \in Prompting(e) : item'[e][j].told
    BY <2>2
  <2> QED BY <1>1, <2>2, <2>3 DEF Stays, Aborts, ExecTypes
<1>2. ASSUME NEW e \in Exec, NEW i \in Position, SeatTimesOut(e, i)  PROVE Stays
  <2>1. OnlyTold
    BY <1>2, ToldIs DEF SeatTimesOut
  <2> QED BY <1>2, <2>1 DEF Stays, SeatTimesOut, ExecTypes
<1>3. ASSUME NEW e \in Exec, Ends(e)  PROVE Stays
  <2>1. OnlyTold
    BY <1>3, ToldIs, SameIsTold DEF Ends
  <2> QED BY <1>3, <2>1 DEF Stays, Ends, ExecTypes, Statuses
<1>4. CASE Cleans \/ (\E w \in Session : WorkspaceRemoved(w)) \/ CleanupFails
  <2>1. OnlyTold
    BY <1>4, SameIsTold DEF Cleans, WorkspaceRemoved, CleanupFails
  <2> QED BY <1>4, <2>1 DEF Stays, Cleans, WorkspaceRemoved, CleanupFails, ExecTypes
<1> QED BY <1>1, <1>2, <1>3, <1>4

\* The calls that have not settled are lost.
LEMMA CrashesIs ==
  ASSUME ExecTypes, Crashes
  PROVE  /\ item' \in [Exec -> Seq(Item)]
         /\ \A d \in Exec : Items(d)' = Items(d)
         /\ \A d \in Exec : \A j \in Items(d) :
              /\ item'[d][j].who = item[d][j].who
              /\ item[d][j].at \in Settled => item'[d][j] = item[d][j]
              /\ item[d][j].at \notin Settled => item'[d][j].at = "lost"
<1> DEFINE L(d, j) == IF item[d][j].at \in Settled THEN item[d][j]
                      ELSE Over(item[d][j], "lost", None)
<1>1. ASSUME NEW d \in Exec
      PROVE  /\ item[d] \in Seq(Item) /\ Len(item[d]) \in Nat /\ Items(d) = 1..Len(item[d])
             /\ \A j \in Items(d) : item[d][j] \in Item
  BY LenProperties, ElementOfSeq DEF ExecTypes, Items
<1>2. ASSUME NEW d \in Exec, NEW j \in Items(d)
      PROVE  /\ L(d, j) \in Item /\ L(d, j).who = item[d][j].who
             /\ item[d][j].at \in Settled => L(d, j) = item[d][j]
             /\ item[d][j].at \notin Settled => L(d, j).at = "lost"
  <2>1. item[d][j] \in Item
    BY <1>1
  <2> QED BY <2>1 DEF Over, Item, Reply
<1>3. item' = [d \in Exec |-> [j \in Items(d) |-> L(d, j)]]
  BY DEF Crashes
<1> HIDE DEF L
<1>4. ASSUME NEW d \in Exec
      PROVE  /\ item'[d] \in Seq(Item) /\ DOMAIN item'[d] = Items(d)
             /\ \A j \in Items(d) : item'[d][j] = L(d, j)
  <2>1. item'[d] = [j \in Items(d) |-> L(d, j)]
    BY <1>3
  <2>2. item'[d] \in [1..Len(item[d]) -> Item]
    BY <1>1, <1>2, <2>1
  <2>3. item'[d] \in Seq(Item)
    BY <1>1, <2>2
  <2> QED BY <2>1, <2>3
<1>5. item' \in [Exec -> Seq(Item)] /\ \A d \in Exec : Items(d)' = Items(d)
  BY <1>3, <1>4 DEF Items
<1> QED BY <1>2, <1>4, <1>5

\* An execution of a run starts, on what is left of its records.
LEMMA StartsIs ==
  ASSUME Types, NEW e \in Exec, NEW r \in Run, Starts(e, r)
  PROVE  /\ run[e] = None /\ run' = [run EXCEPT ![e] = r]
         /\ status' = [status EXCEPT ![e] = "running"]
         /\ \A d \in Exec : run[d] = r => status[d] # "running"
         /\ RunTypes'
         /\ prog'[r] # None /\ \A q \in Run : prog[q] # None => prog'[q] = prog[q]
         /\ \A q \in Run \ {r} : rows'[q] = rows[q]
         /\ \A k \in DOMAIN rows'[r] : k \in DOMAIN rows[r] /\ rows'[r][k] = rows[r][k]
         /\ item' \in [Exec -> Seq(Item)] /\ Items(e)' = 1..Len(prog'[r].calls)
         /\ \A i \in Items(e)' : item'[e][i] = New(prog'[r].calls[i].who)
         /\ \A d \in Exec \ {e} : item'[d] = item[d] /\ prior'[d] = prior[d]
         /\ DOMAIN prior' = Exec
         /\ \A k \in DOMAIN prior'[e] :
              k \in DOMAIN rows'[r] /\ prior'[e][k] = rows'[r][k] /\ ~Strays(r, k)
<1>1. /\ run[e] = None /\ run' = [run EXCEPT ![e] = r]
      /\ status' = [status EXCEPT ![e] = "running"]
      /\ \A d \in Exec : run[d] = r => status[d] # "running"
  BY DEF Starts, Types, Started
<1>2. /\ RunTypes'
      /\ prog'[r] # None /\ \A q \in Run : prog[q] # None => prog'[q] = prog[q]
      /\ \A q \in Run \ {r} : rows'[q] = rows[q]
      /\ \A k \in DOMAIN rows'[r] : k \in DOMAIN rows[r] /\ rows'[r][k] = rows[r][k]
      /\ prog'[r].calls \in Seq(CallRecord)
  <2>1. CASE prog[r] = None
    <3>0. PICK mode \in Mode : \E calls \in Programs(mode) :
            prog' = [prog EXCEPT ![r] = [mode |-> mode, calls |-> calls]] /\ rows' = rows
      BY <2>1 DEF Starts
    <3>1. PICK calls \in Programs(mode) :
            prog' = [prog EXCEPT ![r] = [mode |-> mode, calls |-> calls]] /\ rows' = rows
      BY <3>0
    <3> DEFINE p == [mode |-> mode, calls |-> calls]
    <3>2. p.mode = mode /\ p.calls = calls
      OBVIOUS
    <3>3. calls \in Seq(CallRecord)
      BY <3>2, ProgramsShaped DEF Shape
    <3>4. p \in [mode : Mode, calls : Seq(CallRecord)] /\ p # None
      BY <3>3, FleetAssumption
    <3> HIDE DEF p
    <3>5. prog' = [prog EXCEPT ![r] = p]
      BY <3>1 DEF p
    <3>6. prog'[r] = p /\ \A q \in Run \ {r} : prog'[q] = prog[q]
      BY <3>5 DEF Types, RunTypes
    <3>7. prog' \in [Run -> {None} \cup [mode : Mode, calls : Seq(CallRecord)]]
      BY <3>4, <3>5 DEF Types, RunTypes
    <3>8. \A q \in Run : prog'[q] # None => prog'[q].calls \in Programs(prog'[q].mode)
      BY <3>2, <3>6 DEF Types, RunTypes
    <3>9. \A q \in Run : \A k \in DOMAIN rows[q] :
            /\ prog'[q] # None /\ k \in 1..Budget(prog'[q])
            /\ rows[q][k].status \in {"running", "completed", "failed", "cancelled"}
      BY <2>1, <3>6 DEF Types, RunTypes
    <3>10. RunTypes'
      BY <3>1, <3>7, <3>8, <3>9 DEF Types, RunTypes
    <3> QED BY <2>1, <3>1, <3>2, <3>3, <3>4, <3>6, <3>10 DEF Types, RunTypes
  <2>2. CASE prog[r] # None
    <3>1. PICK n \in 1..(Len(prog[r].calls) + 1) :
            /\ rows' = [rows EXCEPT ![r] = [k \in Truncated(@, n) |-> @[k]]]
            /\ prog' = prog
      BY <2>2 DEF Starts
    <3>2. rows'[r] = [k \in Truncated(rows[r], n) |-> rows[r][k]] /\ DOMAIN rows' = Run
      BY <3>1 DEF Types, RunTypes
    <3>3. \A k \in DOMAIN rows'[r] : k \in DOMAIN rows[r] /\ rows'[r][k] = rows[r][k]
      BY <3>2 DEF Truncated
    <3>4. \A q \in Run \ {r} : rows'[q] = rows[q]
      BY <3>1 DEF Types, RunTypes
    <3>5. RunTypes'
      BY <3>1, <3>2, <3>3, <3>4 DEF Types, RunTypes
    <3>6. prog[r] \in [mode : Mode, calls : Seq(CallRecord)]
      BY <2>2 DEF Types, RunTypes
    <3> QED BY <2>2, <3>1, <3>3, <3>4, <3>5, <3>6
  <2> QED BY <2>1, <2>2
<1>3. /\ item' \in [Exec -> Seq(Item)] /\ Items(e)' = 1..Len(prog'[r].calls)
      /\ \A i \in Items(e)' : item'[e][i] = New(prog'[r].calls[i].who)
      /\ \A d \in Exec \ {e} : item'[d] = item[d]
  <2> DEFINE calls == prog'[r].calls
             its == [i \in DOMAIN calls |-> New(calls[i].who)]
  <2>0. calls \in Seq(CallRecord)
    BY <1>2
  <2>1. /\ Len(calls) \in Nat /\ DOMAIN calls = 1..Len(calls)
        /\ \A i \in DOMAIN calls : calls[i].who \in Member
    <3> HIDE DEF calls
    <3>1. Len(calls) \in Nat /\ DOMAIN calls = 1..Len(calls)
      BY <2>0, LenProperties
    <3>2. \A i \in DOMAIN calls : calls[i] \in CallRecord
      BY <2>0, <3>1, ElementOfSeq
    <3> QED BY <3>1, <3>2 DEF CallRecord
  <2>2. ASSUME NEW m \in Member  PROVE New(m) \in Item
    BY DEF New, Item, Reply
  <2>3. item' = [item EXCEPT ![e] = its]
    BY DEF Starts
  <2> HIDE DEF calls
  <2>4. its \in [1..Len(calls) -> Item]
    BY <2>1, <2>2
  <2>5. its \in Seq(Item) /\ DOMAIN its = 1..Len(calls)
    BY <2>1, <2>4
  <2>6. \A i \in DOMAIN its : its[i] = New(calls[i].who)
    OBVIOUS
  <2> HIDE DEF its
  <2>7. item'[e] = its /\ \A d \in Exec \ {e} : item'[d] = item[d]
    BY <2>3 DEF Types, ExecTypes
  <2>8. item' \in [Exec -> Seq(Item)]
    BY <2>3, <2>5 DEF Types, ExecTypes
  <2> QED BY <2>5, <2>6, <2>7, <2>8 DEF Items, calls
<1>4. /\ DOMAIN prior' = Exec /\ \A d \in Exec \ {e} : prior'[d] = prior[d]
      /\ \A k \in DOMAIN prior'[e] :
              k \in DOMAIN rows'[r] /\ prior'[e][k] = rows'[r][k] /\ ~Strays(r, k)
  <2>1. prior' = [prior EXCEPT ![e] =
          [k \in {k \in DOMAIN rows'[r] : ~Strays(r, k)} |-> rows'[r][k]]]
    BY DEF Starts
  <2>2. prior'[e] = [k \in {k \in DOMAIN rows'[r] : ~Strays(r, k)} |-> rows'[r][k]]
    BY <2>1 DEF Types, ExecTypes
  <2>3. DOMAIN prior' = Exec /\ \A d \in Exec \ {e} : prior'[d] = prior[d]
    BY <2>1 DEF Types, ExecTypes
  <2> QED BY <2>2, <2>3
<1> QED BY <1>1, <1>2, <1>3, <1>4

-----------------------------------------------------------------------------
(* What no step changes.                                                   *)

\* An execution keeps its run and its program, and a call that has settled its reply.
Frozen ==
  /\ \A d \in Exec : run[d] # None =>
       run'[d] = run[d] /\ Program(d)' = Program(d) /\ Items(d)' = Items(d)
  /\ \A d \in Exec : \A j \in Items(d) : item[d][j].at \in Settled =>
       item'[d][j].at = item[d][j].at /\ item'[d][j].out = item[d][j].out

LEMMA CallIs ==
  ASSUME Types, NEW e \in Exec, NEW i, NEW o, CallStep(e, i, o)
  PROVE  /\ i \in Items(e) /\ o \in Item /\ run[e] # None
         /\ item[e][i].at \in {"idle"} \cup InProgress /\ item[e][i].at \notin Settled
         /\ item' \in [Exec -> Seq(Item)]
         /\ \A d \in Exec : Items(d)' = Items(d) /\ Program(d)' = Program(d)
         /\ \A d \in Exec : \A j \in Items(d) :
              /\ Plan(d, j)' = Plan(d, j)
              /\ d # e \/ j # i => item'[d][j] = item[d][j]
         /\ item'[e][i] = o
<1>1. Moves(e, i, o) /\ prog' = prog /\ run' = run /\ ExecTypes
  BY DEF CallStep, Types
<1>2. /\ i \in Items(e) /\ o \in Item /\ item' = [item EXCEPT ![e][i] = o]
      /\ item[e][i].at \in {"idle"} \cup InProgress
  BY <1>1 DEF Moves
<1>3. item[e][i].at \notin Settled
  BY <1>2 DEF InProgress, Asking, Settled
<1>4. /\ item' \in [Exec -> Seq(Item)] /\ \A d \in Exec : Items(d)' = Items(d)
      /\ \A d \in Exec : \A j \in Items(d) : d # e \/ j # i => item'[d][j] = item[d][j]
      /\ item'[e][i] = o
  <2>1. ExecTypes
    BY <1>1
  <2>2. i \in Items(e) /\ o \in Item
    BY <1>2
  <2>3. Becomes(e, i, o)
    BY <1>2 DEF Becomes
  <2> QED BY <2>1, <2>2, <2>3, OneItem
<1>5. \A d \in Exec : Program(d)' = Program(d) /\ \A j \in Items(d) : Plan(d, j)' = Plan(d, j)
  BY <1>1 DEF Program, Plan
<1>6. run[e] # None
  BY <1>2, ItemTyped
<1> QED BY <1>2, <1>3, <1>4, <1>5, <1>6

LEMMA CallFrozen ==
  ASSUME Types, NEW e \in Exec, NEW i, NEW o, CallStep(e, i, o)
  PROVE  Frozen
<1>1. run' = run
  BY DEF CallStep
<1> QED BY <1>1, CallIs DEF Frozen

LEMMA StaysFrozen ==
  ASSUME Types, Stays
  PROVE  Frozen
BY DEF Stays, OnlyTold, Frozen, Program

LEMMA CrashFrozen ==
  ASSUME Types, Crashes
  PROVE  Frozen
<1>1. prog' = prog /\ run' = run
  BY DEF Crashes
<1> QED BY <1>1, CrashesIs DEF Frozen, Program, Types

LEMMA StartFrozen ==
  ASSUME Types, NEW e \in Exec, NEW r \in Run, Starts(e, r)
  PROVE  Frozen
<1>1. ASSUME NEW d \in Exec, run[d] # None
      PROVE  /\ d # e /\ run'[d] = run[d] /\ item'[d] = item[d] /\ run[d] \in Run
             /\ prog'[run[d]] = prog[run[d]]
  BY <1>1, StartsIs, Programmed DEF Types, ExecTypes
<1>2. \A d \in Exec : \A j \in Items(d) : run[d] # None
  BY ItemTyped
<1> QED BY <1>1, <1>2 DEF Frozen, Program, Items

\* A prompt that has been made quotes the same replies from then on.
LEMMA QuotesSame ==
  ASSUME Types, InStages, Frozen, NEW e \in Exec, NEW i \in Items(e),
         item[e][i].at \notin {"idle", "lost"}
  PROVE  Quotes(e, i)' = Quotes(e, i) /\ Prompt(e, i)' = Prompt(e, i)
<1>1. Items(e)' = Items(e) /\ \A j \in Items(e) : Plan(e, j)' = Plan(e, j)
  BY ItemTyped DEF Frozen, Plan
<1>2. \A j \in Items(e) : Plan(e, j).stage < Plan(e, i).stage => item'[e][j].out = item[e][j].out
  BY DEF InStages, Frozen, Settled
<1>3. Quotes(e, i)' = Quotes(e, i)
  BY <1>1, <1>2 DEF Quotes
<1> QED BY <1>3 DEF Prompt

-----------------------------------------------------------------------------
(* Types and plans.                                                        *)

LEMMA WritesIs ==
  ASSUME Types, NEW e \in Exec, run[e] # None, NEW i, NEW o, NEW k, NEW row,
         Writes(e, i, o, k, row)
  PROVE  /\ DOMAIN rows' = Run /\ \A r \in Run \ {run[e]} : rows'[r] = rows[r]
         /\ DOMAIN rows'[run[e]] = DOMAIN rows[run[e]] \cup {k}
         /\ rows'[run[e]][k] = row
         /\ \A n \in DOMAIN rows[run[e]] : n # k => rows'[run[e]][n] = rows[run[e]][n]
<1>1. run[e] \in Run /\ DOMAIN rows = Run
  BY Programmed DEF Types, RunTypes
<1> DEFINE new == [n \in DOMAIN rows[run[e]] \cup {k} |-> IF n = k THEN row ELSE rows[run[e]][n]]
<1>2. rows' = [rows EXCEPT ![run[e]] = new]
  BY DEF Writes
<1>3. rows'[run[e]] = new /\ DOMAIN rows' = Run /\ \A r \in Run \ {run[e]} : rows'[r] = rows[r]
  BY <1>1, <1>2
<1> QED BY <1>3

\* A sequence with the domain of the empty one is empty.
LEMMA NoItems ==
  ASSUME NEW s \in Seq(Item), DOMAIN s = DOMAIN <<>>
  PROVE  s = <<>>
<1>1. Len(s) \in Nat /\ DOMAIN s = 1..Len(s)
  BY LenProperties
<1>2. DOMAIN <<>> = {}
  OBVIOUS
<1>3. Len(s) = 0
  BY <1>1, <1>2
<1> QED BY <1>3, EmptySeq

LEMMA CallTypes ==
  ASSUME Types, NEW e \in Exec, NEW i, NEW o, CallStep(e, i, o), Counts(e)
  PROVE  Types'
<1>1. /\ UNCHANGED <<prog, run, status, aborted, crashes, prior>>
      /\ rows' = rows \/ \E k, row : Writes(e, i, o, k, row)
      /\ o.at \in Asking => o.index \in 1..Budget(Program(e))
  BY DEF CallStep, KeepsPlan
<1>2. run[e] \in Run /\ prog[run[e]] # None /\ Program(e) = prog[run[e]]
  BY CallIs, Programmed
<1>3. ASSUME NEW k, NEW row, Writes(e, i, o, k, row)  PROVE RunTypes'
  <2>1. /\ k \in 1..Budget(prog[run[e]])
        /\ row.status \in {"running", "completed", "failed", "cancelled"}
    BY <1>2, <1>3 DEF Writes
  <2>2. /\ DOMAIN rows' = Run /\ \A r \in Run \ {run[e]} : rows'[r] = rows[r]
        /\ DOMAIN rows'[run[e]] = DOMAIN rows[run[e]] \cup {k}
        /\ rows'[run[e]][k] = row
        /\ \A n \in DOMAIN rows[run[e]] : n # k => rows'[run[e]][n] = rows[run[e]][n]
    BY <1>3, CallIs, WritesIs
  <2> QED BY <1>1, <1>2, <2>1, <2>2 DEF Types, RunTypes
<1>4. RunTypes'
  BY <1>1, <1>3 DEF Types, RunTypes
<1>5. ExecTypes'
  BY <1>1, CallIs DEF Types, ExecTypes, Counts
<1>6. ASSUME NEW d \in Exec, run[d] # None
      PROVE  /\ count'[d] \in 0..Budget(Program(d))
             /\ \A j \in Items(d) : item'[d][j].at \in Asking =>
                  item'[d][j].index \in 1..Budget(Program(d))
  <2>1. count[d] \in 0..Budget(Program(d)) /\ (d = e \/ count'[d] = count[d])
    BY <1>6 DEF Types, Started, Counts
  <2>2. count'[d] \in 0..Budget(Program(d))
    BY <2>1 DEF Counts
  <2>3. ASSUME NEW j \in Items(d), item'[d][j].at \in Asking
        PROVE  item'[d][j].index \in 1..Budget(Program(d))
    <3>1. CASE d = e /\ j = i
      BY <1>1, <2>3, <3>1, CallIs
    <3>2. CASE d # e \/ j # i
      <4>1. item'[d][j] = item[d][j]
        BY <3>2, CallIs
      <4> QED BY <1>6, <2>3, <4>1 DEF Types, Started
    <3> QED BY <3>1, <3>2
  <2> QED BY <2>2, <2>3
<1>7. \A d \in Exec : run[d] = None => item'[d] = item[d] /\ count'[d] = count[d]
  <2>1. item' = [item EXCEPT ![e][i] = o] /\ run[e] # None
    BY CallIs DEF CallStep, Moves
  <2> QED BY <2>1 DEF Types, ExecTypes, Counts
<1>8. \A d \in Exec : Program(d)' = Program(d) /\ Items(d)' = Items(d)
  BY CallIs
<1>9. Started'
  BY <1>1, <1>6, <1>7, <1>8 DEF Types, Started, Program
<1> QED BY <1>4, <1>5, <1>9 DEF Types

LEMMA StaysTypes ==
  ASSUME Types, Stays
  PROVE  Types'
<1>1. RunTypes'
  BY DEF Types, RunTypes, Stays
<1>2. ASSUME NEW d \in Exec
      PROVE  /\ Program(d)' = Program(d) /\ Items(d)' = Items(d)
             /\ run[d] = None => item'[d] = <<>>
             /\ status'[d] = "none" <=> status[d] = "none"
  <2>1. Program(d)' = Program(d) /\ Items(d)' = Items(d)
    BY DEF Stays, OnlyTold, Program
  <2>2. ASSUME run[d] = None  PROVE item'[d] = <<>>
    <3>1. item'[d] \in Seq(Item) /\ DOMAIN item'[d] = DOMAIN <<>>
      BY <2>1, <2>2 DEF Stays, OnlyTold, Types, Started, Items
    <3> QED BY <3>1, NoItems
  <2>3. status'[d] = "none" <=> status[d] = "none"
    BY DEF Stays, CanEnd
  <2> QED BY <2>1, <2>2, <2>3
<1>3. Started'
  <2>1. UNCHANGED <<prog, run, count>>
    BY DEF Stays
  <2>2. \A d \in Exec : \A j \in Items(d) :
          item'[d][j].at = item[d][j].at /\ item'[d][j].index = item[d][j].index
    BY DEF Stays, OnlyTold
  <2> QED BY <1>2, <2>1, <2>2 DEF Types, Started, Program
<1>4. ExecTypes'
  BY DEF Types, ExecTypes, Stays, OnlyTold
<1> QED BY <1>1, <1>3, <1>4 DEF Types

LEMMA CrashTypes ==
  ASSUME Types, Crashes
  PROVE  Types'
<1>1. RunTypes'
  BY DEF Types, RunTypes, Crashes
<1>2. ExecTypes'
  BY CrashesIs, FleetAssumption DEF Types, ExecTypes, Crashes, Statuses
<1>3. ASSUME NEW d \in Exec
      PROVE  /\ Program(d)' = Program(d) /\ Items(d)' = Items(d)
             /\ run[d] = None => item'[d] = <<>>
             /\ status'[d] = "none" <=> status[d] = "none"
             /\ \A j \in Items(d) : item'[d][j].at \notin Asking
  <2>1. Program(d)' = Program(d) /\ Items(d)' = Items(d) /\ item'[d] \in Seq(Item)
    BY CrashesIs DEF Crashes, Program, Types
  <2>2. ASSUME run[d] = None  PROVE item'[d] = <<>>
    <3>1. DOMAIN item'[d] = DOMAIN <<>>
      BY <2>1, <2>2 DEF Types, Started, Items
    <3> QED BY <2>1, <3>1, NoItems
  <2>3. status'[d] = "none" <=> status[d] = "none"
    BY DEF Crashes, Types, ExecTypes
  <2>4. \A j \in Items(d) : item'[d][j].at \notin Asking
    BY CrashesIs DEF Types, Asking, Settled
  <2> QED BY <2>1, <2>2, <2>3, <2>4
<1>4. Started'
  BY <1>3 DEF Types, Started, Crashes, Program
<1> QED BY <1>1, <1>2, <1>4 DEF Types

LEMMA StartTypes ==
  ASSUME Types, NEW e \in Exec, NEW r \in Run, Starts(e, r)
  PROVE  Types'
<1>1. UNCHANGED <<count, aborted, crashes>>
  BY DEF Starts
<1>2. RunTypes'
  BY StartsIs
<1>3. ExecTypes'
  <2>1. /\ run' = [run EXCEPT ![e] = r] /\ status' = [status EXCEPT ![e] = "running"]
        /\ item' \in [Exec -> Seq(Item)] /\ DOMAIN prior' = Exec
    BY StartsIs
  <2> QED BY <1>1, <2>1 DEF Types, ExecTypes, Statuses
<1>4. ASSUME NEW d \in Exec, d # e
      PROVE  /\ run'[d] = run[d] /\ status'[d] = status[d] /\ item'[d] = item[d]
             /\ Items(d)' = Items(d)
             /\ run[d] # None => Program(d)' = Program(d)
  BY <1>4, StartsIs, StartFrozen DEF Types, ExecTypes, Frozen, Items
<1>5. /\ run'[e] = r /\ status'[e] = "running" /\ Program(e)' = prog'[r] /\ prog'[r] # None
      /\ r # None /\ Items(e)' = 1..Len(prog'[r].calls)
      /\ \A i \in Items(e)' : item'[e][i].at = "idle"
  <2>1. /\ run' = [run EXCEPT ![e] = r] /\ status' = [status EXCEPT ![e] = "running"]
        /\ prog'[r] # None /\ Items(e)' = 1..Len(prog'[r].calls)
        /\ \A i \in Items(e)' : item'[e][i] = New(prog'[r].calls[i].who)
    BY StartsIs
  <2>2. run'[e] = r /\ status'[e] = "running" /\ Program(e)' = prog'[r]
    BY <2>1 DEF Types, ExecTypes, Program
  <2>3. r # None
    BY FleetAssumption
  <2>4. \A i \in Items(e)' : item'[e][i].at = "idle"
    <3>1. \A m : New(m).at = "idle"
      BY DEF New
    <3> QED BY <2>1, <3>1
  <2> QED BY <2>1, <2>2, <2>3, <2>4
<1>6. count'[e] \in 0..Budget(prog'[r])
  <2>1. prog'[r].mode \in Mode /\ prog'[r].calls \in Seq(CallRecord)
    BY <1>2, <1>5 DEF RunTypes
  <2>2. Budget(prog'[r]) \in Nat
    BY <2>1, BudgetNat
  <2>3. count[e] = 0
    BY StartsIs DEF Types, Started
  <2> QED BY <1>1, <2>2, <2>3
<1>7. Started'
  BY <1>1, <1>4, <1>5, <1>6 DEF Types, Started, Program, Asking
<1> QED BY <1>2, <1>3, <1>7 DEF Types

Orderly == Planned /\ InStages /\ Ended

LEMMA CallOrderly ==
  ASSUME Types, Orderly, NEW e \in Exec, NEW i, NEW o, CallStep(e, i, o)
  PROVE  Orderly'
<1>1. /\ Moves(e, i, o) /\ KeepsPlan(e, i, o) /\ UNCHANGED <<prog, run, status>>
      /\ rows' = rows \/ \E k, row : Writes(e, i, o, k, row)
  BY DEF CallStep
<1>2. /\ i \in Items(e) /\ item[e][i].at \in {"idle"} \cup InProgress
      /\ item[e][i].at \notin Settled \cup {"lost"} /\ item'[e][i] = o
      /\ run[e] # None /\ run[e] \in Run /\ prog[run[e]] = Program(e)
      /\ Items(e) = DOMAIN Program(e).calls /\ Items(e) = 1..Len(Program(e).calls)
      /\ Shape(Program(e)) /\ Len(Program(e).calls) \in Nat
  BY CallIs, Programmed DEF InProgress, Asking, Settled
<1>3. \A d \in Exec : Items(d)' = Items(d) /\ Program(d)' = Program(d)
  BY CallIs
<1>4. \A d \in Exec : \A j \in Items(d) :
        Plan(d, j)' = Plan(d, j) /\ (d # e \/ j # i => item'[d][j] = item[d][j])
  BY CallIs
<1>5. ASSUME NEW d \in Exec, run[d] # None, Program(d).mode # "module", NEW j \in Items(d)
      PROVE  /\ item'[d][j].who = Plan(d, j).who
             /\ item'[d][j].at \in Asking => item'[d][j].index = j
             /\ item'[d][j].at \in InProgress => j \in 1..Budget(Program(d))
             /\ item'[d][j].at = "threw" => ~Plan(d, j).optional
  <2>1. CASE d = e /\ j = i
    BY <1>1, <1>2, <1>5, <2>1 DEF Orderly, Planned, KeepsPlan, Module
  <2>2. CASE d # e \/ j # i
    BY <1>4, <1>5, <2>2 DEF Orderly, Planned
  <2> QED BY <2>1, <2>2
<1>6. ASSUME NEW r \in Run, prog[r] # None, prog[r].mode # "module", NEW k \in DOMAIN rows'[r]
      PROVE  k \in DOMAIN prog[r].calls /\ rows'[r][k].who = prog[r].calls[k].who
  <2>1. CASE rows' = rows
    BY <1>6, <2>1 DEF Orderly, Planned
  <2>2. ASSUME NEW n, NEW row, Writes(e, i, o, n, row)
        PROVE  k \in DOMAIN prog[r].calls /\ rows'[r][k].who = prog[r].calls[k].who
    <3>1. /\ \A q \in Run \ {run[e]} : rows'[q] = rows[q]
          /\ DOMAIN rows'[run[e]] = DOMAIN rows[run[e]] \cup {n}
          /\ rows'[run[e]][n] = row
          /\ \A m \in DOMAIN rows[run[e]] : m # n => rows'[run[e]][m] = rows[run[e]][m]
      BY <1>2, <2>2, WritesIs
    <3>2. CASE r = run[e] /\ k = n
      <4>1. n = i /\ row.who = item[e][i].who
        BY <1>2, <1>6, <2>2, <3>2 DEF Writes, Module
      <4>2. item[e][i].who = Program(e).calls[i].who
        BY <1>2, <1>6, <3>2 DEF Orderly, Planned, Plan
      <4> QED BY <1>2, <3>1, <3>2, <4>1, <4>2
    <3>3. CASE r # run[e] \/ k # n
      <4>1. k \in DOMAIN rows[r] /\ rows'[r][k] = rows[r][k]
        BY <3>1, <3>3
      <4> QED BY <1>6, <4>1 DEF Orderly, Planned
    <3> QED BY <3>2, <3>3
  <2> QED BY <1>1, <2>1, <2>2
<1>7. Planned'
  BY <1>1, <1>3, <1>4, <1>5, <1>6 DEF Planned
<1>8. ASSUME NEW d \in Exec, NEW a \in Items(d), NEW b \in Items(d),
             item'[d][a].at \notin {"idle", "lost"}, Plan(d, b).stage < Plan(d, a).stage
      PROVE  item'[d][b].at \in {"done", "failed"}
  <2>1. CASE d # e \/ (a # i /\ b # i)
    BY <1>4, <1>8, <2>1 DEF Orderly, InStages
  <2>2. CASE d = e /\ b = i /\ a # i
    <3>1. item[e][i].at \in {"done", "failed"}
      BY <1>4, <1>8, <2>2 DEF Orderly, InStages
    <3> QED BY <1>2, <3>1 DEF Settled
  <2>3. CASE d = e /\ a = i
    <3>1. Plan(e, b).stage \in Nat /\ Plan(e, i).stage \in Nat /\ b \in Nat /\ i \in Nat
      BY <1>2, <1>8, <2>3, ItemTyped DEF CallRecord
    <3>2. b # i
      BY <1>8, <2>3, <3>1
    <3>3. CASE item[e][i].at # "idle"
      <4>1. item[e][b].at \in {"done", "failed"}
        BY <1>2, <1>8, <2>3, <3>3 DEF Orderly, InStages
      <4> QED BY <1>4, <2>3, <3>2, <4>1
    <3>4. CASE item[e][i].at = "idle"
      <4>1. CanTake(e, i)
        BY <1>1, <3>4 DEF Moves
      <4>2. ~(i < b)
        BY <1>2, <1>8, <2>3, <3>1 DEF Shape, Plan
      <4>3. b \in 1..(i - 1)
        BY <1>2, <2>3, <3>1, <3>2, <4>2
      <4>4. b \notin Stage(e, i)
        BY <1>8, <2>3, <3>1 DEF Stage
      <4>5. item[e][b].at \in {"done", "failed"}
        BY <4>1, <4>3, <4>4 DEF CanTake
      <4> QED BY <1>4, <2>3, <3>2, <4>5
    <3> QED BY <3>3, <3>4
  <2> QED BY <2>1, <2>2, <2>3
<1>9. InStages'
  BY <1>3, <1>4, <1>8 DEF InStages
<1>10. ASSUME NEW d \in Exec
       PROVE  /\ status[d] \in {"completed", "failed", "cancelled"} =>
                   Threw(d)' \/ \A j \in Items(d) : item'[d][j].at \in Settled
              /\ status[d] = "dead" => \A j \in Items(d) : item'[d][j].at \in Settled \cup {"lost"}
  <2>1. CASE d # e
    BY <1>3, <1>4, <2>1 DEF Orderly, Ended, Threw
  <2>2. CASE d = e
    <3>1. status[e] # "dead"
      BY <1>2 DEF Orderly, Ended
    <3>2. ASSUME status[e] \in {"completed", "failed", "cancelled"}  PROVE Threw(e)'
      <4>1. PICK j \in Items(e) : item[e][j].at = "threw"
        BY <1>2, <3>2 DEF Orderly, Ended, Threw
      <4>2. j # i /\ item'[e][j] = item[e][j]
        BY <1>2, <1>4, <4>1 DEF Settled
      <4> QED BY <1>3, <4>1, <4>2 DEF Threw
    <3> QED BY <2>2, <3>1, <3>2
  <2> QED BY <2>1, <2>2
<1>11. Ended'
  BY <1>1, <1>3, <1>10 DEF Ended
<1> QED BY <1>7, <1>9, <1>11 DEF Orderly

LEMMA StaysOrderly ==
  ASSUME Types, Orderly, Stays
  PROVE  Orderly'
<1>1. /\ UNCHANGED <<prog, rows, run>>
      /\ \A d \in Exec : Items(d)' = Items(d) /\ Program(d)' = Program(d)
      /\ \A d \in Exec : \A j \in Items(d) :
           /\ Plan(d, j)' = Plan(d, j) /\ item'[d][j].at = item[d][j].at
           /\ item'[d][j].who = item[d][j].who /\ item'[d][j].index = item[d][j].index
  BY DEF Stays, OnlyTold, Program, Plan
<1>2. Planned' /\ InStages'
  BY <1>1 DEF Orderly, Planned, InStages
<1>3. \A d \in Exec : status'[d] # status[d] =>
        /\ Threw(d) \/ \A j \in Items(d) : item[d][j].at \in Settled
        /\ status'[d] \in {"completed", "failed", "cancelled"}
  BY DEF Stays, CanEnd
<1>4. Ended'
  BY <1>1, <1>3 DEF Orderly, Ended, Threw
<1> QED BY <1>2, <1>4 DEF Orderly

LEMMA CrashOrderly ==
  ASSUME Types, Orderly, Crashes
  PROVE  Orderly'
<1>1. /\ UNCHANGED <<prog, rows, run>>
      /\ \A d \in Exec : Items(d)' = Items(d) /\ Program(d)' = Program(d)
      /\ \A d \in Exec : \A j \in Items(d) :
           /\ Plan(d, j)' = Plan(d, j) /\ item'[d][j].who = item[d][j].who
           /\ item[d][j].at \in Settled => item'[d][j] = item[d][j]
           /\ item[d][j].at \notin Settled => item'[d][j].at = "lost"
  BY CrashesIs DEF Crashes, Program, Plan, Types
<1>2. Planned'
  BY <1>1 DEF Orderly, Planned, InProgress, Asking, Settled
<1>3. InStages'
  BY <1>1 DEF Orderly, InStages, Settled
<1>4. \A d \in Exec : status'[d] \in {"completed", "failed", "cancelled"} => status'[d] = status[d]
  BY DEF Crashes, Types, ExecTypes
<1>5. Ended'
  BY <1>1, <1>4 DEF Orderly, Ended, Threw, Settled
<1> QED BY <1>2, <1>3, <1>5 DEF Orderly

LEMMA StartOrderly ==
  ASSUME Types, Orderly, NEW e \in Exec, NEW r \in Run, Starts(e, r)
  PROVE  Orderly'
<1>1. ASSUME NEW d \in Exec, d # e
      PROVE  /\ run'[d] = run[d] /\ status'[d] = status[d] /\ item'[d] = item[d]
             /\ Items(d)' = Items(d)
             /\ run[d] # None => Program(d)' = Program(d)
             /\ \A j \in Items(d) : Plan(d, j)' = Plan(d, j)
  BY <1>1, StartsIs, StartFrozen, ItemTyped DEF Types, ExecTypes, Frozen, Items, Plan
<1>2. /\ run'[e] = r /\ status'[e] = "running"
      /\ \A i \in Items(e)' : item'[e][i] = New(Plan(e, i)'.who)
  BY StartsIs DEF Types, ExecTypes, Program, Plan
<1>3. \A m : New(m).at = "idle" /\ New(m).who = m
  BY DEF New
<1>4. ASSUME NEW d \in Exec, run'[d] # None, Program(d)'.mode # "module", NEW j \in Items(d)'
      PROVE  /\ item'[d][j].who = Plan(d, j)'.who
             /\ item'[d][j].at \in Asking => item'[d][j].index = j
             /\ item'[d][j].at \in InProgress => j \in 1..Budget(Program(d)')
             /\ item'[d][j].at = "threw" => ~Plan(d, j)'.optional
  BY <1>1, <1>2, <1>3, <1>4 DEF Orderly, Planned, InProgress, Asking
<1>5. ASSUME NEW q \in Run, prog'[q] # None, prog'[q].mode # "module", NEW k \in DOMAIN rows'[q]
      PROVE  k \in DOMAIN prog'[q].calls /\ rows'[q][k].who = prog'[q].calls[k].who
  <2>1. k \in DOMAIN rows[q] /\ rows'[q][k] = rows[q][k]
    BY <1>5, StartsIs
  <2>2. prog'[q] = prog[q] /\ prog[q] # None
    BY <2>1, StartsIs DEF Types, RunTypes
  <2> QED BY <1>5, <2>1, <2>2 DEF Orderly, Planned
<1>6. Planned'
  BY <1>4, <1>5 DEF Planned
<1>7. InStages'
  BY <1>1, <1>2, <1>3 DEF Orderly, InStages
<1>8. Ended'
  BY <1>1, <1>2 DEF Orderly, Ended, Threw
<1> QED BY <1>6, <1>7, <1>8 DEF Orderly

-----------------------------------------------------------------------------
(* Where replies come from.                                                *)

\* A reply that is there stays, with the prompt it answered.
LEMMA GotStays ==
  ASSUME Types, InStages, Frozen, NEW d \in Exec, NEW i, Got(d, i)
  PROVE  Got(d, i)' /\ Quotes(d, i)' = Quotes(d, i) /\ Prompt(d, i)' = Prompt(d, i)
<1>1. i \in Items(d) /\ item[d][i].at = "done"
  BY DEF Got, At, Items
<1>2. Got(d, i)'
  BY <1>1, ItemTyped DEF Got, At, Frozen, Settled, Items
<1> QED BY <1>1, <1>2, QuotesSame

\* What a record or a reply owes its origin to stays with it.
LEMMA RowStays ==
  ASSUME Types, InStages, Frozen, Origins, NEW r \in Run, NEW k,
         k \in DOMAIN rows[r], rows'[r][k] = rows[r][k], rows[r][k].status = "completed"
  PROVE  \E d \in Exec, i \in Position :
           rows'[r][k].out = d /\ Got(d, i)' /\ rows'[r][k].prompt = Prompt(d, i)'
<1>1. PICK d \in Exec, i \in Position :
        rows[r][k].out = d /\ Got(d, i) /\ rows[r][k].prompt = Prompt(d, i)
  BY DEF Origins
<1>2. Got(d, i)' /\ Prompt(d, i)' = Prompt(d, i)
  BY <1>1, GotStays
<1> QED BY <1>1, <1>2

LEMMA ReplyStays ==
  ASSUME Types, InStages, Frozen, Origins, NEW e \in Exec, NEW i \in Items(e),
         item[e][i].at = "done"
  PROVE  \E d \in Exec : item'[e][i].out = d /\ Got(d, i)' /\ Quotes(d, i)' = Quotes(e, i)'
<1>1. PICK d \in Exec : item[e][i].out = d /\ Got(d, i) /\ Quotes(d, i) = Quotes(e, i)
  BY DEF Origins
<1>2. Got(d, i)' /\ Quotes(d, i)' = Quotes(d, i)
  BY <1>1, GotStays
<1>3. Quotes(e, i)' = Quotes(e, i)
  BY QuotesSame
<1>4. item'[e][i].out = item[e][i].out
  BY DEF Frozen, Settled
<1> QED BY <1>1, <1>2, <1>3, <1>4

LEMMA OriginsStay ==
  ASSUME Types, InStages, Frozen, Origins,
         \A r \in Run : \A k \in DOMAIN rows'[r] :
           k \in DOMAIN rows[r] /\ rows'[r][k] = rows[r][k],
         \A e \in Exec : \A i \in Items(e)' : item'[e][i].at = "done" =>
           i \in Items(e) /\ item[e][i].at = "done"
  PROVE  Origins'
<1>1. ASSUME NEW r \in Run, NEW k \in DOMAIN rows'[r], rows'[r][k].status = "completed"
      PROVE  \E d \in Exec, i \in Position :
               rows'[r][k].out = d /\ Got(d, i)' /\ rows'[r][k].prompt = Prompt(d, i)'
  BY <1>1, RowStays
<1>2. ASSUME NEW e \in Exec, NEW i \in Items(e)', item'[e][i].at = "done"
      PROVE  \E d \in Exec :
               item'[e][i].out = d /\ Got(d, i)' /\ Quotes(d, i)' = Quotes(e, i)'
  BY <1>2, ReplyStays
<1> QED BY <1>1, <1>2 DEF Origins

\* A call does not quote itself.
LEMMA CallQuotes ==
  ASSUME Types, NEW e \in Exec, NEW i, NEW o, CallStep(e, i, o)
  PROVE  Quotes(e, i)' = Quotes(e, i) /\ Prompt(e, i)' = Prompt(e, i)
<1>1. /\ i \in Items(e) /\ Items(e)' = Items(e)
      /\ \A j \in Items(e) :
           Plan(e, j)' = Plan(e, j) /\ (j # i => item'[e][j] = item[e][j])
  BY CallIs
<1>2. Plan(e, i).stage \in Nat
  BY <1>1, ItemTyped DEF CallRecord
<1>3. \A j \in Items(e) : Plan(e, j).stage < Plan(e, i).stage => j # i
  BY <1>2
<1>4. Quotes(e, i)' = Quotes(e, i)
  BY <1>1, <1>3 DEF Quotes
<1> QED BY <1>4 DEF Prompt

LEMMA CallOrigins ==
  ASSUME Types, Orderly, Origins, NEW e \in Exec, NEW i, NEW o, CallStep(e, i, o)
  PROVE  Origins'
<1>1. Frozen /\ InStages
  BY CallFrozen DEF Orderly
<1>2. /\ i \in Items(e) /\ item'[e][i] = o /\ run[e] # None /\ run[e] \in Run
      /\ \A d \in Exec : Items(d)' = Items(d)
      /\ \A d \in Exec : \A j \in Items(d) : d # e \/ j # i => item'[d][j] = item[d][j]
  BY CallIs, Programmed
<1>3. rows' = rows \/ \E k, row : Writes(e, i, o, k, row)
  BY DEF CallStep
<1>4. i \in Position
  BY <1>2, ItemTyped
<1>5. Quotes(e, i)' = Quotes(e, i) /\ Prompt(e, i)' = Prompt(e, i)
  BY CallQuotes
<1>6. ASSUME o.at = "done", item[e][i].at = "prompting" \/ o.out = e  PROVE Got(e, i)'
  BY <1>2, <1>6 DEF Got, At, Items
<1>7. ASSUME NEW k, NEW row, Writes(e, i, o, k, row), row.status = "completed"
      PROVE  Got(e, i)' /\ row.out = e /\ row.prompt = Prompt(e, i)'
  BY <1>5, <1>6, <1>7 DEF Writes
<1>8. ASSUME NEW r \in Run, NEW k \in DOMAIN rows'[r], rows'[r][k].status = "completed"
      PROVE  \E d \in Exec, j \in Position :
               rows'[r][k].out = d /\ Got(d, j)' /\ rows'[r][k].prompt = Prompt(d, j)'
  <2>1. CASE rows' = rows
    BY <1>1, <1>8, <2>1, RowStays
  <2>2. ASSUME NEW n, NEW row, Writes(e, i, o, n, row)
        PROVE  \E d \in Exec, j \in Position :
                 rows'[r][k].out = d /\ Got(d, j)' /\ rows'[r][k].prompt = Prompt(d, j)'
    <3>1. /\ \A q \in Run \ {run[e]} : rows'[q] = rows[q]
          /\ DOMAIN rows'[run[e]] = DOMAIN rows[run[e]] \cup {n}
          /\ rows'[run[e]][n] = row
          /\ \A m \in DOMAIN rows[run[e]] : m # n => rows'[run[e]][m] = rows[run[e]][m]
      BY <1>2, <2>2, WritesIs
    <3>2. CASE r = run[e] /\ k = n
      <4>1. rows'[r][k] = row /\ row.status = "completed"
        BY <1>8, <3>1, <3>2
      <4>2. Got(e, i)' /\ row.out = e /\ row.prompt = Prompt(e, i)'
        BY <1>7, <2>2, <4>1
      <4> QED BY <1>4, <4>1, <4>2
    <3>3. CASE r # run[e] \/ k # n
      <4>1. k \in DOMAIN rows[r] /\ rows'[r][k] = rows[r][k]
        BY <3>1, <3>3
      <4> QED BY <1>1, <1>8, <4>1, RowStays
    <3> QED BY <3>2, <3>3
  <2> QED BY <1>3, <2>1, <2>2
<1>9. ASSUME o.at = "done"
      PROVE  \E d \in Exec : o.out = d /\ Got(d, i)' /\ Quotes(d, i)' = Quotes(e, i)'
  <2>1. Reasons(e, i, o)
    BY DEF CallStep
  <2>2. CASE item[e][i].at = "prompting" /\ o.out = e
    BY <1>6, <1>9, <2>2
  <2>3. ASSUME NEW k \in DOMAIN rows[run[e]], Cached(e, i, k), o.out = rows[run[e]][k].out
        PROVE  \E d \in Exec : o.out = d /\ Got(d, i)' /\ Quotes(d, i)' = Quotes(e, i)'
    <3>1. rows[run[e]][k].status = "completed" /\ rows[run[e]][k].prompt = Prompt(e, i) /\ k \in Nat
      BY <1>2, <2>3 DEF Cached, Prefix, Same, Types, RunTypes
    <3>2. PICK d \in Exec, j \in Position :
            rows[run[e]][k].out = d /\ Got(d, j) /\ rows[run[e]][k].prompt = Prompt(d, j)
      BY <1>2, <3>1 DEF Origins
    <3>3. j = i /\ Quotes(d, i) = Quotes(e, i)
      BY <3>1, <3>2 DEF Prompt
    <3>4. Got(d, i)' /\ Quotes(d, i)' = Quotes(d, i)
      BY <1>1, <3>2, <3>3, GotStays
    <3> QED BY <1>5, <2>3, <3>2, <3>3, <3>4
  <2> QED BY <1>9, <2>1, <2>2, <2>3 DEF Reasons
<1>10. ASSUME NEW d \in Exec, NEW j \in Items(d)', item'[d][j].at = "done"
       PROVE  \E c \in Exec :
                item'[d][j].out = c /\ Got(c, j)' /\ Quotes(c, j)' = Quotes(d, j)'
  <2>1. CASE d = e /\ j = i
    BY <1>2, <1>9, <1>10, <2>1
  <2>2. CASE d # e \/ j # i
    BY <1>1, <1>2, <1>10, <2>2, ReplyStays
  <2> QED BY <2>1, <2>2
<1> QED BY <1>8, <1>10 DEF Origins

LEMMA StaysOrigins ==
  ASSUME Types, Orderly, Origins, Stays
  PROVE  Origins'
<1>1. Frozen /\ InStages
  BY StaysFrozen DEF Orderly
<1>2. rows' = rows
  BY DEF Stays
<1>3. \A e \in Exec : \A i \in Items(e)' : item'[e][i].at = "done" =>
        i \in Items(e) /\ item[e][i].at = "done"
  BY DEF Stays, OnlyTold
<1> QED BY <1>1, <1>2, <1>3, OriginsStay

LEMMA CrashOrigins ==
  ASSUME Types, Orderly, Origins, Crashes
  PROVE  Origins'
<1>1. Frozen /\ InStages
  BY CrashFrozen DEF Orderly
<1>2. rows' = rows
  BY DEF Crashes
<1>3. \A e \in Exec : \A i \in Items(e)' : item'[e][i].at = "done" =>
        i \in Items(e) /\ item[e][i].at = "done"
  BY CrashesIs DEF Types, Settled
<1> QED BY <1>1, <1>2, <1>3, OriginsStay

LEMMA StartOrigins ==
  ASSUME Types, Orderly, Origins, NEW e \in Exec, NEW r \in Run, Starts(e, r)
  PROVE  Origins'
<1>1. Frozen /\ InStages
  BY StartFrozen DEF Orderly
<1>2. \A q \in Run : \A k \in DOMAIN rows'[q] :
        k \in DOMAIN rows[q] /\ rows'[q][k] = rows[q][k]
  BY StartsIs
<1>3. \A m : New(m).at = "idle"
  BY DEF New
<1>4. \A d \in Exec : \A i \in Items(d)' : item'[d][i].at = "done" =>
        i \in Items(d) /\ item[d][i].at = "done"
  BY <1>3, StartsIs DEF Items
<1> QED BY <1>1, <1>2, <1>4, OriginsStay

-----------------------------------------------------------------------------
(* Sessions and aborts.                                                    *)

PromptsHold == InSession /\ SessionsHold /\ AbortReaches

LEMMA SessionsRemember ==
  ASSUME SessionsHold
  PROVE  Remembers
BY DEF SessionsHold, Remembers

\* A prompt that goes on does so in its member's session, and is told no less.
LEMMA PromptKeeps ==
  ASSUME Types, PromptsHold, Frozen, NEW e \in Exec, NEW i \in Items(e),
         item[e][i].at = "prompting",
         item'[e][i].who = item[e][i].who, item'[e][i].session = item[e][i].session
  PROVE  /\ item'[e][i].session \in Session /\ item'[e][i].session[3] = item'[e][i].who
         /\ item'[e][i].who \in Isolated => run'[item'[e][i].session[1]] = run'[e]
<1>1. i \in Prompting(e)
  BY DEF Prompting
<1>2. item[e][i].session \in Session /\ run[e] # None /\ run'[e] = run[e]
  BY <1>1, ItemTyped DEF Frozen, PromptsHold, InSession
<1>3. /\ item[e][i].session[3] = item[e][i].who
      /\ item[e][i].who \in Isolated => run[item[e][i].session[1]] = run[e]
  BY <1>1 DEF PromptsHold, SessionsHold
<1>4. item[e][i].session[1] \in Exec
  BY <1>2 DEF Session
<1>5. run[item[e][i].session[1]] # None =>
        run'[item[e][i].session[1]] = run[item[e][i].session[1]]
  BY <1>4 DEF Frozen
<1> QED BY <1>2, <1>3, <1>5

LEMMA CallPrompts ==
  ASSUME Types, PromptsHold, NEW e \in Exec, NEW i, NEW o, CallStep(e, i, o), Remembers'
  PROVE  PromptsHold'
<1>1. /\ Prompted(e, i, o) /\ aborted' = aborted /\ run' = run /\ Frozen
  BY CallFrozen DEF CallStep
<1>2. /\ i \in Items(e) /\ item'[e][i] = o /\ \A d \in Exec : Items(d)' = Items(d)
      /\ \A d \in Exec : \A j \in Items(d) : d # e \/ j # i => item'[d][j] = item[d][j]
  BY CallIs
<1>3. ASSUME NEW d \in Exec, NEW j \in Items(d), item'[d][j].at = "prompting"
      PROVE  /\ item'[d][j].session \in Session /\ item'[d][j].session[3] = item'[d][j].who
             /\ item'[d][j].who \in Isolated => run'[item'[d][j].session[1]] = run'[d]
             /\ d \in aborted' => item'[d][j].told
  <2>1. CASE d = e /\ j = i
    BY <1>1, <1>2, <1>3, <2>1 DEF Prompted
  <2>2. CASE d # e \/ j # i
    <3>1. item'[d][j] = item[d][j]
      BY <1>2, <2>2
    <3>2. d \in aborted' => item'[d][j].told
      BY <1>1, <1>3, <3>1 DEF PromptsHold, AbortReaches
    <3> QED BY <1>1, <1>3, <3>1, <3>2, PromptKeeps
  <2> QED BY <2>1, <2>2
<1>4. aborted' \subseteq Exec
  BY <1>1 DEF Types, ExecTypes
<1> QED BY <1>2, <1>3, <1>4 DEF PromptsHold, InSession, SessionsHold, AbortReaches, Prompting, Remembers

LEMMA StaysPrompts ==
  ASSUME Types, PromptsHold, Stays, Remembers'
  PROVE  PromptsHold'
<1>1. /\ Frozen /\ aborted' \subseteq Exec
      /\ \A d \in aborted' \ aborted : \A j \in Prompting(d) : item'[d][j].told
  BY StaysFrozen DEF Stays
<1>2. /\ \A d \in Exec : Items(d)' = Items(d)
      /\ \A d \in Exec : \A j \in Items(d) :
           /\ item'[d][j].at = item[d][j].at /\ item'[d][j].who = item[d][j].who
           /\ item'[d][j].session = item[d][j].session
           /\ item[d][j].told => item'[d][j].told
  BY DEF Stays, OnlyTold
<1>3. ASSUME NEW d \in Exec, NEW j \in Items(d), item'[d][j].at = "prompting"
      PROVE  /\ item'[d][j].session \in Session /\ item'[d][j].session[3] = item'[d][j].who
             /\ item'[d][j].who \in Isolated => run'[item'[d][j].session[1]] = run'[d]
             /\ d \in aborted' => item'[d][j].told
  <2>1. d \in aborted' => item'[d][j].told
    BY <1>1, <1>2, <1>3 DEF PromptsHold, AbortReaches, Prompting
  <2> QED BY <1>1, <1>2, <1>3, <2>1, PromptKeeps
<1> QED BY <1>1, <1>2, <1>3 DEF PromptsHold, InSession, SessionsHold, AbortReaches, Prompting, Remembers

LEMMA CrashPrompts ==
  ASSUME Types, PromptsHold, Crashes, Remembers'
  PROVE  PromptsHold'
<1>1. aborted' \subseteq Exec
  BY DEF Crashes, Types, ExecTypes
<1>2. \A d \in Exec : \A j \in Items(d)' : item'[d][j].at # "prompting"
  BY CrashesIs DEF Types, Settled
<1> QED BY <1>1, <1>2 DEF PromptsHold, InSession, SessionsHold, AbortReaches, Prompting, Remembers

LEMMA StartPrompts ==
  ASSUME Types, PromptsHold, NEW e \in Exec, NEW r \in Run, Starts(e, r), Remembers'
  PROVE  PromptsHold'
<1>1. Frozen /\ aborted' = aborted /\ aborted' \subseteq Exec
  BY StartFrozen DEF Starts, Types, ExecTypes
<1>2. \A m : New(m).at = "idle"
  BY DEF New
<1>3. /\ \A d \in Exec \ {e} : item'[d] = item[d]
      /\ \A j \in Items(e)' : item'[e][j].at = "idle"
  BY <1>2, StartsIs
<1>4. ASSUME NEW d \in Exec, NEW j \in Items(d)', item'[d][j].at = "prompting"
      PROVE  /\ item'[d][j].session \in Session /\ item'[d][j].session[3] = item'[d][j].who
             /\ item'[d][j].who \in Isolated => run'[item'[d][j].session[1]] = run'[d]
             /\ d \in aborted' => item'[d][j].told
  <2>1. d # e /\ item'[d] = item[d] /\ j \in Items(d)
    BY <1>3, <1>4 DEF Items
  <2>2. d \in aborted' => item'[d][j].told
    BY <1>1, <1>4, <2>1 DEF PromptsHold, AbortReaches
  <2> QED BY <1>1, <1>4, <2>1, <2>2, PromptKeeps
<1> QED BY <1>1, <1>4 DEF PromptsHold, InSession, SessionsHold, AbortReaches, Prompting, Remembers

\* The saved sessions, what the runner remembers of them, and the workspaces.
Maps == SessionTypes /\ SavedFor /\ Remembers

\* Most steps leave them alone: a run that starts leaves them to their runs.
LEMMA MapsStay ==
  ASSUME Types, Maps, Frozen, UNCHANGED <<saved, kept, cleaning>>,
         \A k \in Key : sessions'[k] \in {None, saved[k]},
         sessions' \in [Key -> Session \cup {None}]
  PROVE  Maps'
<1>1. SessionTypes' /\ Remembers'
  BY DEF Maps, SessionTypes, Remembers
<1>2. ASSUME NEW k \in Key, saved[k] # None, k[2] # None  PROVE run'[saved[k][1]] = k[2]
  <2>1. run[saved[k][1]] = k[2] /\ saved[k] \in Session
    BY <1>2 DEF Maps, SavedFor, SessionTypes
  <2>2. saved[k][1] \in Exec
    BY <2>1 DEF Session
  <2> QED BY <1>2, <2>1, <2>2 DEF Frozen
<1>3. SavedFor'
  BY <1>2 DEF Maps, SavedFor
<1> QED BY <1>1, <1>3 DEF Maps

\* run() finds the session of a member of the fleet.
LEMMA RunsMaps ==
  ASSUME Types, Maps, NEW e \in Exec, NEW i \in Items(e), NEW k, Runs(e, i, k)
  PROVE  /\ \A n \in Key : sessions'[n] \in {None, saved[n]}
         /\ sessions' \in [Key -> Session \cup {None}]
<1> DEFINE it == [item[e][i] EXCEPT !.index = k]
           key == KeyOf(e, it.who)
<1>1. /\ it.who = item[e][i].who /\ item[e][i].who \in Member /\ run[e] # None
  BY ItemTyped DEF Item
<1>2. key \in Key /\ Known(key) = saved[key]
  BY <1>1, KnownIs DEF Maps
<1>3. sessions' = sessions \/ sessions' = [sessions EXCEPT ![key] = Known(key)]
  BY DEF Runs
<1>4. saved[key] \in Session \cup {None}
  BY <1>2 DEF Maps, SessionTypes
<1> HIDE DEF key
<1> QED BY <1>2, <1>3, <1>4 DEF Maps, Remembers, SessionTypes

LEMMA MapsHold ==
  ASSUME Types, Maps, Next
  PROVE  Frozen => Maps'
<1> SUFFICES ASSUME Frozen  PROVE Maps'
  OBVIOUS
<1>1. ASSUME UNCHANGED <<saved, sessions, kept, cleaning>>  PROVE Maps'
  BY <1>1, MapsStay DEF Maps, SessionTypes, Remembers
<1>2. ASSUME NEW e \in Exec,
             Aborts(e) \/ Ends(e) \/ \E r \in Run : Starts(e, r)
      PROVE  Maps'
  BY <1>1, <1>2 DEF Aborts, Ends, Starts
<1>3. ASSUME NEW e \in Exec, NEW i \in Position, Takes(e, i)  PROVE Maps'
  <2>1. i \in Items(e) /\ UNCHANGED <<saved, kept, cleaning>>
    BY <1>3 DEF Takes, CanTake, At, Items
  <2>2. CASE sessions' = sessions
    BY <1>1, <2>1, <2>2
  <2>3. CASE Runs(e, i, i)
    BY <2>1, <2>3, RunsMaps, MapsStay
  <2> QED BY <1>3, <2>2, <2>3 DEF Takes
<1>4. ASSUME NEW e \in Exec, NEW i \in Position, Passes(e, i)  PROVE Maps'
  <2>1. i \in Items(e) /\ UNCHANGED <<saved, kept, cleaning>>
    BY <1>4 DEF Passes, At, Items
  <2>2. CASE sessions' = sessions
    BY <1>1, <2>1, <2>2
  <2>3. ASSUME NEW k, Runs(e, i, k)  PROVE Maps'
    BY <2>1, <2>3, RunsMaps, MapsStay
  <2> QED BY <1>4, <2>2, <2>3 DEF Passes
<1>5. ASSUME NEW e \in Exec, NEW i \in Position,
             CreationFails(e, i) \/ Answers(e, i) \/ PromptFails(e, i) \/ SeatTimesOut(e, i)
      PROVE  Maps'
  BY <1>1, <1>5 DEF CreationFails, Answers, PromptFails, SeatTimesOut
<1>6. ASSUME NEW e \in Exec, NEW i \in Position, WorkspaceCreated(e, i)  PROVE Maps'
  <2>1. i \in Items(e) /\ UNCHANGED <<saved, sessions, cleaning, run>>
    BY <1>6 DEF WorkspaceCreated, At, Items
  <2>2. kept' = kept \cup {<<e, i, item[e][i].who>>}
    BY <1>6 DEF WorkspaceCreated
  <2>3. <<e, i, item[e][i].who>> \in Session
    BY <2>1, ItemTyped DEF Session, Item
  <2> QED BY <2>1, <2>2, <2>3 DEF Maps, SessionTypes, SavedFor, Remembers
<1>7. ASSUME NEW e \in Exec, NEW i \in Position, SessionCreated(e, i)  PROVE Maps'
  <2> DEFINE s == <<e, i, item[e][i].who>>
             key == KeyOf(e, item[e][i].who)
  <2>1. i \in Items(e) /\ UNCHANGED <<kept, cleaning, run>>
    BY <1>7 DEF SessionCreated, At, Items
  <2>2. sessions' = [sessions EXCEPT ![key] = s] /\ saved' = [saved EXCEPT ![key] = s]
    BY <1>7 DEF SessionCreated
  <2>3. /\ s \in Session /\ item[e][i].who \in Member /\ run[e] # None /\ s[1] = e
        /\ s[3] = item[e][i].who
    BY <2>1, ItemTyped DEF Session, Item
  <2>4. key \in Key /\ key[1] = item[e][i].who /\ key[2] \in {None, run[e]}
    BY <2>3, Programmed DEF KeyOf, Key
  <2> HIDE DEF s, key
  <2>5. \A k \in Key : saved'[k] = IF k = key THEN s ELSE saved[k]
    BY <2>2 DEF Maps, SessionTypes
  <2>6. SavedFor'
    BY <2>1, <2>3, <2>4, <2>5 DEF Maps, SavedFor
  <2> QED BY <2>1, <2>2, <2>3, <2>4, <2>6 DEF Maps, SessionTypes, Remembers
<1>8. CASE Cleans \/ CleanupFails
  BY <1>8 DEF Cleans, CleanupFails, Maps, SessionTypes, SavedFor, Remembers
<1>9. ASSUME NEW w \in Session, WorkspaceRemoved(w)  PROVE Maps'
  BY <1>9 DEF WorkspaceRemoved, Without, Maps, SessionTypes, SavedFor, Remembers
<1>10. CASE Crashes
  BY <1>10 DEF Crashes, Maps, SessionTypes, SavedFor, Remembers
<1> QED BY <1>2, <1>3, <1>4, <1>5, <1>6, <1>7, <1>8, <1>9, <1>10 DEF Next, Created

-----------------------------------------------------------------------------
(* What is recorded is not asked again.                                    *)

\* But for a script's parallel and a module, an execution that has ended has no call in
\* progress and takes no other.
LEMMA NoMore ==
  ASSUME Types, Orderly, NEW e \in Exec, status[e] \in {"completed", "failed", "cancelled"},
         Program(e).mode \notin {"parallel", "module"}, NEW i \in Items(e)
  PROVE  item[e][i].at \notin InProgress /\ ~CanTake(e, i)
<1>1. /\ run[e] # None /\ Tidy(Program(e).calls) /\ Items(e) = 1..Len(Program(e).calls)
      /\ Len(Program(e).calls) \in Nat
  BY ItemTyped, Programmed DEF Shape
<1>2. CASE \A j \in Items(e) : item[e][j].at \in Settled
  BY <1>2 DEF Settled, InProgress, Asking, CanTake, At
<1>3. ASSUME NEW t \in Items(e), item[e][t].at = "threw"
      PROVE  item[e][i].at \notin InProgress /\ ~CanTake(e, i)
  <2>1. ~Plan(e, t).optional
    BY <1>1, <1>3 DEF Orderly, Planned
  <2>2. CASE i = t
    BY <1>3, <2>2 DEF InProgress, Asking, CanTake, At
  <2>3. CASE i # t
    <3>1. /\ Plan(e, i).stage \in Nat /\ Plan(e, t).stage \in Nat /\ i \in Nat /\ t \in Nat
          /\ Plan(e, t).stage # Plan(e, i).stage
      BY <1>1, <2>1, <2>3, ItemTyped DEF Tidy, Plan, CallRecord
    <3>2. CASE Plan(e, i).stage < Plan(e, t).stage
      <4>1. item[e][i].at \in {"done", "failed"}
        BY <1>3, <3>2 DEF Orderly, InStages
      <4> QED BY <4>1 DEF InProgress, Asking, CanTake, At
    <3>3. CASE Plan(e, t).stage < Plan(e, i).stage
      <4>1. item[e][i].at \in {"idle", "lost"}
        BY <1>3, <3>3 DEF Orderly, InStages
      <4>2. ~(i < t)
        BY <1>1, <3>1, <3>3 DEF Tidy, Plan
      <4>3. t \in 1..(i - 1)
        BY <1>1, <2>3, <3>1, <4>2
      <4>4. t \notin Stage(e, i)
        BY <3>1 DEF Stage
      <4>5. ~CanTake(e, i)
        BY <1>3, <4>3, <4>4 DEF CanTake
      <4> QED BY <4>1, <4>5 DEF InProgress, Asking
    <3> QED BY <3>1, <3>2, <3>3
  <2> QED BY <2>2, <2>3
<1> QED BY <1>2, <1>3 DEF Orderly, Ended, Threw

LEMMA CoherentDown ==
  ASSUME NEW p, NEW calls, NEW k \in Nat, NEW j \in Nat, j <= k, Coherent(p, calls, k)
  PROVE  Coherent(p, calls, j)
BY DEF Coherent

\* What has been recorded since, and what has been recorded before, answers the call.
Kept == OneRunning /\ Unasked /\ Recalled /\ Reused

LEMMA CachedThen ==
  ASSUME Types, Orderly, Kept, NEW d \in Exec, NEW e \in Exec, run[d] = run[e],
         NEW i \in Items(d), Reusable(e, i), d \notin aborted,
         item[d][i].at = "gate" \/ CanTake(d, i)
  PROVE  Cached(d, i, i)
<1> DEFINE r == run[d]
           calls == Program(d).calls
<1>1. /\ r # None /\ r \in Run /\ Program(e) = Program(d) /\ prog[r] = Program(d) /\ prog[r] # None
      /\ Items(d) = 1..Len(calls) /\ Items(e) = Items(d) /\ Items(d) = DOMAIN calls
      /\ Len(calls) \in Nat /\ Shape(Program(d)) /\ i \in Nat /\ i \in 1..i
      /\ Program(d).mode # "module"
  <2>1. r # None /\ run[e] # None
    BY ItemTyped
  <2>2. Program(e) = Program(d)
    BY DEF Program
  <2>3. i \in Nat /\ i \in 1..i
    <3>1. Items(d) = 1..Len(calls) /\ Len(calls) \in Nat
      BY <2>1, Programmed
    <3> QED BY <3>1
  <2> QED BY <2>1, <2>2, <2>3, Programmed DEF Reusable
<1>2. Coherent(Program(d), prior[e], i)
  BY <1>1 DEF Reusable
<1>3. \A k \in 1..i : /\ k \in DOMAIN prior[e] /\ prior[e][k].status = "completed"
                      /\ k \in DOMAIN rows[r] /\ rows[r][k] = prior[e][k]
  <2>1. i \in Items(e)
    BY <1>1
  <2>2. \A k \in 1..i : k \in DOMAIN rows[run[e]] /\ rows[run[e]][k] = prior[e][k]
    BY <2>1 DEF Kept, Recalled
  <2>3. \A k \in 1..i : k \in DOMAIN prior[e] /\ prior[e][k].status = "completed"
    BY <1>2 DEF Coherent
  <2> QED BY <2>2, <2>3
<1>4. rows[r][i].who = item[d][i].who
  <2>1. rows[r][i].who = calls[i].who
    BY <1>1, <1>3 DEF Orderly, Planned
  <2>2. item[d][i].who = calls[i].who
    BY <1>1 DEF Orderly, Planned, Plan
  <2> QED BY <2>1, <2>2
<1>5. ASSUME NEW n \in Items(d), Plan(d, n).stage < Plan(d, i).stage
      PROVE  item[d][n].out = prior[e][n].out
  <2>1. Plan(d, n).stage \in Nat /\ Plan(d, i).stage \in Nat /\ n \in Nat /\ n >= 1
    BY <1>1, ItemTyped DEF CallRecord
  <2>2. ~(i < n) /\ i # n
    BY <1>1, <1>5, <2>1 DEF Shape, Plan
  <2>3. n \in 1..(i - 1) /\ n <= i /\ n \notin Stage(d, i)
    BY <1>1, <1>5, <2>1, <2>2 DEF Stage
  <2>4. item[d][n].at \in {"done", "failed"}
    <3>1. CASE item[d][i].at = "gate"
      BY <1>5, <3>1 DEF Orderly, InStages
    <3>2. CASE CanTake(d, i)
      BY <2>3, <3>2 DEF CanTake
    <3> QED BY <3>1, <3>2
  <2>5. CASE d = e
    <3>1. Reusable(e, n)
      BY <1>1, <1>2, <2>1, <2>3, CoherentDown DEF Reusable
    <3> QED BY <1>1, <2>4, <2>5, <3>1 DEF Kept, Reused
  <2>6. CASE d # e
    <3>1. status[d] # "running"
      BY <1>1, <2>6 DEF Kept, OneRunning, Reusable
    <3>2. status[d] # "none"
      BY <1>1 DEF Types, Started
    <3>3. item[d][i].at \in {"idle", "gate"}
      BY DEF CanTake, At
    <3>4. status[d] # "dead"
      BY <3>3 DEF Orderly, Ended, Settled
    <3>5. status[d] \in {"completed", "failed", "cancelled"}
      BY <3>1, <3>2, <3>4 DEF Types, ExecTypes, Statuses
    <3>6. Program(d).mode = "parallel"
      BY <1>1, <3>5, NoMore DEF InProgress
    <3>7. Plan(d, n).stage = 1 /\ Plan(d, i).stage = 1
      BY <1>1, <3>6 DEF Shape, Plan
    <3> QED BY <1>5, <3>7
  <2> QED BY <2>5, <2>6
<1>6. prior[e][i].prompt = Prompt(d, i)
  <2>1. prior[e][i].prompt =
          <<i, [n \in {n \in DOMAIN calls : calls[n].stage < calls[i].stage} |-> prior[e][n].out]>>
    BY <1>1, <1>2 DEF Coherent
  <2>2. Quotes(d, i) =
          [n \in {n \in DOMAIN calls : calls[n].stage < calls[i].stage} |-> prior[e][n].out]
    BY <1>1, <1>5 DEF Quotes, Plan
  <2> QED BY <2>1, <2>2 DEF Prompt
<1>7. Same(d, i, rows[r][i])
  BY <1>1, <1>3, <1>4, <1>6 DEF Same
<1> QED BY <1>1, <1>3, <1>7 DEF Cached, Prefix

LEMMA CallKept ==
  ASSUME Types, Orderly, Kept, NEW e \in Exec, NEW i, NEW o, CallStep(e, i, o)
  PROVE  Kept'
<1>1. /\ Moves(e, i, o) /\ Reasons(e, i, o) /\ UNCHANGED <<prog, run, status, aborted, prior>>
      /\ rows' = rows \/ \E k, row : Writes(e, i, o, k, row)
  BY DEF CallStep
<1>2. /\ i \in Items(e) /\ item'[e][i] = o /\ o \in Item /\ run[e] # None
      /\ item[e][i].at \in {"idle"} \cup InProgress /\ o.at \notin {"idle", "lost"}
      /\ item[e][i].at = "idle" => CanTake(e, i)
      /\ \A d \in Exec : Items(d)' = Items(d) /\ Program(d)' = Program(d)
      /\ \A d \in Exec : \A j \in Items(d) : d # e \/ j # i => item'[d][j] = item[d][j]
  BY <1>1, CallIs DEF Moves
<1>3. \A c \in Exec : \A k : Reusable(c, k)' <=> Reusable(c, k)
  BY <1>1, <1>2 DEF Reusable
<1>4. ASSUME NEW c \in Exec, run[c] = run[e], Reusable(c, i)
      PROVE  /\ item[e][i].at \notin Asking /\ ~Module(e)
             /\ e \notin aborted => Cached(e, i, i)
  <2>1. item[e][i].at \notin Asking
    BY <1>2, <1>4 DEF Kept, Unasked
  <2>2. ~Module(e)
    BY <1>4 DEF Reusable, Module, Program
  <2>3. item[e][i].at = "gate" \/ CanTake(e, i)
    BY <1>2, <2>1 DEF InProgress
  <2> QED BY <1>2, <1>4, <2>1, <2>2, <2>3, CachedThen
<1>5. OneRunning'
  BY <1>1 DEF Kept, OneRunning
<1>6. ASSUME NEW d \in Exec, NEW c \in Exec, run[d] = run[c], NEW k \in Items(d),
             item'[d][k].at \in Asking
      PROVE  ~Reusable(c, k)
  <2>1. CASE d # e \/ k # i
    BY <1>2, <1>6, <2>1 DEF Kept, Unasked
  <2>2. CASE d = e /\ k = i
    BY <1>1, <1>2, <1>4, <1>6, <2>2 DEF Reasons
  <2> QED BY <2>1, <2>2
<1>7. Unasked'
  BY <1>1, <1>2, <1>3, <1>6 DEF Unasked
<1>8. ASSUME NEW c \in Exec, NEW n \in Items(c), Reusable(c, n), NEW k \in 1..n
      PROVE  k \in DOMAIN rows'[run[c]] /\ rows'[run[c]][k] = prior[c][k]
  <2>1. k \in DOMAIN rows[run[c]] /\ rows[run[c]][k] = prior[c][k] /\ run[c] \in Run
        /\ n \in Nat /\ k \in Nat /\ k <= n
    BY <1>8, ItemTyped, Programmed DEF Kept, Recalled
  <2>2. ASSUME NEW m, NEW row, Writes(e, i, o, m, row)
        PROVE  k \in DOMAIN rows'[run[c]] /\ rows'[run[c]][k] = prior[c][k]
    <3>1. /\ \A q \in Run \ {run[e]} : rows'[q] = rows[q]
          /\ DOMAIN rows'[run[e]] = DOMAIN rows[run[e]] \cup {m}
          /\ \A x \in DOMAIN rows[run[e]] : x # m => rows'[run[e]][x] = rows[run[e]][x]
      BY <1>2, <2>2, WritesIs
    <3>2. CASE run[c] # run[e] \/ k # m
      BY <2>1, <3>1, <3>2
    <3>3. CASE run[c] = run[e] /\ k = m
      <4>1. ~Module(e)
        BY <1>8, <3>3 DEF Reusable, Module, Program
      <4>2. m = i /\ (item[e][i].at \notin Asking => e \notin aborted /\ ~Cached(e, i, i))
        BY <2>2, <4>1 DEF Writes
      <4>3. Reusable(c, i)
        BY <1>8, <2>1, <3>3, <4>2, CoherentDown DEF Reusable
      <4> QED BY <1>4, <3>3, <4>2, <4>3
    <3> QED BY <3>2, <3>3
  <2> QED BY <1>1, <2>1, <2>2
<1>9. Recalled'
  BY <1>1, <1>2, <1>3, <1>8 DEF Recalled
<1>10. ASSUME e \notin aborted, Reusable(e, i)
       PROVE  o.at \in {"idle", "gate", "done"} /\ (o.at = "done" => o.out = prior[e][i].out)
  <2>1. item[e][i].at \notin Asking /\ ~Module(e) /\ Cached(e, i, i)
    BY <1>4, <1>10
  <2>2. o.at \notin Asking
    BY <1>1, <2>1 DEF Reasons
  <2>3. /\ i \in DOMAIN rows[run[e]] /\ rows[run[e]][i] = prior[e][i] /\ ~Spent(e, i)
    <3>1. i \in Nat /\ i \in 1..i /\ run[e] \in Run /\ Budget(Program(e)) \in Nat
          /\ Program(e) = prog[run[e]]
      BY <1>2, ItemTyped, Programmed
    <3>2. i \in DOMAIN rows[run[e]] /\ rows[run[e]][i] = prior[e][i]
      BY <1>2, <1>10, <3>1 DEF Kept, Recalled
    <3>3. i \in 1..Budget(Program(e))
      BY <3>1, <3>2 DEF Types, RunTypes
    <3> QED BY <3>1, <3>2, <3>3 DEF Spent
  <2>4. o.at \notin {"failed", "threw"}
    BY <1>1, <1>10, <2>1, <2>3 DEF Reasons
  <2>5. o.at \in {"gate", "done"}
    BY <1>2, <2>2, <2>4 DEF Item, InProgress, Settled
  <2>6. o.at = "done" => o.out = prior[e][i].out
    BY <1>1, <2>1, <2>3 DEF Reasons, Asking
  <2> QED BY <2>5, <2>6
<1>11. ASSUME NEW c \in Exec \ aborted, NEW n \in Items(c), Reusable(c, n)
       PROVE  /\ item'[c][n].at \in {"idle", "gate", "done"}
              /\ item'[c][n].at = "done" => item'[c][n].out = prior[c][n].out
  <2>1. CASE c = e /\ n = i
    BY <1>2, <1>10, <1>11, <2>1
  <2>2. CASE c # e \/ n # i
    BY <1>2, <1>11, <2>2 DEF Kept, Reused
  <2> QED BY <2>1, <2>2
<1>12. Reused'
  BY <1>1, <1>2, <1>3, <1>11 DEF Reused
<1> QED BY <1>5, <1>7, <1>9, <1>12 DEF Kept

LEMMA StaysKept ==
  ASSUME Types, Kept, Stays
  PROVE  Kept'
<1>1. /\ UNCHANGED <<prog, rows, run, prior>> /\ aborted \subseteq aborted'
      /\ \A d \in Exec : status'[d] = "running" => status[d] = "running"
      /\ \A d \in Exec : Items(d)' = Items(d) /\ Program(d)' = Program(d)
      /\ \A d \in Exec : \A j \in Items(d) :
           item'[d][j].at = item[d][j].at /\ item'[d][j].out = item[d][j].out
  BY DEF Stays, OnlyTold, Program
<1>2. \A c \in Exec : \A k : Reusable(c, k)' => Reusable(c, k)
  BY <1>1 DEF Reusable
<1> QED BY <1>1, <1>2 DEF Kept, OneRunning, Unasked, Recalled, Reused

LEMMA CrashKept ==
  ASSUME Types, Crashes
  PROVE  Kept'
<1>1. \A d \in Exec : status'[d] # "running"
  BY DEF Crashes, Types, ExecTypes
<1>2. \A c \in Exec : \A k : ~Reusable(c, k)'
  BY <1>1 DEF Reusable
<1> QED BY <1>1, <1>2 DEF Kept, OneRunning, Unasked, Recalled, Reused

LEMMA StartKept ==
  ASSUME Types, Orderly, Kept, NEW e \in Exec, NEW r \in Run, Starts(e, r)
  PROVE  Kept'
<1>1. /\ run[e] = None /\ run'[e] = r /\ status'[e] = "running" /\ r # None
      /\ Program(e)' = prog'[r] /\ aborted' = aborted
  <2>1. run[e] = None /\ run' = [run EXCEPT ![e] = r] /\ status' = [status EXCEPT ![e] = "running"]
    BY StartsIs
  <2>2. run'[e] = r /\ status'[e] = "running" /\ Program(e)' = prog'[r]
    BY <2>1 DEF Types, ExecTypes, Program
  <2>3. r # None /\ aborted' = aborted
    BY FleetAssumption DEF Starts
  <2> QED BY <2>1, <2>2, <2>3
<1>2. ASSUME NEW d \in Exec, d # e
      PROVE  /\ run'[d] = run[d] /\ status'[d] = status[d] /\ item'[d] = item[d]
             /\ Items(d)' = Items(d) /\ prior'[d] = prior[d]
             /\ run[d] # None => Program(d)' = Program(d)
             /\ status[d] = "running" => run[d] # None /\ run[d] # r
  BY <1>2, StartsIs, StartFrozen DEF Types, ExecTypes, Started, Frozen, Items
<1>3. \A m : New(m).at = "idle"
  BY DEF New
<1>4. \A i \in Items(e)' : item'[e][i].at = "idle"
  BY <1>3, StartsIs
<1>5. ASSUME NEW c \in Exec, c # e, NEW k, Reusable(c, k)'  PROVE Reusable(c, k)
  BY <1>2, <1>5 DEF Reusable
<1>6. OneRunning'
  BY <1>1, <1>2 DEF Kept, OneRunning
<1>7. ASSUME NEW d \in Exec, NEW c \in Exec, run'[d] = run'[c], NEW k \in Items(d)',
             item'[d][k].at \in Asking
      PROVE  ~Reusable(c, k)'
  <2>1. d # e /\ item'[d] = item[d] /\ Items(d)' = Items(d) /\ run'[d] = run[d]
    BY <1>2, <1>4, <1>7 DEF Asking
  <2>2. CASE c # e
    BY <1>2, <1>5, <1>7, <2>1, <2>2 DEF Kept, Unasked
  <2>3. CASE c = e
    <3>1. run[d] = r
      BY <1>1, <1>7, <2>1, <2>3
    <3>2. Program(d) = Program(e)'
      BY <1>1, <1>2, <2>1, <3>1 DEF Program
    <3>3. ASSUME Reusable(e, k)'  PROVE FALSE
      <4>1. Program(d).mode # "module" /\ Coherent(Program(e)', prior'[e], k)
        BY <3>2, <3>3 DEF Reusable
      <4>2. /\ k \in Items(d) /\ item[d][k].index = k /\ item[d][k].at \in Asking
            /\ k \in Nat /\ k >= 1
        <5>1. k \in Items(d) /\ item[d][k].at \in Asking
          BY <1>7, <2>1
        <5>2. k \in 1..Len(item[d])
          BY <5>1, ItemTyped
        <5>3. item[d][k].index = k
          BY <1>1, <3>1, <4>1, <5>1 DEF Orderly, Planned
        <5>4. k \in Nat /\ k >= 1
          BY <5>2, <5>1, ItemTyped
        <5> QED BY <5>1, <5>3, <5>4
      <4>3. Strays(r, k)
        BY <3>1, <4>2 DEF Strays
      <4>4. k \in DOMAIN prior'[e]
        <5>1. k \in 1..k
          BY <4>2
        <5> QED BY <4>1, <5>1 DEF Coherent
      <4> QED BY <4>3, <4>4, StartsIs
    <3> QED BY <2>3, <3>3
  <2> QED BY <2>2, <2>3
<1>8. Unasked'
  BY <1>7 DEF Unasked
<1>9. ASSUME NEW c \in Exec, NEW n \in Items(c)', Reusable(c, n)', NEW k \in 1..n
      PROVE  k \in DOMAIN rows'[run'[c]] /\ rows'[run'[c]][k] = prior'[c][k]
  <2>1. CASE c = e
    <3>1. k \in DOMAIN prior'[e]
      BY <1>9, <2>1 DEF Reusable, Coherent
    <3> QED BY <1>1, <2>1, <3>1, StartsIs
  <2>2. CASE c # e
    <3>1. Reusable(c, n) /\ n \in Items(c) /\ status[c] = "running"
      BY <1>2, <1>5, <1>9, <2>2 DEF Reusable
    <3>2. run'[c] = run[c] /\ run[c] \in Run \ {r} /\ prior'[c] = prior[c]
      BY <1>2, <2>2, <3>1 DEF Types, ExecTypes
    <3>3. rows'[run[c]] = rows[run[c]]
      BY <3>2, StartsIs
    <3> QED BY <3>1, <3>2, <3>3 DEF Kept, Recalled
  <2> QED BY <2>1, <2>2
<1>10. Recalled'
  BY <1>9 DEF Recalled
<1>11. ASSUME NEW c \in Exec \ aborted, NEW n \in Items(c)', Reusable(c, n)'
       PROVE  /\ item'[c][n].at \in {"idle", "gate", "done"}
              /\ item'[c][n].at = "done" => item'[c][n].out = prior'[c][n].out
  <2>1. CASE c = e
    BY <1>4, <1>11, <2>1
  <2>2. CASE c # e
    BY <1>2, <1>5, <1>11, <2>2 DEF Kept, Reused
  <2> QED BY <2>1, <2>2
<1>12. Reused'
  BY <1>1, <1>11 DEF Reused
<1> QED BY <1>6, <1>8, <1>10, <1>12 DEF Kept

-----------------------------------------------------------------------------
(* The theorems.                                                           *)

\* The inductive invariant.
FleetInv == Types /\ Orderly /\ Maps /\ PromptsHold /\ Origins /\ Kept

LEMMA InitInv == Init => FleetInv
<1> SUFFICES ASSUME Init  PROVE FleetInv
  OBVIOUS
<1>1. /\ \A e \in Exec : run[e] = None /\ status[e] = "none" /\ item[e] = <<>> /\ count[e] = 0
      /\ \A e \in Exec : Items(e) = {}
      /\ \A r \in Run : prog[r] = None /\ DOMAIN rows[r] = {}
  BY DEF Init, Items
<1>2. Types
  <2>1. RunTypes
    BY <1>1 DEF Init, RunTypes
  <2>2. <<>> \in Seq(Item)
    BY EmptySeq
  <2>3. ExecTypes
    BY <2>2, FleetAssumption DEF Init, ExecTypes, Statuses
  <2>4. Started
    BY <1>1 DEF Started
  <2> QED BY <2>1, <2>3, <2>4 DEF Types
<1>3. Orderly
  BY <1>1 DEF Orderly, Planned, InStages, Ended
<1>4. Maps
  <2>1. /\ \A k \in Key : saved[k] = None /\ sessions[k] = None
        /\ saved = [k \in Key |-> None] /\ sessions = [k \in Key |-> None]
    BY DEF Init
  <2>2. SavedFor /\ Remembers
    BY <2>1 DEF SavedFor, Remembers
  <2>3. SessionTypes
    BY <2>1 DEF Init, SessionTypes
  <2> QED BY <2>2, <2>3 DEF Maps
<1>5. PromptsHold
  BY <1>1, <1>4 DEF Init, Maps, Remembers, PromptsHold, InSession, SessionsHold, AbortReaches, Prompting
<1>6. Origins
  BY <1>1 DEF Origins
<1>7. Kept
  BY <1>1 DEF Kept, OneRunning, Unasked, Recalled, Reused, Reusable
<1> QED BY <1>2, <1>3, <1>4, <1>5, <1>6, <1>7 DEF FleetInv

LEMMA NextInv == FleetInv /\ [Next]_vars => FleetInv'
<1> SUFFICES ASSUME FleetInv, [Next]_vars  PROVE FleetInv'
  OBVIOUS
<1>1. Types /\ Orderly /\ Maps /\ PromptsHold /\ Origins /\ Kept
  BY DEF FleetInv
<1>2. CASE UNCHANGED vars
  <2>1. Stays
    <3>1. OnlyTold
      BY <1>1, <1>2, SameIsTold DEF Types, vars
    <3> QED BY <1>1, <1>2, <3>1 DEF Stays, Types, ExecTypes, vars
  <2>2. Types' /\ Orderly' /\ Origins' /\ Kept'
    BY <1>1, <2>1, StaysTypes, StaysOrderly, StaysOrigins, StaysKept
  <2>3. Maps'
    BY <1>1, <1>2, <2>1, StaysFrozen, MapsStay DEF vars, Maps, Remembers, SessionTypes
  <2>4. PromptsHold'
    BY <1>1, <2>1, <2>3, StaysPrompts DEF Maps
  <2> QED BY <2>2, <2>3, <2>4 DEF FleetInv
<1>3. ASSUME NEW e \in Exec, NEW i, NEW o, CallStep(e, i, o), Counts(e), Next  PROVE FleetInv'
  <2>1. Types' /\ Orderly' /\ Origins' /\ Kept'
    BY <1>1, <1>3, CallTypes, CallOrderly, CallOrigins, CallKept
  <2>2. Maps'
    BY <1>1, <1>3, CallFrozen, MapsHold
  <2>3. PromptsHold'
    BY <1>1, <1>3, <2>2, CallPrompts DEF Maps
  <2> QED BY <2>1, <2>2, <2>3 DEF FleetInv
<1>4. ASSUME NEW e \in Exec, NEW i \in Position,
             Takes(e, i) \/ Passes(e, i) \/ Created(e, i) \/ Answers(e, i) \/ PromptFails(e, i),
             Next
      PROVE  FleetInv'
  <2>1. (\E o : CallStep(e, i, o)) /\ Counts(e)
    BY <1>1, <1>4, TakesMoves, PassesMoves, CreatedMoves, AnswersMoves DEF Maps, Orderly
  <2> QED BY <1>3, <1>4, <2>1
<1>5. ASSUME Stays, Next  PROVE FleetInv'
  <2>1. Types' /\ Orderly' /\ Origins' /\ Kept'
    BY <1>1, <1>5, StaysTypes, StaysOrderly, StaysOrigins, StaysKept
  <2>2. Maps'
    BY <1>1, <1>5, StaysFrozen, MapsHold
  <2>3. PromptsHold'
    BY <1>1, <1>5, <2>2, StaysPrompts DEF Maps
  <2> QED BY <2>1, <2>2, <2>3 DEF FleetInv
<1>6. ASSUME Crashes, Next  PROVE FleetInv'
  <2>1. Types' /\ Orderly' /\ Origins' /\ Kept'
    BY <1>1, <1>6, CrashTypes, CrashOrderly, CrashOrigins, CrashKept
  <2>2. Maps'
    BY <1>1, <1>6, CrashFrozen, MapsHold
  <2>3. PromptsHold'
    BY <1>1, <1>6, <2>2, CrashPrompts DEF Maps
  <2> QED BY <2>1, <2>2, <2>3 DEF FleetInv
<1>7. ASSUME NEW e \in Exec, NEW r \in Run, Starts(e, r), Next  PROVE FleetInv'
  <2>1. Types' /\ Orderly' /\ Origins' /\ Kept'
    BY <1>1, <1>7, StartTypes, StartOrderly, StartOrigins, StartKept
  <2>2. Maps'
    BY <1>1, <1>7, StartFrozen, MapsHold
  <2>3. PromptsHold'
    BY <1>1, <1>7, <2>2, StartPrompts DEF Maps
  <2> QED BY <2>1, <2>2, <2>3 DEF FleetInv
<1>8. CASE Next
  <2>1. CASE \/ \E e \in Exec : Aborts(e) \/ Ends(e) \/ \E i \in Position : SeatTimesOut(e, i)
             \/ Cleans \/ (\E w \in Session : WorkspaceRemoved(w)) \/ CleanupFails
    BY <1>1, <1>5, <1>8, <2>1, OthersStay DEF Types
  <2> QED BY <1>4, <1>6, <1>7, <1>8, <2>1 DEF Next
<1> QED BY <1>2, <1>8

\* The invariant holds of every reachable state of every fleet.
THEOREM FleetInvariant == Spec => []FleetInv
<1>1. Init => FleetInv
  BY InitInv
<1>2. FleetInv /\ [Next]_vars => FleetInv'
  BY NextInv
<1> QED BY <1>1, <1>2, PTL DEF Spec

\* Every variable keeps its type, and no execution counts or records a call beyond the
\* budget that defaultAgentBudget() or the limit on scripts and modules gives it.
THEOREM FleetTypeCorrect == Spec => []TypeOK
<1>1. FleetInv => TypeOK
  <2> SUFFICES ASSUME FleetInv  PROVE TypeOK
    OBVIOUS
  <2>1. RunTypes /\ ExecTypes /\ Started /\ SessionTypes
    BY DEF FleetInv, Types, Maps
  <2>2. \A r \in Run : prog[r] # None =>
          prog[r].mode \in Mode /\ prog[r].calls \in Programs(prog[r].mode)
    BY <2>1 DEF RunTypes
  <2> QED BY <2>1, <2>2 DEF TypeOK, RunTypes, ExecTypes, Started, SessionTypes
<1> QED BY <1>1, FleetInvariant, PTL

\* Once an execution is aborted, OpenCode has been told to abort the session of each of
\* its prompts, whichever step of run() the abort found the call in.
THEOREM AbortsReach == Spec => []AbortReaches
<1>1. FleetInv => AbortReaches
  BY DEF FleetInv, PromptsHold
<1> QED BY <1>1, FleetInvariant, PTL

\* A prompt is in a session of the member it is for, made for the same run when the
\* member is isolated, and what the runner remembers is what is saved.
THEOREM SessionsAreHeld == Spec => []SessionsHold
<1>1. FleetInv => SessionsHold
  BY DEF FleetInv, PromptsHold
<1> QED BY <1>1, FleetInvariant, PTL

\* A reply that is reused on resume answered the prompt that the call would have sent.
THEOREM RepliesMatch == Spec => []ReplayMatches
<1>1. FleetInv => ReplayMatches
  <2> SUFFICES ASSUME FleetInv, NEW e \in Exec, NEW i \in Items(e), item[e][i].at = "done"
               PROVE  Quotes(item[e][i].out, i) = Quotes(e, i)
    BY DEF ReplayMatches
  <2> QED BY DEF FleetInv, Origins
<1> QED BY <1>1, FleetInvariant, PTL

\* A collaboration that has ended leaves no call in progress in any lane.
THEOREM CollaborationsEndQuiet == Spec => []CollabEndsQuiet
<1>1. FleetInv => CollabEndsQuiet
  <2> SUFFICES ASSUME FleetInv, NEW e \in Exec,
                      status[e] \in {"completed", "failed", "cancelled"}, Collab(e),
                      NEW i \in Items(e)
               PROVE  item[e][i].at \notin InProgress
    BY DEF CollabEndsQuiet
  <2>1. Program(e).mode \notin {"parallel", "module"}
    BY DEF Collab, Authored
  <2> QED BY <2>1, NoMore DEF FleetInv
<1> QED BY <1>1, FleetInvariant, PTL

\* A resumed execution never asks a model for what the prefix of completed calls that it
\* found answers.
THEOREM PrefixIsKept == Spec => []KeepsPrefix
<1>1. FleetInv => KeepsPrefix
  BY DEF FleetInv, Kept, Unasked, Reusable, KeepsPrefix
<1> QED BY <1>1, FleetInvariant, PTL

\* No step of the runner, of OpenCode or of a later execution changes the reply of a
\* call that has settled, or the run and the calls of an execution that has started.
THEOREM RepliesStay == Spec => [][Frozen]_vars
<1>1. FleetInv /\ [Next]_vars => [Frozen]_vars
  <2> SUFFICES ASSUME FleetInv, Next  PROVE Frozen
    BY DEF vars
  <2>1. Types /\ SessionTypes /\ SavedFor /\ Remembers /\ Origins /\ Planned
    BY DEF FleetInv, Maps, Orderly
  <2>2. ASSUME NEW e \in Exec, NEW i \in Position,
               Takes(e, i) \/ Passes(e, i) \/ Created(e, i) \/ Answers(e, i) \/ PromptFails(e, i)
        PROVE  Frozen
    <3>1. \E o : CallStep(e, i, o)
      BY <2>1, <2>2, TakesMoves, PassesMoves, CreatedMoves, AnswersMoves
    <3> QED BY <2>1, <3>1, CallFrozen
  <2>3. CASE \/ \E e \in Exec : Aborts(e) \/ Ends(e) \/ \E i \in Position : SeatTimesOut(e, i)
             \/ Cleans \/ (\E w \in Session : WorkspaceRemoved(w)) \/ CleanupFails
    BY <2>1, <2>3, OthersStay, StaysFrozen DEF Types
  <2> QED BY <2>1, <2>2, <2>3, CrashFrozen, StartFrozen DEF Next
<1> QED BY <1>1, FleetInvariant, PTL DEF Spec
=============================================================================
