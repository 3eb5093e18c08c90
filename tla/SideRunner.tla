----------------------------- MODULE SideRunner -----------------------------
(***************************************************************************)
(* The side questions of packages/opencode-btw about one OpenCode session: *)
(* the btw tool of the server plugin, /btw with and without --thread and   *)
(* --end in the TUI plugin, each plugin with a SideRunner (runner.ts), a   *)
(* SideRegistry and its own maps, and askSide() of the OpenCode 2 entry.   *)
(*                                                                         *)
(* A step is what JavaScript runs between two awaits of a request to the   *)
(* OpenCode server.  The server is external: a request it answers late     *)
(* lets the other calls, the timers and the user go first.                 *)
(***************************************************************************)
EXTENDS Naturals, Sequences, FiniteSets

CONSTANTS
  ToolAsk,      \* calls of the btw tool (server plugin)
  Ask,          \* /btw <question>
  Follow,       \* /btw --thread <question>
  End,          \* /btw --end
  Beta,         \* calls of askSide() (oc2.ts)
  Deletion,     \* session.deleted events of the session
  Shutdown,     \* disposals of a plugin
  Question,     \* texts of questions
  None,         \* null
  Concurrency,  \* options.concurrency (1 to 3)
  History,      \* options.history (0 to 50)
  Attempts,     \* sessions askSide() tries (3)
  MaxCalls      \* bound on the calls and events of a behaviour

Side == {"server", "tui"}                 \* the two plugins
Tui == Ask \cup Follow                    \* questions asked in the TUI
Asker == ToolAsk \cup Tui                 \* calls of a SideRunner
Call == Asker \cup End \cup Beta \cup Deletion \cup Shutdown

ASSUME SideAssumption ==
  /\ ToolAsk \cap Tui = {} /\ Ask \cap Follow = {}
  /\ Asker \cap (End \cup Beta \cup Deletion \cup Shutdown) = {}
  /\ End \cap (Beta \cup Deletion \cup Shutdown) = {}
  /\ Beta \cap (Deletion \cup Shutdown) = {} /\ Deletion \cap Shutdown = {}
  /\ None \notin Call \cup Question \cup Side
  /\ Concurrency \in 1..3 /\ History \in Nat /\ MaxCalls \in Nat
  /\ Attempts \in Nat \ {0}

VARIABLES
  pc,        \* where each call is
  question,  \* the question each call of the TUI asks
  target,    \* the child session each call prompts, named by the call that made it
  aborted,   \* tool calls whose signal has been aborted
  child,     \* the child sessions on the server
  inFlight,  \* SideRunner.inFlight: the question a child answers
  children,  \* SideRunner.children of both runners
  thread,    \* SideRunner.threads of the TUI's runner
  ring,      \* the two SideRegistry rings: the calls answered
  overlay,   \* what the TUI shows
  attempt,   \* the attempt askSide() is at
  ends       \* the child an --end is closing, the plugin a disposal is of

vars == <<pc, question, target, aborted, child, inFlight, children, thread, ring, overlay,
          attempt, ends>>

Settled == {"done", "failed"}
PC == {"new", "snapshot", "creating", "prompting", "answered", "refused", "aborting",
       "deleting", "interrupting", "disposing"} \cup Settled

Runner(c) == IF c \in ToolAsk THEN "server" ELSE "tui"
Nothing == [question |-> None, status |-> "none"]

Init ==
  /\ pc = [c \in Call |-> "new"]
  /\ question = [c \in Tui |-> None] /\ target = [c \in Asker |-> None]
  /\ aborted = {}
  /\ child = [c \in Asker |-> "none"]
  /\ inFlight = [c \in Asker |-> None] /\ children = {} /\ thread = None
  /\ ring = [s \in Side |-> <<>>]
  /\ overlay = Nothing
  /\ attempt = [c \in Beta |-> 0]
  /\ ends = [c \in End \cup Shutdown |-> None]

Disposed(s) == \E z \in Shutdown : ends[z] = s
Arriving(c) ==
  /\ pc[c] = "new"
  /\ Cardinality({d \in Call : pc[d] # "new"}) < MaxCalls
  /\ \A d \in Deletion : pc[d] = "new"

-----------------------------------------------------------------------------
(* Asking.                                                                 *)

\* Mutant: an outcome is shown whatever question is on the screen.
MutShown(q, status) == [overlay EXCEPT !.status = status]
\* What the TUI shows of question q, if it still shows that question.
Shown(q, status) == IF overlay.question = q THEN [overlay EXCEPT !.status = status] ELSE overlay
Shows(c, status) == IF c \in Tui THEN Shown(question[c], status) ELSE overlay

\* Mutant: no answer is dropped.
MutNewest(s) == s
\* record(): the ring keeps the last History answers.
Newest(s) == IF Len(s) > History THEN SubSeq(s, Len(s) - History + 1, Len(s)) ELSE s
Recorded(c) == [ring EXCEPT ![Runner(c)] = Newest(Append(@, c))]

\* createFlight(): questions in flight are those whose child has been created.
Busy(s, flights) == Cardinality({c \in Asker : Runner(c) = s /\ flights[c] # None}) >= Concurrency

\* The open thread goes on; while it answers another question it is busy.
Continues(c) == c \in Follow /\ thread # None

\* ask() and askThread() up to their first request.  The TUI shows the question first.
Begins(c) ==
  /\ Arriving(c) /\ ~Disposed(Runner(c))
  /\ \E q \in IF c \in Tui THEN Question ELSE {None} :
       LET refused == \/ Continues(c) /\ inFlight[thread] # None
                      \/ ~Continues(c) /\ Busy(Runner(c), inFlight) IN
       /\ question' = [d \in Tui |-> IF d = c THEN q ELSE question[d]]
       /\ overlay' = IF c \in Tui
                       THEN [question |-> q, status |-> IF refused THEN "failed" ELSE "pending"]
                       ELSE overlay
       /\ IF refused
            THEN /\ pc' = [pc EXCEPT ![c] = "failed"] /\ UNCHANGED <<target, inFlight>>
          ELSE IF Continues(c)
            THEN /\ pc' = [pc EXCEPT ![c] = "prompting"]
                 /\ target' = [target EXCEPT ![c] = thread]
                 /\ inFlight' = [inFlight EXCEPT ![thread] = c]
          ELSE /\ pc' = [pc EXCEPT ![c] = "snapshot"] /\ UNCHANGED <<target, inFlight>>
  /\ UNCHANGED <<aborted, child, children, thread, ring, attempt, ends>>

\* session.messages() answers.
Snapshots(c) ==
  /\ pc[c] = "snapshot"
  /\ pc' = [pc EXCEPT ![c] = "creating"]
  /\ UNCHANGED <<question, target, aborted, child, inFlight, children, thread, ring, overlay,
                 attempt, ends>>

\* session.messages() or session.create() fails.
PreparationFails(c) ==
  /\ c \in Asker /\ pc[c] \in {"snapshot", "creating"}
  /\ pc' = [pc EXCEPT ![c] = "failed"]
  /\ overlay' = Shows(c, "failed")
  /\ UNCHANGED <<question, target, aborted, child, inFlight, children, thread, ring, attempt,
                 ends>>

\* closeFlight() follows unless another child has become the thread meanwhile.
Closing(c) == c \notin Follow \/ thread = None

\* The child is there: it is in flight and prompted.  A call aborted meanwhile
\* fails at once: its prompt has been sent, but nothing has aborted it.
Creates(c) ==
  /\ c \in Asker /\ pc[c] = "creating"
  /\ pc' = [pc EXCEPT ![c] = IF c \in aborted THEN "refused" ELSE "prompting"]
  /\ target' = [target EXCEPT ![c] = c]
  /\ child' = [child EXCEPT ![c] = "open"]
  /\ children' = children \cup {c}
  /\ inFlight' = [inFlight EXCEPT ![c] = IF c \in aborted THEN None ELSE c]
  /\ UNCHANGED <<question, aborted, thread, ring, overlay, attempt, ends>>

-----------------------------------------------------------------------------
(* Settling.                                                               *)

\* Mutant: a follow-up leaves its entry in the map.
MutFreed(c) == IF target[c] = c THEN [inFlight EXCEPT ![c] = None] ELSE inFlight
Freed(c) == [inFlight EXCEPT ![target[c]] = None]

\* An answer: a plain question deletes its child first, the first question of a
\* thread leaves its own child as the thread.
Answers(c) ==
  /\ c \in Asker /\ pc[c] = "prompting"
  /\ inFlight' = Freed(c)
  /\ IF c \in Follow
       THEN /\ pc' = [pc EXCEPT ![c] = "done"]
            /\ thread' = IF target[c] = c THEN c ELSE thread
            /\ ring' = Recorded(c)
            /\ overlay' = Shows(c, "answered")
       ELSE /\ pc' = [pc EXCEPT ![c] = "answered"]
            /\ UNCHANGED <<thread, ring, overlay>>
  /\ UNCHANGED <<question, target, aborted, child, children, attempt, ends>>

\* A child of its own fails to answer, times out or is aborted by the signal.
GivesUp(c) ==
  /\ inFlight' = Freed(c)
  /\ IF target[c] = c /\ Closing(c)
       THEN /\ pc' = [pc EXCEPT ![c] = "refused"] /\ UNCHANGED overlay
       ELSE /\ pc' = [pc EXCEPT ![c] = "failed"] /\ overlay' = Shows(c, "failed")

\* The timer fires, the request fails or the model returns no text: what the child
\* answers from here on is ignored.
Fails(c) ==
  /\ c \in Asker /\ pc[c] = "prompting" /\ GivesUp(c)
  /\ UNCHANGED <<question, target, aborted, child, children, thread, ring, attempt, ends>>

\* The server or the model returns an error.  For an open thread that means its
\* child is gone: the session has no thread any more, and the question is asked
\* anew like a first one.
Errs(c) ==
  /\ c \in Asker /\ pc[c] = "prompting"
  /\ IF target[c] = c
       THEN GivesUp(c) /\ UNCHANGED thread
       ELSE LET flights == Freed(c) IN
            /\ inFlight' = flights
            /\ thread' = None
            /\ IF Busy("tui", flights)
                 THEN /\ pc' = [pc EXCEPT ![c] = "failed"] /\ overlay' = Shows(c, "failed")
                 ELSE /\ pc' = [pc EXCEPT ![c] = "snapshot"] /\ UNCHANGED overlay
  /\ UNCHANGED <<question, target, aborted, child, children, ring, attempt, ends>>

\* OpenCode aborts a tool call.  Before it prompts nothing looks at the signal.
Aborts(c) ==
  /\ c \in ToolAsk \ aborted /\ pc[c] \in {"snapshot", "creating", "prompting"}
  /\ aborted' = aborted \cup {c}
  /\ IF pc[c] = "prompting" THEN GivesUp(c) ELSE UNCHANGED <<inFlight, pc, overlay>>
  /\ UNCHANGED <<question, target, child, children, thread, ring, attempt, ends>>

\* Mutant: a question that failed leaves its child.
MutDeletes(c) == pc[c] = "answered"
\* closeFlight() asks the server to delete the child.
Deletes(c) == pc[c] \in {"answered", "refused"}

\* The deletion has been answered, or has failed, which nothing reports.
ClosesFlight(c) ==
  /\ c \in Asker /\ pc[c] \in {"answered", "refused"}
  /\ \E state \in {"deleted", "kept"} :
       child' = IF Deletes(c) THEN [child EXCEPT ![c] = state] ELSE child
  /\ children' = children \ {c}
  /\ thread' = IF thread = c THEN None ELSE thread
  /\ IF pc[c] = "answered"
       THEN /\ pc' = [pc EXCEPT ![c] = "done"]
            /\ ring' = Recorded(c) /\ overlay' = Shows(c, "answered")
       ELSE /\ pc' = [pc EXCEPT ![c] = "failed"]
            /\ overlay' = Shows(c, "failed") /\ UNCHANGED ring
  /\ UNCHANGED <<question, target, aborted, inFlight, attempt, ends>>

-----------------------------------------------------------------------------
(* /btw --end, session.deleted, disposal.                                  *)

\* endThread() unlinks the thread before it aborts and deletes its child.
Unlink(e) == None

EndsThread(e) ==
  /\ Arriving(e) /\ ~Disposed("tui")
  /\ IF thread = None
       THEN /\ pc' = [pc EXCEPT ![e] = "failed"] /\ UNCHANGED <<thread, ends>>
       ELSE /\ pc' = [pc EXCEPT ![e] = "aborting"]
            /\ ends' = [ends EXCEPT ![e] = thread]
            /\ thread' = Unlink(e)
  /\ UNCHANGED <<question, target, aborted, child, inFlight, children, ring, overlay, attempt>>

EndAborted(e) ==
  /\ pc[e] = "aborting"
  /\ pc' = [pc EXCEPT ![e] = "deleting"]
  /\ UNCHANGED <<question, target, aborted, child, inFlight, children, thread, ring, overlay,
                 attempt, ends>>

EndDeleted(e) ==
  /\ pc[e] = "deleting"
  /\ pc' = [pc EXCEPT ![e] = "done"]
  /\ \E state \in {"deleted", "kept"} : child' = [child EXCEPT ![ends[e]] = state]
  /\ children' = children \ {ends[e]}
  /\ inFlight' = [inFlight EXCEPT ![ends[e]] = None]
  /\ UNCHANGED <<question, target, aborted, thread, ring, overlay, attempt, ends>>

\* The server plugin forgets the session's answers and asks the server to abort
\* what is in flight.
SessionDeleted(d) ==
  /\ Arriving(d) /\ ~Disposed("server")
  /\ pc' = [pc EXCEPT ![d] = "done"]
  /\ ring' = [ring EXCEPT !["server"] = <<>>]
  /\ UNCHANGED <<question, target, aborted, child, inFlight, children, thread, overlay,
                 attempt, ends>>

\* dispose() asks to abort what is in flight; the TUI forgets its answers at once.
Disposes(z) ==
  /\ Arriving(z)
  /\ \E s \in Side :
       /\ ~Disposed(s)
       /\ ends' = [ends EXCEPT ![z] = s]
       /\ ring' = IF s = "tui" THEN [ring EXCEPT ![s] = <<>>] ELSE ring
  /\ pc' = [pc EXCEPT ![z] = "disposing"]
  /\ UNCHANGED <<question, target, aborted, child, inFlight, children, thread, overlay, attempt>>

\* The aborts have been answered: the maps are cleared, but for the threads.
DisposeDone(z) ==
  /\ pc[z] = "disposing"
  /\ pc' = [pc EXCEPT ![z] = "done"]
  /\ inFlight' = [c \in Asker |-> IF Runner(c) = ends[z] THEN None ELSE inFlight[c]]
  /\ children' = {c \in children : Runner(c) # ends[z]}
  /\ ring' = [ring EXCEPT ![ends[z]] = IF ends[z] = "server" THEN <<>> ELSE @]
  /\ UNCHANGED <<question, target, aborted, child, thread, overlay, attempt, ends>>

-----------------------------------------------------------------------------
(* askSide().                                                              *)

BetaMoves(c, from, to) ==
  /\ pc[c] = from /\ pc' = [pc EXCEPT ![c] = to]
  /\ UNCHANGED <<question, target, aborted, child, inFlight, children, thread, ring, overlay,
                 ends>>

\* Mutant: an attempt that failed is not counted.
MutTries(n) == n
Tries(n) == n + 1

\* The next attempt, in a session of its own, or none.
Again(c) ==
  /\ attempt' = [attempt EXCEPT ![c] = Tries(@)]
  /\ \E from \in {"creating", "interrupting"} :
       BetaMoves(c, from, IF Tries(attempt[c]) < Attempts THEN "creating" ELSE "failed")

BetaBegins(c) == Arriving(c) /\ BetaMoves(c, "new", "creating") /\ UNCHANGED attempt
BetaCreates(c) == BetaMoves(c, "creating", "prompting") /\ UNCHANGED attempt
BetaCreateFails(c) == pc[c] = "creating" /\ Again(c)
\* Either way the session is interrupted before askSide() returns or tries again.
BetaAnswers(c) == BetaMoves(c, "prompting", "answered") /\ UNCHANGED attempt
\* No text, an error, or the timer.
BetaFails(c) == BetaMoves(c, "prompting", "interrupting") /\ UNCHANGED attempt
BetaReturns(c) == BetaMoves(c, "answered", "done") /\ UNCHANGED attempt
BetaRetries(c) == pc[c] = "interrupting" /\ Again(c)

-----------------------------------------------------------------------------
\* The answers the server owes: to every request but a prompt.
Served(c) == Snapshots(c) \/ PreparationFails(c) \/ Creates(c) \/ ClosesFlight(c)
BetaServed(c) == BetaCreates(c) \/ BetaCreateFails(c) \/ BetaReturns(c) \/ BetaRetries(c)

Next ==
  \/ \E c \in Asker :
       Begins(c) \/ Served(c) \/ Answers(c) \/ Errs(c) \/ Fails(c) \/ Aborts(c)
  \/ \E c \in Beta : BetaBegins(c) \/ BetaServed(c) \/ BetaAnswers(c) \/ BetaFails(c)
  \/ \E e \in End : EndsThread(e) \/ EndAborted(e) \/ EndDeleted(e)
  \/ \E d \in Deletion : SessionDeleted(d)
  \/ \E z \in Shutdown : Disposes(z) \/ DisposeDone(z)

Spec == Init /\ [][Next]_vars

\* The server answers every request but a prompt, and timers fire: nobody has to
\* ask, and no model has to answer.
FairSpec ==
  /\ Spec
  /\ \A c \in Asker : WF_vars(Served(c)) /\ WF_vars(Fails(c))
  /\ \A c \in Beta : WF_vars(BetaServed(c)) /\ WF_vars(BetaFails(c))
  /\ \A e \in End : WF_vars(EndAborted(e)) /\ WF_vars(EndDeleted(e))
  /\ \A z \in Shutdown : WF_vars(DisposeDone(z))

-----------------------------------------------------------------------------
(* Properties.                                                             *)

\* Every variable keeps its type; a ring never holds more than `history` answers.
TypeOK ==
  /\ pc \in [Call -> PC]
  /\ question \in [Tui -> Question \cup {None}]
  /\ target \in [Asker -> Asker \cup {None}]
  /\ aborted \subseteq ToolAsk
  /\ child \in [Asker -> {"none", "open", "deleted", "kept"}]
  /\ inFlight \in [Asker -> Asker \cup {None}]
  /\ children \subseteq Asker /\ thread \in Follow \cup {None}
  /\ ring \in [Side -> Seq(Asker)] /\ \A s \in Side : Len(ring[s]) <= History
  /\ overlay \in [question : Question \cup {None},
                  status : {"none", "pending", "answered", "failed"}]
  /\ attempt \in [Beta -> 0..Attempts]
  /\ ends \in [End \cup Shutdown -> Follow \cup Side \cup {None}]

\* A question outside a thread is ephemeral: whatever it ran into - a limit, an
\* abort before its child was there, a timer, a disposal - when it settles its child
\* was never made, or has been deleted but for a deletion that failed.
AskLeavesNothing ==
  \A c \in ToolAsk \cup Ask :
    pc[c] \in Settled => child[c] \in {"none", "deleted", "kept"}

\* A child is in flight only while a call prompts it: however follow-ups, --end and
\* timers interleave, a settled question never keeps the thread or a slot of the
\* limit busy.  And a follow-up never goes to a child that something has deleted or
\* asked to delete: not while --end waits for the server, and not after a first question
\* that failed beside one that succeeded.
ThreadUsable ==
  /\ \A ch \in Asker : inFlight[ch] # None =>
       pc[inFlight[ch]] = "prompting" /\ target[inFlight[ch]] = ch
  /\ thread # None => child[thread] = "open" /\ pc[thread] \notin {"refused", "answered"}

\* The screen tells of a question it shows what became of a call that asked it,
\* though questions asked earlier settle while it is on the screen.
OverlayTruthful ==
  overlay.status # "none" => \E c \in Tui :
    /\ question[c] = overlay.question
    /\ pc[c] = "done" <=> overlay.status = "answered"
    /\ pc[c] = "failed" <=> overlay.status = "failed"

\* Every question asked is answered or fails, though its model may never answer and
\* --end, aborts and disposals interfere.
QuestionsEnd == \A c \in Asker \cup Beta : pc[c] # "new" ~> pc[c] \in Settled
=============================================================================
