---------------------------- MODULE ProviderSeats ----------------------------
(***************************************************************************)
(* The seats that packages/opencode-codex-delegate keeps for one OpenCode  *)
(* session: those of its codex_* tools (plugin.ts) and those of its model  *)
(* provider (provider-runtime.ts, one per agent), all served by one        *)
(* CodexDelegator and its attachment file, which another OpenCode process  *)
(* may rewrite at the same time.                                           *)
(*                                                                         *)
(* JavaScript runs a continuation to its next await, and every ready       *)
(* continuation before the next I/O event: calls arrive, and requests and  *)
(* files answer, only when the process is Quiet.  How a seat admits turns  *)
(* and drains on close is DelegateSeat; here a runtime runs one turn at a  *)
(* time.  Codex app-servers are external.                                  *)
(***************************************************************************)
EXTENDS Naturals, Sequences, FiniteSets

CONSTANTS
  Run,         \* calls of CodexProviderRuntime.run(), each made once
  Delegate,    \* calls of the tool codex_delegate, each made once
  Review,      \* calls of the tool codex_review, each made once
  Closer,      \* calls of the tool codex_close, each made once
  Event,       \* session.deleted events
  Shutdown,    \* calls of the plugin's dispose()
  Other,       \* writes of the attachment file by another process
  Agent,       \* provider seats of the session
  Tool,        \* tool seats of the session
  Config,      \* configurations (model, mode, isolation...) a call asks for
  Message,     \* OpenCode messages
  None,        \* null
  Managed,     \* the provider's seats live in managed worktrees
  MaxRecords,  \* attachments the file keeps (128)
  MaxCalls     \* bound on the calls and events of a behaviour

Attacher == Run \cup Delegate \cup Review
Ender == Closer \cup Event \cup Shutdown
Call == Attacher \cup Ender
Key == Agent \cup Tool

ASSUME SeatsAssumption ==
  /\ Run \cap (Delegate \cup Review) = {} /\ Delegate \cap Review = {}
  /\ Attacher \cap Ender = {} /\ Other \cap Attacher = {}
  /\ Closer \cap (Event \cup Shutdown) = {} /\ Event \cap Shutdown = {}
  /\ Agent \cap Tool = {} /\ Key \cap Other = {}
  /\ None \notin Call \cup Key \cup Other
  /\ Managed \in BOOLEAN
  /\ MaxRecords \in Nat \ {0}
  /\ MaxCalls \in Nat

VARIABLES
  arg,        \* what each call asks for: key, configuration, message
  pc, on,     \* where each call is, and the opening, close or runtime it awaits
  named,      \* the tool seat a codex_close names
  seatOf,     \* the seat a call works with, named by the call that opened it
  adopt,      \* the attachment an opening call has read
  seats, attaching, closing,  \* the maps of the plugin and of the provider runtime
  seat,       \* the fields of each seat that its runs change
  rt,         \* the Runtime records, named by the call that opened them
  sessions,   \* CodexDelegator.sessions: the runtime registered for an id
  thread,     \* Codex threads, named by the call that created them
  file, snap, \* attachments.json, and the copies other processes have read
  waits,      \* openings and closings a session.deleted or a dispose() awaits
  ends,       \* runtimes whose close it awaits
  stray,      \* history: runtimes dropped from the maps with their transport open
  answered,   \* history: messages whose turn completed, and the key it ran on
  retries     \* history: runs called after a turn for their message completed

vars == <<arg, named, pc, on, seatOf, adopt, seats, attaching, closing, seat, rt, sessions,
          thread, file, snap, waits, ends, stray, answered, retries>>
maps == <<seats, attaching, closing>>
delegator == <<rt, sessions, thread, file>>
enders == <<waits, ends>>
history == <<stray, answered, retries>>

Opening == {"closingOld", "reading", "opening"}
\* a continuation of an attaching call is ready to run
Ready == {"attach", "attached"}
Settling == {"eventTools", "eventProvider", "disposeTools", "disposeProvider"}
Ending == {"eventSeats", "disposeSeats", "closeAll"}
PC == {"new", "waitAttach", "waitClose", "queued", "running", "done", "failed",
       "closing"} \cup Opening \cup Ready \cup Settling \cup Ending

Runtime == [st : {"none", "open", "closing", "closed"}, id : Attacher \cup {None},
            thread : Attacher \cup {None}, config : Config \cup {None}, cleanup : BOOLEAN]
Record == [id : Attacher \cup Other, key : Key \cup Other,
           thread : Attacher \cup {None}]
Arg == [key : Key, config : Config, msg : Message \cup {None}]

\* Arguments a call can have: a run names an agent and may name a message.
ArgsOf(c) == [key : IF c \in Run THEN Agent ELSE Tool, config : Config,
              msg : IF c \in Run THEN Message \cup {None} ELSE {None}]

Init ==
  /\ arg = [c \in Attacher |-> None]
  /\ pc = [c \in Call |-> "new"]
  /\ named = [d \in Closer |-> None]
  /\ on = [c \in Attacher \cup Closer |-> None]
  /\ seatOf = [c \in Attacher |-> None] /\ adopt = [c \in Attacher |-> None]
  /\ seats = [k \in Key |-> None]
  /\ attaching = [k \in Key |-> None] /\ closing = [k \in Agent |-> None]
  /\ seat = [c \in Attacher |-> [continuing |-> FALSE, last |-> None]]
  /\ rt = [c \in Attacher |-> [st |-> "none", id |-> None, thread |-> None,
                              config |-> None, cleanup |-> FALSE]]
  /\ sessions = [c \in Attacher |-> None]
  /\ thread = [c \in Attacher |-> "none"]
  /\ file = <<>> /\ snap = [o \in Other |-> None]
  /\ waits = [e \in Event \cup Shutdown |-> {}]
  /\ ends = [e \in Event \cup Shutdown |-> {}]
  /\ stray = {} /\ answered = {} /\ retries = {}

\* What a session.deleted or a dispose() awaited has happened.  allSettled() takes
\* longer than an await, so calls that awaited the same opening have gone on.
Woken(e) ==
  /\ \A c \in Attacher : pc[c] # "attach"
  /\ \/ pc[e] \in Settling /\ \A c \in waits[e] : pc[c] \notin Opening \cup {"closing"}
     \/ pc[e] \in Ending /\ \A r \in ends[e] : rt[r].st # "closing"
Quiet ==
  /\ \A c \in Attacher : pc[c] \notin Ready
  /\ \A e \in Event \cup Shutdown : ~Woken(e)

\* A call or event arrives.  OpenCode calls no hook once it has called dispose().
Arriving(c) ==
  /\ Quiet /\ pc[c] = "new"
  /\ \A e \in Shutdown : pc[e] = "new"
  /\ Cardinality({d \in Call : pc[d] # "new"}) < MaxCalls

-----------------------------------------------------------------------------
(* The attachment file.                                                    *)

\* Mutant: no attachment is evicted.
MutNewest(s) == s
Newest(s) == IF Len(s) > MaxRecords THEN SubSeq(s, Len(s) - MaxRecords + 1, Len(s)) ELSE s
\* The records but that of id; an id has one record at most.
Without(s, id) ==
  IF \E i \in 1..Len(s) : s[i].id = id
    THEN LET i == CHOOSE i \in 1..Len(s) : s[i].id = id
         IN  SubSeq(s, 1, i - 1) \o SubSeq(s, i + 1, Len(s))
    ELSE s

\* put(): writes of one process are chained, so each sees the one before it.  The
\* record being put has the latest updatedAt.
Put(s, r) == Newest(Append(Without(s, r.id), r))
\* What getSeat() may find: the newest record of the seat in this session, or null.
Stored(k) ==
  LET own == {i \in 1..Len(file) : file[i].key = k}
  IN IF own = {} THEN {None} ELSE {file[i] : i \in {n \in own : \A m \in own : m <= n}}

\* Another process puts a record of its own: it reads the file ...
OtherReads(o) ==
  /\ Quiet
  /\ snap[o] = None /\ ~\E i \in 1..Len(file) : file[i].id = o
  /\ snap' = [snap EXCEPT ![o] = file]
  /\ UNCHANGED <<arg, named, pc, on, seatOf, adopt, maps, seat, delegator, enders, history>>

\* ... and renames its edited copy over whatever is there by now.
OtherRenames(o) ==
  /\ Quiet
  /\ snap[o] # None
  /\ file' = Put(snap[o], [id |-> o, key |-> o, thread |-> None])
  /\ snap' = [snap EXCEPT ![o] = None]
  /\ UNCHANGED <<arg, named, pc, on, seatOf, adopt, maps, seat, rt, sessions, thread, enders,
                 history>>

-----------------------------------------------------------------------------
(* CodexDelegator.close().                                                 *)

\* The runtime a seat's handle refers to.
RuntimeOf(s) == sessions[rt[s].id]
Live(r) == rt[r].st \in {"open", "closing"}
\* close() of the runtimes R: one that is closed or closing already is left alone.
Shut(R, cleanup) ==
  [r \in Attacher |-> IF r \in R /\ rt[r].st = "open"
                      THEN [rt[r] EXCEPT !.st = "closing", !.cleanup = cleanup]
                      ELSE rt[r]]

\* closeRuntime() has cancelled the turn and waits for the lane to drain.
Drained(r) == rt[r].st = "closing" /\ \A c \in Attacher : pc[c] \in {"queued", "running"} => on[c] # r

\* The calls of codex_close that await the close of r.
Closers(r) == {d \in Closer : pc[d] = "closing" /\ on[d] = r}
\* Mutant: a close that fails leaves its entry.
MutReopened(r, ok) == [k \in Agent |-> IF ok /\ closing[k] \in Closers(r) THEN None ELSE closing[k]]
\* The entries of `closing` once the close of r has settled, either way.
Reopened(r, ok) == [k \in Agent |-> IF closing[k] \in Closers(r) THEN None ELSE closing[k]]

\* Mutant: codex_close leaves the seat it has closed.
MutForgotten(r, ok) == seats
\* A codex_close deletes the tool seat it was asked for, whichever seat it has closed.
Forgotten(r, ok) ==
  [k \in Key |-> IF ok /\ \E d \in Closers(r) : named[d] = k THEN None ELSE seats[k]]

\* A close settles: openings that awaited it go on or fail, codex_close calls
\* return or throw, and runs that found their key closing look again or fail.
\* The provider's closing entries go first (finally).
Wake(r, ok) ==
  LET failed == {c \in Attacher : pc[c] = "closingOld" /\ on[c] = r /\ ~ok} IN
  /\ pc' = [c \in Call |->
       IF c \in Attacher /\ pc[c] = "closingOld" /\ on[c] = r
         THEN IF ok THEN "reading" ELSE "failed"
       ELSE IF c \in Closers(r) THEN IF ok THEN "done" ELSE "failed"
       ELSE IF c \in Attacher /\ pc[c] = "waitClose" /\ on[c] \in Closers(r)
         THEN IF ok THEN "attach" ELSE "failed"
       ELSE IF c \in Attacher /\ pc[c] = "waitAttach" /\ on[c] \in failed
         THEN "failed"
       ELSE pc[c]]
  /\ attaching' = [k \in Key |-> IF attaching[k] \in failed THEN None ELSE attaching[k]]
  /\ closing' = Reopened(r, ok)
  /\ seats' = Forgotten(r, ok)

CloseCompletes(r) ==
  /\ Quiet /\ Drained(r)
  /\ LET kept == IF rt[r].cleanup THEN None ELSE rt[r].thread IN
     /\ rt' = [rt EXCEPT ![r].st = "closed", ![r].thread = kept]
     /\ thread' = [c \in Attacher |-> IF rt[r].cleanup /\ c = rt[r].thread
                                      THEN "deleted" ELSE thread[c]]
     /\ file' = Put(file, [id |-> rt[r].id, key |-> arg[r].key, thread |-> kept])
  /\ Wake(r, TRUE)
  /\ stray' = stray \cup {s \in Attacher : \E k \in Key :
                             seats[k] = s /\ seats'[k] = None /\ RuntimeOf(s) # r}
  /\ UNCHANGED <<arg, named, on, seatOf, adopt, seat, sessions, snap, enders, answered, retries>>

\* thread/delete fails: the runtime stays as it is, its transport open.
CloseFails(r) ==
  /\ Quiet /\ Drained(r) /\ rt[r].cleanup
  /\ rt' = [rt EXCEPT ![r].st = "open"]
  /\ stray' = stray \cup {r}
  /\ Wake(r, FALSE)
  /\ UNCHANGED <<arg, named, on, seatOf, adopt, seat, sessions, thread, file, snap,
                 enders, answered, retries>>

-----------------------------------------------------------------------------
(* attach(), of the plugin and of the provider runtime.                    *)

\* run(), codex_delegate or codex_review is called.
Arrives(c) ==
  /\ Arriving(c)
  /\ pc' = [pc EXCEPT ![c] = "attach"]
  /\ \E a \in ArgsOf(c) :
       /\ arg' = [arg EXCEPT ![c] = a]
       /\ retries' = IF a.msg # None /\ <<a.key, a.msg>> \in answered
                     THEN retries \cup {c} ELSE retries
  /\ UNCHANGED <<named, on, seatOf, adopt, maps, seat, delegator, snap, enders, stray, answered>>

\* Mutant: a seat is reused whatever configuration is asked for.
MutSuits(c) == seats[arg[c].key] # None
\* codex_review takes the seat that is there, whatever its configuration, before
\* it looks for one that is being attached.
Suits(c) ==
  LET k == arg[c].key IN
  /\ seats[k] # None
  /\ \/ c \in Review
     \/ rt[seats[k]].config = arg[c].config

Await(c, place, what) ==
  /\ pc' = [pc EXCEPT ![c] = place]
  /\ on' = [on EXCEPT ![c] = what]
  /\ UNCHANGED <<arg, named, seatOf, adopt, maps, seat, delegator, snap, enders, history>>

\* Another call is opening the seat.
Pending(c) ==
  /\ attaching[arg[c].key] # None
  /\ ~(c \in Review /\ Suits(c))

AwaitAttaching(c) ==
  /\ pc[c] = "attach" /\ Pending(c)
  /\ Await(c, "waitAttach", attaching[arg[c].key])

\* Only the provider knows that a seat of its own is being closed.
Shutting(c) == c \in Run /\ closing[arg[c].key] # None

AwaitClosing(c) ==
  /\ pc[c] = "attach" /\ ~Pending(c) /\ Shutting(c)
  /\ Await(c, "waitClose", closing[arg[c].key])

Reuse(c) ==
  /\ pc[c] = "attach" /\ ~Pending(c) /\ ~Shutting(c) /\ Suits(c)
  /\ pc' = [pc EXCEPT ![c] = "attached"]
  /\ seatOf' = [seatOf EXCEPT ![c] = seats[arg[c].key]]
  /\ UNCHANGED <<arg, named, on, adopt, maps, seat, delegator, snap, enders, history>>

\* Mutant: open() does not close the seat it replaces.
MutToClose(c) == {}
\* The runtime open() and openSeat() close first: that of the seat being replaced.
ToClose(c) ==
  {RuntimeOf(s) : s \in {seats[arg[c].key]} \ {None}} \cap {r \in Attacher : Live(r)}

\* Replace the seat: drop it from the map, become the pending opening, and close
\* it.  The provider leaves the cleanup to the default of its isolation.
Open(c) ==
  LET k == arg[c].key IN
  /\ pc[c] = "attach" /\ ~Pending(c) /\ ~Shutting(c) /\ ~Suits(c)
  /\ seats' = [seats EXCEPT ![k] = None]
  /\ attaching' = [attaching EXCEPT ![k] = c]
  /\ rt' = Shut(ToClose(c), c \in Run /\ Managed)
  /\ IF ToClose(c) = {}
       THEN /\ pc' = [pc EXCEPT ![c] = "reading"] /\ UNCHANGED on
       ELSE /\ pc' = [pc EXCEPT ![c] = "closingOld"]
            /\ \E r \in ToClose(c) : on' = [on EXCEPT ![c] = r]
  /\ UNCHANGED <<arg, named, seatOf, adopt, closing, seat, sessions, thread, file, snap,
                 enders, history>>

\* resume() looks the seat up in the attachment file.
ReadsAttachment(c) ==
  /\ Quiet /\ pc[c] = "reading"
  /\ \E r \in Stored(arg[c].key) : adopt' = [adopt EXCEPT ![c] = r]
  /\ pc' = [pc EXCEPT ![c] = "opening"]
  /\ UNCHANGED <<arg, named, on, seatOf, maps, seat, delegator, snap, enders, history>>

Resumes(c) == adopt[c] # None /\ adopt[c].thread # None

\* The promise in `attaching` settles: its finally block, then the opener, then
\* the calls that wait for it.
Settles(c, ok) ==
  /\ attaching' = [k \in Key |-> IF attaching[k] = c THEN None ELSE attaching[k]]
  /\ pc' = [d \in Call |->
       IF d = c THEN IF ok THEN "attached" ELSE "failed"
       ELSE IF pc[d] = "waitAttach" /\ on[d] = c THEN IF ok THEN "attach" ELSE "failed"
       ELSE pc[d]]

\* resume() of a stored thread succeeds, or without one create() does.  Either
\* registers the runtime, over one of the same id, and stores its attachment.
Opens(c) ==
  LET k == arg[c].key
      id == IF Resumes(c) THEN adopt[c].id ELSE c
      t == IF Resumes(c) THEN adopt[c].thread ELSE c IN
  /\ Quiet /\ pc[c] = "opening"
  /\ Resumes(c) => thread[t] = "live"
  /\ thread' = [thread EXCEPT ![t] = "live"]
  /\ rt' = [rt EXCEPT ![c].st = "open", ![c].id = id, ![c].thread = t,
                       ![c].config = arg[c].config]
  /\ sessions' = [sessions EXCEPT ![id] = c]
  /\ file' = Put(file, [id |-> id, key |-> k, thread |-> t])
  /\ seat' = [seat EXCEPT ![c].continuing = Resumes(c)]
  /\ seatOf' = [seatOf EXCEPT ![c] = c]
  /\ seats' = [seats EXCEPT ![k] = c]
  /\ Settles(c, TRUE)
  /\ UNCHANGED <<arg, named, on, adopt, closing, snap, enders, history>>

\* The app-server does not start, or thread/resume or thread/start fails.
OpenFails(c) ==
  /\ Quiet /\ pc[c] = "opening"
  /\ Settles(c, FALSE)
  /\ UNCHANGED <<arg, named, on, seatOf, adopt, seats, closing, seat, delegator, snap,
                 enders, history>>

-----------------------------------------------------------------------------
(* run() and the tools, once they have a seat.                             *)

\* The result of the seat's last completed turn answers a retry of its message.
Replayed(c) == c \in Run /\ arg[c].msg # None /\ seat[seatOf[c]].last = arg[c].msg

Replays(c) ==
  /\ pc[c] = "attached" /\ Replayed(c)
  /\ pc' = [pc EXCEPT ![c] = "done"]
  /\ UNCHANGED <<arg, named, on, seatOf, adopt, maps, seat, delegator, snap, enders,
                 history>>

\* turn() and review() join the lane of the runtime registered for the handle's id.
Calls(c) ==
  /\ pc[c] = "attached" /\ ~Replayed(c)
  /\ pc' = [pc EXCEPT ![c] = "queued"]
  /\ on' = [on EXCEPT ![c] = RuntimeOf(seatOf[c])]
  /\ UNCHANGED <<arg, named, seatOf, adopt, maps, seat, delegator, snap, enders, history>>

LaneFree(r) == \A d \in Attacher : ~(pc[d] = "running" /\ on[d] = r)

TurnStarts(c) ==
  /\ Quiet /\ pc[c] = "queued" /\ LaneFree(on[c]) /\ rt[on[c]].st = "open"
  /\ pc' = [pc EXCEPT ![c] = "running"]
  /\ UNCHANGED <<arg, named, on, seatOf, adopt, maps, seat, delegator, snap, enders,
                 history>>

\* requireIdle(): the seat is closed or closing.
TurnRefused(c) ==
  /\ Quiet /\ pc[c] = "queued" /\ LaneFree(on[c]) /\ rt[on[c]].st # "open"
  /\ pc' = [pc EXCEPT ![c] = "failed"]
  /\ UNCHANGED <<arg, named, on, seatOf, adopt, maps, seat, delegator, snap, enders,
                 history>>

\* A turn completes: run() remembers its message on the seat it was given.
TurnCompletes(c) ==
  /\ Quiet /\ pc[c] = "running"
  /\ pc' = [pc EXCEPT ![c] = "done"]
  /\ IF c \in Run
       THEN /\ seat' = [seat EXCEPT ![seatOf[c]] = [continuing |-> TRUE, last |-> arg[c].msg]]
            /\ answered' = answered \cup {<<arg[c].key, arg[c].msg>>}
       ELSE UNCHANGED <<seat, answered>>
  /\ UNCHANGED <<arg, named, on, seatOf, adopt, maps, delegator, snap, enders, stray, retries>>

\* It fails, times out, or is cancelled by codex_cancel, an abort or a close.
TurnFails(c) ==
  /\ Quiet /\ pc[c] = "running"
  /\ pc' = [pc EXCEPT ![c] = "failed"]
  /\ UNCHANGED <<arg, named, on, seatOf, adopt, maps, seat, delegator, snap, enders,
                 history>>

-----------------------------------------------------------------------------
(* codex_close, session.deleted and dispose().                             *)

\* The seats whose handle resolveLiveHandle() may return for tool seat k: the tool
\* seat itself, or else one of the provider's.
Resolved(k) ==
  IF seats[k] # None THEN {seats[k]} ELSE {seats[a] : a \in Agent} \ {None}

Dropped(mine) == [k \in Key |-> IF k \in mine THEN None ELSE seats[k]]

\* closeHandle() drops the provider's seats of that handle and marks them closing.
Closes(d) ==
  /\ Arriving(d)
  /\ pc' = [pc EXCEPT ![d] = "closing"]
  /\ \E k \in Tool, s \in Attacher, cleanup \in BOOLEAN :
       LET mine == {a \in Agent : seats[a] # None /\ rt[seats[a]].id = rt[s].id} IN
       /\ s \in Resolved(k)
       /\ named' = [named EXCEPT ![d] = k]
       /\ on' = [on EXCEPT ![d] = RuntimeOf(s)]
       /\ rt' = Shut({RuntimeOf(s)}, cleanup)
       /\ seats' = Dropped(mine)
       /\ closing' = [a \in Agent |-> IF a \in mine THEN d ELSE closing[a]]
  /\ UNCHANGED <<arg, seatOf, adopt, attaching, seat, sessions, thread, file, snap,
                 enders, history>>

\* Nothing is attached: codex_close throws.
NothingToClose(d) ==
  /\ Arriving(d)
  /\ \E k \in Tool : Resolved(k) = {}
  /\ pc' = [pc EXCEPT ![d] = "failed"]
  /\ UNCHANGED <<arg, named, on, seatOf, adopt, maps, seat, delegator, snap, enders,
                 history>>

Pendings(K) == {attaching[k] : k \in K} \ {None}
Moves(e, from, to) == pc[e] = from /\ pc' = [pc EXCEPT ![e] = to]
RuntimesOf(K) ==
  {RuntimeOf(s) : s \in {seats[k] : k \in K} \ {None}} \cap {r \in Attacher : Live(r)}

\* session.deleted waits for the tool seats being attached ...
Deleted(e) ==
  /\ Arriving(e) /\ Moves(e, "new", "eventTools")
  /\ waits' = [waits EXCEPT ![e] = Pendings(Tool)]
  /\ UNCHANGED <<arg, named, on, seatOf, adopt, maps, seat, delegator, snap, ends, history>>

\* ... closes them and calls closeSession(), which waits in the same way ...
DeletesTools(e) ==
  /\ Woken(e) /\ Moves(e, "eventTools", "eventProvider")
  /\ ends' = [ends EXCEPT ![e] = RuntimesOf(Tool)]
  /\ rt' = Shut(RuntimesOf(Tool), FALSE)
  /\ seats' = [k \in Key |-> IF k \in Tool THEN None ELSE seats[k]]
  /\ waits' = [waits EXCEPT ![e] = Pendings(Agent) \cup ({closing[a] : a \in Agent} \ {None})]
  /\ UNCHANGED <<arg, named, on, seatOf, adopt, attaching, closing, seat, sessions,
                 thread, file, snap, history>>

\* ... and closes the provider's seats.  Neither cleans up.
DeletesProvider(e) ==
  /\ Woken(e) /\ Moves(e, "eventProvider", "eventSeats")
  /\ ends' = [ends EXCEPT ![e] = @ \cup RuntimesOf(Agent)]
  /\ rt' = Shut(RuntimesOf(Agent), FALSE)
  /\ seats' = [k \in Key |-> IF k \in Agent THEN None ELSE seats[k]]
  /\ UNCHANGED <<arg, named, on, seatOf, adopt, attaching, closing, seat, sessions,
                 thread, file, snap, waits, history>>

DeletedDone(e) ==
  /\ Woken(e) /\ Moves(e, "eventSeats", "done")
  /\ UNCHANGED <<arg, named, on, seatOf, adopt, maps, seat, delegator, snap, enders,
                 history>>

Disposes(e) ==
  /\ Arriving(e) /\ Moves(e, "new", "disposeTools")
  /\ waits' = [waits EXCEPT ![e] = Pendings(Tool)]
  /\ UNCHANGED <<arg, named, on, seatOf, adopt, maps, seat, delegator, snap, ends, history>>

\* The tool seats are only forgotten: closeAll() will close them.
DisposesTools(e) ==
  /\ Woken(e) /\ Moves(e, "disposeTools", "disposeProvider")
  /\ seats' = [k \in Key |-> IF k \in Tool THEN None ELSE seats[k]]
  /\ attaching' = [k \in Key |-> IF k \in Tool THEN None ELSE attaching[k]]
  /\ waits' = [waits EXCEPT ![e] = Pendings(Agent) \cup ({closing[a] : a \in Agent} \ {None})]
  /\ UNCHANGED <<arg, named, on, seatOf, adopt, closing, seat, delegator, snap, ends,
                 history>>

DisposesProvider(e) ==
  /\ Woken(e) /\ Moves(e, "disposeProvider", "disposeSeats")
  /\ ends' = [ends EXCEPT ![e] = RuntimesOf(Agent)]
  /\ rt' = Shut(RuntimesOf(Agent), Managed)
  /\ seats' = [k \in Key |-> IF k \in Agent THEN None ELSE seats[k]]
  /\ attaching' = [k \in Key |-> IF k \in Agent THEN None ELSE attaching[k]]
  /\ UNCHANGED <<arg, named, on, seatOf, adopt, closing, seat, sessions, thread, file,
                 snap, waits, history>>

\* closeAll() closes what is registered now.
Registered == {sessions[id] : id \in Attacher} \ {None}
ClosesAll(e) ==
  LET R == {r \in Registered : Live(r)} IN
  /\ Woken(e) /\ Moves(e, "disposeSeats", "closeAll")
  /\ ends' = [ends EXCEPT ![e] = R]
  /\ rt' = Shut(R, Managed)
  /\ UNCHANGED <<arg, named, on, seatOf, adopt, maps, seat, sessions, thread, file,
                 snap, waits, history>>

DisposeDone(e) ==
  /\ Woken(e) /\ Moves(e, "closeAll", "done")
  /\ UNCHANGED <<arg, named, on, seatOf, adopt, maps, seat, delegator, snap, enders,
                 history>>

-----------------------------------------------------------------------------
Attaches(c) ==
  \/ AwaitAttaching(c) \/ AwaitClosing(c) \/ Reuse(c) \/ Open(c) \/ ReadsAttachment(c)
  \/ Opens(c) \/ OpenFails(c)
Turns(c) ==
  \/ Replays(c) \/ Calls(c) \/ TurnStarts(c) \/ TurnRefused(c) \/ TurnCompletes(c)
  \/ TurnFails(c)
Settled(r) == CloseCompletes(r) \/ CloseFails(r)
Deletes(e) == DeletesTools(e) \/ DeletesProvider(e) \/ DeletedDone(e)
DisposeGoesOn(e) ==
  DisposesTools(e) \/ DisposesProvider(e) \/ ClosesAll(e) \/ DisposeDone(e)

Next ==
  \/ \E c \in Attacher : Arrives(c) \/ Attaches(c) \/ Turns(c) \/ Settled(c)
  \/ \E d \in Closer : Closes(d) \/ NothingToClose(d)
  \/ \E e \in Event : Deleted(e) \/ Deletes(e)
  \/ \E e \in Shutdown : Disposes(e) \/ DisposeGoesOn(e)
  \/ \E o \in Other : OtherReads(o) \/ OtherRenames(o)

Spec == Init /\ [][Next]_vars

-----------------------------------------------------------------------------
(* Properties.                                                             *)

\* Every variable keeps its type.
TypeOK ==
  /\ arg \in [Attacher -> Arg \cup {None}] /\ named \in [Closer -> Tool \cup {None}]
  /\ pc \in [Call -> PC]
  /\ on \in [Attacher \cup Closer -> Attacher \cup Closer \cup {None}]
  /\ seatOf \in [Attacher -> Attacher \cup {None}]
  /\ adopt \in [Attacher -> Record \cup {None}]
  /\ seats \in [Key -> Attacher \cup {None}]
  /\ attaching \in [Key -> Attacher \cup {None}]
  /\ closing \in [Agent -> Closer \cup {None}]
  /\ seat \in [Attacher -> [continuing : BOOLEAN, last : Message \cup {None}]]
  /\ rt \in [Attacher -> Runtime]
  /\ sessions \in [Attacher -> Attacher \cup {None}]
  /\ thread \in [Attacher -> {"none", "live", "deleted"}]
  /\ file \in Seq(Record) /\ Len(file) <= MaxRecords /\ snap \in [Other -> Seq(Record) \cup {None}]
  /\ waits \in [Event \cup Shutdown -> SUBSET (Attacher \cup Closer)]
  /\ ends \in [Event \cup Shutdown -> SUBSET Attacher]
  /\ stray \subseteq Attacher /\ retries \subseteq Run
  /\ answered \subseteq Key \X (Message \cup {None})

\* However calls of one seat with different configurations, closes and deletions
\* interleave, one Codex thread never takes turns from two app-servers, unless one
\* of them was left behind: by a close that failed to delete its thread, or by a
\* codex_close that closed another seat.
ThreadHasOneRuntime ==
  \A r, q \in Attacher \ stray :
    r # q /\ rt[r].st = "open" /\ rt[q].st = "open" => rt[r].thread # rt[q].thread

\* closeAll() has looked at what is registered.
Over == \E e \in Shutdown : pc[e] \in {"closeAll", "done"}

\* A turn never runs under the model, mode or isolation of another call, though the
\* handle it was started with names a seat that others replace.
TurnUnderItsConfiguration ==
  \A c \in Run \cup Delegate :
    pc[c] = "running" => rt[on[c]].config = arg[c].config

\* A handle in a map is never of a runtime that was registered over, or, before the
\* plugin closes all there are, of one that is closed: whoever uses or closes the seat
\* reaches the runtime it was opened with.
MapsHoldLiveSeats ==
  \A k \in Key : seats[k] # None => /\ sessions[rt[seats[k]].id] = seats[k]
                                    /\ Live(seats[k]) \/ Over

\* Whoever waits for an opening, a closing seat or a runtime waits for one that is
\* still going on: no call is left waiting for something that has already happened.
WaitsEnd ==
  /\ \A c \in Attacher :
       /\ pc[c] = "waitAttach" => pc[on[c]] \in Opening
       /\ pc[c] = "waitClose" => pc[on[c]] = "closing"
       /\ pc[c] = "closingOld" => rt[on[c]].st = "closing"
  /\ \A d \in Closer : pc[d] = "closing" => rt[on[d]].st = "closing"

\* A run called with a message whose turn has already completed never starts
\* another turn.
RetryRunsOnce == \A c \in retries : pc[c] # "running"
=============================================================================
