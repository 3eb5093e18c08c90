----------------------------- MODULE CodexLogin -----------------------------
(***************************************************************************)
(* CodexDelegator's connections (packages/codex-delegator/src/             *)
(* delegator.ts): probe(), connect() with its ChatGPT login, the login     *)
(* transport all calls share and the timer that ends it, closeAll() of a   *)
(* delegator without seats, and an exec turn, over the app-servers of      *)
(* RpcTransport and the child processes of BoundedCommand.                 *)
(*                                                                         *)
(* One process runs the calls on one event loop: a call that is resumed    *)
(* runs to its next await before the next event is handled.  A probe opens *)
(* the transport <<c, 1>> and a login <<c, 2>>.                            *)
(***************************************************************************)
EXTENDS RpcTransport, BoundedCommand, FiniteSets

CONSTANTS
  Connect,     \* calls of connect(), and of probe(), which is one that does not log in;
               \* the callers of BoundedCommand are exec turns
  CloseAll,    \* calls of closeAll()
  None,        \* no transport, no timer
  MaxCalls     \* bound on the calls that are made, exec turns apart

ASSUME CallsAssumption ==
  /\ Transport = Connect \X {1, 2}
  /\ None \notin Transport \cup Connect
  /\ Connect \cap (CloseAll \cup Caller) = {} /\ CloseAll \cap Caller = {}

VARIABLES
  call,        \* the calls
  login,       \* loginTransport
  timer,       \* loginTimer: the connect that set it
  armed,       \* the timers that will fire
  stray        \* login transports another login took the place of, history

vars == <<conn, cmd, call, login, timer, armed, stray>>

Call == Connect \cup CloseAll \cup Caller
Commands == {"version", "help", "status"}
Ended == {"idle", "done", "failed"}

Nothing == [x |-> None, k |-> 0]

\* A call: where it awaits, the transport it uses (`transport` of probe()), the request k
\* of a transport or, for k = 0, the transport's close() it awaits, and how it ends.
NoCall == [pc |-> "idle", via |-> None, on |-> Nothing, ends |-> "no"]

Init ==
  /\ conn = [x \in Transport |-> Unopened]
  /\ cmd = [a \in Caller |-> NoCommand]
  /\ call = [c \in Call |-> NoCall]
  /\ login = None /\ timer = None /\ armed = {} /\ stray = {}

-----------------------------------------------------------------------------
(* The event loop.                                                         *)

\* What the call awaits is there, the end of a command apart.
Arrived(c) ==
  LET w == call[c].on IN
  /\ call[c].pc \notin Ended \cup Commands
  /\ IF call[c].pc = "exec" THEN Complete(cmd[c])
     ELSE IF w.x = None THEN TRUE
     ELSE IF w.k = 0 THEN Closed(w.x)
     ELSE conn[w.x].reply[w.k].st # "waiting"

Idle == \A c \in Call : ~Arrived(c)

\* The request the call awaited was answered with a result.
Answered(c) == conn[call[c].on.x].reply[call[c].on.k].st = "answered"

At(c, pc) == call[c].pc = pc /\ Arrived(c)

\* The command of a probe ends, as BoundedCommand tells, and the probe is resumed.
CommandEnds(c, pc) == Idle /\ call[c].pc = pc

-----------------------------------------------------------------------------
(* Pieces of a turn of a call.                                             *)

Goes(c, pc, on) == call' = [call EXCEPT ![c].pc = pc, ![c].on = on]

Keep == UNCHANGED <<login, timer, armed, stray>>

Ends(c, how) ==
  /\ call' = [call EXCEPT ![c] =
       [NoCall EXCEPT !.pc = IF how = "throws" THEN "failed" ELSE "done", !.ends = how]]
  /\ Keep /\ UNCHANGED <<conn, cmd>>

\* closeLoginTransport() up to its await.
LoginCloses ==
  /\ armed' = armed \ {timer}
  /\ timer' = None /\ login' = None
  /\ conn' = [x \in Transport |-> IF x = login THEN Close(conn[x]) ELSE conn[x]]
  /\ UNCHANGED <<cmd, stray>>

\* closeLoginTransport() awaited at pc.
ClosesLogin(c, pc) == LoginCloses /\ Goes(c, pc, [x |-> login, k |-> 0])

\* A request over x, which does not refuse it, awaited at pc.
Asks(c, x, pc) ==
  /\ ~Refuses(conn[x])
  /\ conn' = [conn EXCEPT ![x] = Request(@)]
  /\ call' = [call EXCEPT ![c].pc = pc, ![c].via = x,
                          ![c].on = [x |-> x, k |-> Len(conn[x].reply) + 1]]
  /\ UNCHANGED cmd

\* JsonRpcTransport.open() of x up to its handshake.
Opens(c, x) ==
  /\ conn' = [conn EXCEPT ![x] = Request(Spawned)]
  /\ call' = [call EXCEPT ![c].pc = "opening", ![c].via = x, ![c].on = [x |-> x, k |-> 1]]
  /\ Keep /\ UNCHANGED cmd

\* A command, awaited at pc.
Runs(c, pc) ==
  /\ Goes(c, pc, Nothing)
  /\ Keep /\ UNCHANGED <<conn, cmd>>

\* The catch block of probe(), with x as `transport`, up to its first command.
Catches(c, x) ==
  IF x = login THEN ClosesLogin(c, "catch")
  ELSE Goes(c, "catch", Nothing) /\ Keep /\ UNCHANGED <<conn, cmd>>

\* Mutant: the finally block closes what it opened only while no login is open.
MutOwn(c) == IF login = None THEN call[c].via ELSE None

\* What the finally block of probe() closes.
Own(c) == IF call[c].via # login THEN call[c].via ELSE None

\* The finally block, awaited at "finally", on the way to the end that is given.
Finally(c, how) ==
  /\ conn' = [x \in Transport |-> IF x = Own(c) THEN Close(conn[x]) ELSE conn[x]]
  /\ call' = [call EXCEPT ![c] = [NoCall EXCEPT !.pc = "finally",
                                 !.on = [x |-> Own(c), k |-> 0], !.ends = how]]
  /\ Keep /\ UNCHANGED cmd

-----------------------------------------------------------------------------
(* The calls: one action for each await a call is resumed at.              *)

\* closeAll() closes the login, a probe runs its first command, and the spawn of a
\* command that is not there throws.
Starts(c) ==
  /\ Idle /\ c \notin Caller /\ call[c].pc = "idle"
  /\ \A d \in Caller : call[d].pc = "idle"
  /\ Cardinality({d \in Call : call[d].pc # "idle"}) < MaxCalls
  /\ \/ c \in CloseAll /\ ClosesLogin(c, "closing")
     \/ c \in Connect /\ Runs(c, "version")
     \/ c \in Connect /\ Ends(c, "throws")

\* runCodexExec(): a turn shares nothing with the other calls, and is bounded to the
\* runs without them.
TurnStarts(c) ==
  /\ c \in Caller /\ \A d \in Call : call[d].pc = "idle"
  /\ \/ /\ cmd' = [cmd EXCEPT ![c] = Running]
        /\ Goes(c, "exec", Nothing)
        /\ Keep /\ UNCHANGED conn
     \/ Ends(c, "throws")

\* `codex --version` fails, or the login transport or one of its own is the probe's.
Versioned(c) ==
  /\ CommandEnds(c, "version")
  /\ \/ Ends(c, "returns")
     \/ login = None /\ (Opens(c, <<c, 1>>) \/ Catches(c, None))
     \/ login # None /\ Refuses(conn[login]) /\ Catches(c, login)
     \/ login # None /\ Asks(c, login, "account") /\ Keep

\* The handshake failed: open() closes the transport before it throws.
Unopens(c) ==
  LET x == call[c].on.x IN
  /\ At(c, "opening") /\ ~Answered(c)
  /\ conn' = [conn EXCEPT ![x] = Close(@)]
  /\ Goes(c, "unopened", [x |-> x, k |-> 0])
  /\ Keep /\ UNCHANGED cmd

NotOpened(c) ==
  /\ At(c, "unopened")
  /\ IF call[c].on.x[2] = 1 THEN Catches(c, None) ELSE Ends(c, "throws")

\* A probe's transport is open: account/read.
Opened(c) ==
  LET x == call[c].on.x IN
  /\ At(c, "opening") /\ Answered(c) /\ x[2] = 1
  /\ IF Refuses(conn[x]) THEN Catches(c, x) ELSE Asks(c, x, "account") /\ Keep

\* The account is read: model/list.
AccountRead(c) ==
  LET x == call[c].on.x IN
  /\ At(c, "account")
  /\ IF ~Answered(c) \/ Refuses(conn[x]) THEN Catches(c, x)
     ELSE Asks(c, x, "models") /\ Keep

\* The models are listed, or not: with an account the login is over.
ModelsListed(c) ==
  /\ At(c, "models")
  /\ ClosesLogin(c, "settled") \/ Finally(c, "login")

Settled(c) ==
  /\ At(c, "settled")
  /\ Finally(c, "returns")

\* The catch block: `codex exec --help` and `codex login status`.
Helps(c) ==
  /\ At(c, "catch")
  /\ Runs(c, "help") \/ Finally(c, "throws")

Helped(c) ==
  /\ CommandEnds(c, "help")
  /\ Finally(c, "returns") \/ Runs(c, "status") \/ Finally(c, "throws")

StatusRead(c) ==
  /\ CommandEnds(c, "status")
  /\ Finally(c, "returns")

\* The probe is over, and connect() goes on when Codex is there, wants a login and is
\* to be logged in.
Probed(c) ==
  /\ At(c, "finally")
  /\ \/ call[c].ends = "login" /\ ClosesLogin(c, "old")
     \/ Ends(c, IF call[c].ends = "throws" THEN "throws" ELSE "returns")

\* The old login is closed: connect() opens a transport for its own.
OpensLogin(c) ==
  /\ At(c, "old")
  /\ Opens(c, <<c, 2>>) \/ Ends(c, "throws")

\* The login transport is open and takes the place of what is there; the throw of a
\* request it refuses leaves it there.
LoginOpened(c) ==
  LET x == call[c].on.x IN
  /\ At(c, "opening") /\ Answered(c) /\ x[2] = 2
  /\ login' = x
  /\ stray' = IF login = None THEN stray ELSE stray \cup {login}
  /\ \/ Asks(c, x, "start")
     \/ /\ Refuses(conn[x])
        /\ call' = [call EXCEPT ![c] = [NoCall EXCEPT !.pc = "failed", !.ends = "throws"]]
        /\ UNCHANGED <<conn, cmd>>
  /\ UNCHANGED <<timer, armed>>

\* account/login/start: with a URL the timer runs, and without one, or with an error,
\* whatever login there is now is closed.
LoginStarted(c) ==
  /\ At(c, "start")
  /\ \/ /\ Answered(c)
        /\ timer' = c /\ armed' = armed \cup {c}
        /\ call' = [call EXCEPT ![c] = [NoCall EXCEPT !.pc = "done", !.ends = "returns"]]
        /\ UNCHANGED <<conn, cmd, login, stray>>
     \/ ClosesLogin(c, "refused")

Refused(c) ==
  /\ At(c, "refused")
  /\ Ends(c, "throws")

AllClosed(c) ==
  /\ At(c, "closing")
  /\ Ends(c, "returns")

TurnEnds(c) ==
  /\ At(c, "exec")
  /\ Ends(c, TurnStatus(cmd[c]))

\* The login timer, after ten minutes.
LoginExpires ==
  /\ Idle
  /\ \E t \in armed :
       /\ armed' = armed \ {t, timer}
       /\ timer' = None /\ login' = None
       /\ conn' = [x \in Transport |-> IF x = login THEN Close(conn[x]) ELSE conn[x]]
  /\ UNCHANGED <<cmd, call, stray>>

Resumes(c) ==
  \/ Versioned(c) \/ Unopens(c) \/ NotOpened(c) \/ Opened(c) \/ AccountRead(c)
  \/ ModelsListed(c) \/ Settled(c) \/ Helps(c) \/ Helped(c) \/ StatusRead(c) \/ Probed(c)
  \/ OpensLogin(c) \/ LoginOpened(c) \/ LoginStarted(c) \/ Refused(c) \/ AllClosed(c)
  \/ TurnEnds(c)

-----------------------------------------------------------------------------
(* Events.                                                                 *)

Others == UNCHANGED <<call, login, timer, armed, stray>>

\* readStdout() of x: before any other event, or with a frame of the chunk whose last
\* frame resumed a call.
ReadsFrame(x) ==
  /\ \A c \in Call : Arrived(c) => call[c].on.x = x
  /\ Reads(x) /\ Others /\ UNCHANGED cmd

ConnEvent(x) ==
  /\ Idle
  /\ Notices(x) \/ Expires(x) \/ Kills(x) \/ Terminated(x)
  /\ Others /\ UNCHANGED cmd

TurnEvent(a) ==
  /\ Idle
  /\ (\E s \in Stream : StreamEnds(a, s)) \/ TimesOut(a) \/ KillsGroup(a) \/ Killed(a)
  /\ Others /\ UNCHANGED conn

TurnIsCut(a) ==
  /\ Idle
  /\ (\E s \in Stream : Overflows(a, s)) \/ Aborted(a)
  /\ Others /\ UNCHANGED conn

\* The children act between two turns of the loop, where it sees what they did.
AppServer(x) ==
  /\ Idle
  /\ Answers(x) \/ Breaks(x) \/ Exits(x)
  /\ Others /\ UNCHANGED cmd

Child(a) ==
  /\ Idle
  /\ (\E code \in {"ok", "bad"} : Leaves(a, code)) \/ Forks(a) \/ KinEnds(a)
  /\ Others /\ UNCHANGED conn

Next ==
  \/ \E c \in Call : Starts(c) \/ TurnStarts(c) \/ Resumes(c)
  \/ LoginExpires
  \/ \E x \in Transport : ReadsFrame(x) \/ ConnEvent(x) \/ AppServer(x)
  \/ \E a \in Caller : TurnEvent(a) \/ TurnIsCut(a) \/ Child(a)

Spec == Init /\ [][Next]_vars

\* Calls are resumed, what is in a pipe is read, an exit is noticed, timers fire, and a
\* SIGKILL ends the group of a command.  Nothing is assumed of the children: they may
\* never answer and never exit, and a descendant may stay.
FairSpec ==
  /\ Spec
  /\ WF_vars(\E c \in Call : Resumes(c))
  /\ WF_vars(\E x \in Transport : ReadsFrame(x) \/ ConnEvent(x))
  /\ WF_vars(\E a \in Caller : TurnEvent(a))

-----------------------------------------------------------------------------
(* Properties.                                                             *)

TypeOK ==
  /\ ConnType /\ CmdType
  /\ call \in [Call ->
       [pc : Ended \cup Commands \cup
             {"exec", "opening", "unopened", "account", "models", "settled", "catch", "finally",
              "old", "start", "refused", "closing"},
        via : Transport \cup {None}, on : [x : Transport \cup {None}, k : Nat],
        ends : {"no", "returns", "throws", "login", "cancelled", "completed", "failed"}]]
  /\ login \in Transport \cup {None} /\ timer \in Connect \cup {None}
  /\ armed \subseteq Connect /\ stray \subseteq Transport

Lives(x) == conn[x].child = "up" /\ conn[x].close = "no"

\* An app-server nobody is closing is the login's, or one a call in progress uses, or
\* one whose login another login took the place of; and the login's is there only while
\* its timer or the call that starts it is bound to close it.  Whatever the order of
\* two calls, closeAll(), the timer, failures and exits.
NoStrayServer ==
  /\ \A x \in Transport :
       Lives(x) => \/ x = login \/ x \in stray
                   \/ \E c \in Call : call[c].pc \notin Ended /\ x \in {call[c].via, call[c].on.x}
  /\ login # None /\ Lives(login) =>
       \/ timer \in armed
       \/ \E c \in Call : call[c].pc = "start" /\ call[c].on.x = login

\* A descendant of an exec turn holds the pipes of a codex that has exited: neither the
\* deadline nor cancellation ends the turn.
Outlived(c) == c \in Caller /\ Exited(cmd[c]) /\ cmd[c].kin

\* Every call ends though no app-server answers and no child exits of itself, but for a
\* turn whose codex is outlived by a descendant: with the calls bounded, a time comes
\* when none is left.
CallsEnd == []<>(\A c \in Call : call[c].pc \in Ended \/ Outlived(c))
=============================================================================
