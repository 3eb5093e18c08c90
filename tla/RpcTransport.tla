---------------------------- MODULE RpcTransport ----------------------------
(***************************************************************************)
(* JsonRpcTransport (packages/codex-delegator/src/json-rpc.ts) with the    *)
(* app-server child it spawns, and terminateProcess (process.ts).          *)
(*                                                                         *)
(* A transport is a record of conn.  The operators on a record are what    *)
(* its callers do to it within one turn of the event loop; the actions     *)
(* are events: the child answers, breaks the framing or exits, a frame or  *)
(* the exit is read, a timer fires.  Whoever extends the module makes the  *)
(* requests.                                                               *)
(***************************************************************************)
EXTENDS Naturals, Sequences

CONSTANTS
  Transport,   \* the transports that may be opened
  MaxOut       \* bound on the frames an app-server has written and nobody read

VARIABLE conn

Reply == [st : {"waiting", "answered", "error", "timeout", "failed"}, of : Nat]

\* A transport: the child and whether its exit has been noticed, the promises of its
\* requests by their ids (reply), the ids in the map `pending`, the requests the child
\* has read and not answered (wire) and the frames it has written and readStdout() has
\* not read (out), `failure`, and how far close() is.
Unopened ==
  [child |-> "none", noticed |-> FALSE, reply |-> <<>>, pending |-> {}, wire |-> {},
   out |-> <<>>, broken |-> FALSE, failed |-> FALSE, close |-> "no"]

-----------------------------------------------------------------------------
(* What callers do.                                                        *)

\* The constructor.
Spawned == [Unopened EXCEPT !.child = "up"]

\* request() throws at once.
Refuses(c) == c.failed \/ c.close # "no"

\* request() of a transport that does not refuse: the frame reaches a child that runs.
Request(c) ==
  LET id == Len(c.reply) + 1 IN
  [c EXCEPT !.reply = Append(@, [st |-> "waiting", of |-> 0]),
            !.pending = @ \cup {id},
            !.wire = IF c.child = "up" THEN @ \cup {id} ELSE @]

\* The promise of the request settles, with the answer to `of`.
Settle(c, id, st, of) ==
  [c EXCEPT !.reply[id] = [st |-> st, of |-> of], !.pending = @ \ {id}]

\* fail(): the first failure stays, and every pending request is rejected with it.
Fail(c) ==
  [c EXCEPT !.failed = TRUE,
            !.reply = [k \in DOMAIN @ |-> IF k \in c.pending
                                            THEN [st |-> "failed", of |-> 0] ELSE @[k]],
            !.pending = {}]

\* close(), the first time: fail(), the end of stdin, and a SIGTERM to the process
\* group of a child that runs.  What the child still writes nobody waits for: it is left
\* out from here on.
Close(c) ==
  IF c.close # "no" THEN c
  ELSE [Fail(c) EXCEPT !.close = "term", !.wire = {}, !.out = <<>>, !.broken = FALSE]

\* A transport close() is through with, whose promises have long been taken.
Gone == [Unopened EXCEPT !.failed = TRUE, !.close = "done"]

Closed(x) == conn[x].close = "done"

-----------------------------------------------------------------------------
(* The app-server, external but for its exit being waited for.             *)

Answers(x) ==
  /\ conn[x].child = "up" /\ conn[x].close = "no" /\ ~conn[x].broken
  /\ Len(conn[x].out) < MaxOut
  /\ \E id \in conn[x].wire, ok \in BOOLEAN :
       conn' = [conn EXCEPT ![x].wire = @ \ {id},
                            ![x].out = Append(@, [id |-> id, ok |-> ok])]

\* A frame longer than maxFrameBytes.
Breaks(x) ==
  /\ conn[x].child = "up" /\ conn[x].close = "no" /\ ~conn[x].broken
  /\ Len(conn[x].out) < MaxOut
  /\ conn' = [conn EXCEPT ![x].broken = TRUE,
                          ![x].out = Append(@, [id |-> 0, ok |-> FALSE])]

Exits(x) ==
  /\ conn[x].child = "up"
  /\ conn' = [conn EXCEPT ![x].child = "exited", ![x].wire = {}]

-----------------------------------------------------------------------------
(* Events of the transport.                                                *)

\* Mutant: answers are taken in the order of the requests.
MutWaiting(c, id) == {k \in c.pending : \A q \in c.pending : k <= q}

\* The request that waits for the answer to id.
Waiting(c, id) == {k \in c.pending : k = id}

\* readStdout() and acceptLine(): a frame that is too long fails and closes the
\* transport and ends the reading, an answer settles the request that waits for its
\* id, and an answer nobody waits for is dropped.
Reads(x) ==
  LET c == conn[x]
      f == Head(c.out)
      rest == [c EXCEPT !.out = Tail(@)] IN
  /\ c.out # <<>>
  /\ conn' = [conn EXCEPT ![x] =
       IF f.id = 0 THEN Close(rest)
       ELSE IF Waiting(c, f.id) = {} THEN rest
       ELSE LET k == CHOOSE k \in Waiting(c, f.id) : TRUE IN
            Settle(rest, k, IF f.ok THEN "answered" ELSE "error", f.id)]

\* child.exited resolves before anyone closes the transport, before or after what the
\* child wrote has been read.
Notices(x) ==
  /\ conn[x].child = "exited" /\ conn[x].close = "no" /\ ~conn[x].noticed
  /\ conn' = [conn EXCEPT ![x] = [Fail(@) EXCEPT !.noticed = TRUE]]

\* The timer of withBoundary().
Expires(x) ==
  \E id \in conn[x].pending :
    conn' = [conn EXCEPT ![x] = Settle(@, id, "timeout", 0)]

\* terminateProcess(): 500 ms after the SIGTERM a SIGKILL, and 500 ms after that it
\* returns, whether or not the child has exited; before, as soon as it has.
Kills(x) ==
  /\ conn[x].close = "term" /\ conn[x].child = "up"
  /\ conn' = [conn EXCEPT ![x].close = "kill"]

\* Mutant: close() waits for the exit however long it takes.
MutTerminated(x) ==
  /\ conn[x].close \in {"term", "kill"} /\ conn[x].child = "exited"
  /\ conn' = [conn EXCEPT ![x] = Gone]

Terminated(x) ==
  /\ \/ conn[x].close \in {"term", "kill"} /\ conn[x].child = "exited"
     \/ conn[x].close = "kill"
  /\ conn' = [conn EXCEPT ![x] = Gone]

-----------------------------------------------------------------------------
ConnType ==
  conn \in [Transport ->
    [child : {"none", "up", "exited"}, noticed : BOOLEAN, reply : Seq(Reply),
     pending : SUBSET Nat, wire : SUBSET Nat, out : Seq([id : Nat, ok : BOOLEAN]), broken : BOOLEAN, failed : BOOLEAN,
     close : {"no", "term", "kill", "done"}]]

\* A request is settled by the answer to that request, though answers arrive after
\* their request timed out or the transport failed; and no request waits on a
\* transport that has failed or is closed, whichever of an unread answer, the exit, a
\* broken frame and close() came first.
Settlements ==
  \A x \in Transport :
    /\ \A k \in DOMAIN conn[x].reply :
         /\ conn[x].reply[k].st \in {"answered", "error"} => conn[x].reply[k].of = k
         /\ conn[x].reply[k].st = "waiting" <=> k \in conn[x].pending
    /\ conn[x].failed \/ conn[x].close # "no" => conn[x].pending = {}
=============================================================================
