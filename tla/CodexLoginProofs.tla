-------------------------- MODULE CodexLoginProofs --------------------------
(***************************************************************************)
(* Theorems about the connections of a delegator, for any number of calls, *)
(* transports, requests, frames and commands.                              *)
(***************************************************************************)
EXTENDS CodexLogin, SequenceTheorems, TLAPS

-----------------------------------------------------------------------------
(* The inductive invariant.                                                *)

ConnRec ==
  [child : {"none", "up", "exited"}, noticed : BOOLEAN, reply : Seq(Reply),
   pending : SUBSET Nat, wire : SUBSET Nat, out : Seq([id : Nat, ok : BOOLEAN]),
   broken : BOOLEAN, failed : BOOLEAN, close : {"no", "term", "kill", "done"}]

Shut(k) == k.close # "no"
Fresh(k) == k.child = "none" /\ k.close = "no"
Up(k) == k.child = "up" /\ k.close = "no"

\* A transport settles its requests as Settlements says; one that has failed and is not
\* closed has lost its child; and nobody has written to one that is not opened.
Sound(k) ==
  /\ \A i \in DOMAIN k.reply :
       /\ k.reply[i].st \in {"answered", "error"} => k.reply[i].of = i
       /\ k.reply[i].st = "waiting" <=> i \in k.pending
  /\ k.failed \/ Shut(k) => k.pending = {}
  /\ k.failed /\ ~Shut(k) => k.child = "exited"
  /\ Fresh(k) => k.out = <<>>

\* Where a call awaits a request of its transport, where a close(), and where neither.
AtRequest == {"opening", "account", "models", "start"}
AtClose == {"settled", "catch", "finally", "old", "refused", "closing"}
AtCommand == {"idle", "version", "help", "status", "exec"}

\* The login transport of a connect is not opened yet.
Early(c) ==
  \/ call[c].pc \in {"idle", "version", "account", "models", "settled", "catch", "help",
                     "status", "finally", "old"}
  \/ call[c].pc \in {"opening", "unopened"} /\ call[c].via[2] = 1

\* What a call uses where it awaits.
Awaits(c) ==
  LET q == call[c] IN
  /\ q.pc \in AtRequest \cup {"unopened"} => q.via # None /\ q.on.x = q.via
  /\ q.pc \in {"opening", "unopened"} => q.via \in {<<c, 1>>, <<c, 2>>}
  /\ q.pc \in AtClose \cup {"unopened"} /\ q.on.x # None => Shut(conn[q.on.x])
  /\ q.pc \in AtCommand => q.on.x = None
  /\ q.pc \in {"idle", "version", "exec", "finally", "old", "closing"} => q.via = None
  /\ q.pc \in {"start", "refused"} => q.via = <<c, 2>>

\* A call opens its transports once: until then they are fresh.
Unborn(c) ==
  /\ call[c].pc \in {"idle", "version"} => Fresh(conn[<<c, 1>>])
  /\ Early(c) => Fresh(conn[<<c, 2>>])

\* The transport a connect logs in over is the login, or the login no more: another took
\* its place, or it is closed.
Succeeded(c) ==
  LET x == call[c].via IN
  /\ call[c].pc = "start" => x = login \/ x \in stray \/ Shut(conn[x])
  /\ call[c].pc = "refused" => x \in stray \/ Shut(conn[x])

\* A call with all it knows.
Fits(c) ==
  /\ Awaits(c) /\ Succeeded(c)
  /\ c \in Connect => Unborn(c)
  /\ call[c].via # None => ~Fresh(conn[call[c].via])
  /\ call[c].on.x # None => ~Fresh(conn[call[c].on.x])
  /\ call[c].pc \notin {"idle", "exec", "closing"} \cup Ended => c \in Connect
  /\ call[c].pc = "exec" => c \in Caller

LoginInv ==
  /\ TypeOK
  /\ \A x \in Transport : Sound(conn[x])
  /\ login # None => ~Fresh(conn[login])
  /\ \A c \in Call : Fits(c)
  /\ NoStrayServer

-----------------------------------------------------------------------------
(* What is done to one transport.                                          *)

\* l is a later k: sound, shut if k is, no longer fresh if k is not, and not brought up.
Later(k, l) ==
  /\ l \in ConnRec /\ Sound(l)
  /\ Shut(k) => Shut(l)
  /\ Fresh(l) => Fresh(k)
  /\ Up(l) => Up(k)

LEMMA SameLater ==
  ASSUME NEW k \in ConnRec, Sound(k)
  PROVE  Later(k, k)
BY DEF Later

LEMMA RequestLater ==
  ASSUME NEW k \in ConnRec, Sound(k), ~Refuses(k)
  PROVE  LET l == Request(k) IN
         /\ Later(k, l) /\ l.child = k.child /\ l.close = k.close
         /\ Len(k.reply) + 1 \in Nat \ {0}
<1> DEFINE id == Len(k.reply) + 1
           r == Append(k.reply, [st |-> "waiting", of |-> 0])
           p == k.pending \cup {id}
           w == IF k.child = "up" THEN k.wire \cup {id} ELSE k.wire
<1>1. id \in Nat \ {0} /\ k.reply \in Seq(Reply)
  BY DEF ConnRec
<1>2. [st |-> "waiting", of |-> 0] \in Reply
  BY DEF Reply
<1>3. /\ r \in Seq(Reply) /\ DOMAIN r = 1..id /\ DOMAIN k.reply = 1..(id - 1)
      /\ r[id] = [st |-> "waiting", of |-> 0]
      /\ \A i \in 1..(id - 1) : r[i] = k.reply[i]
  BY <1>1, <1>2
<1>4. w \in SUBSET Nat /\ p \in SUBSET Nat
  BY <1>1 DEF ConnRec
<1>5. Request(k) = [k EXCEPT !.reply = r, !.pending = p, !.wire = w]
  BY DEF Request
<1> DEFINE l == Request(k)
<1> HIDE DEF r, w, p, l
<1>6. l \in ConnRec
  BY <1>1, <1>3, <1>4, <1>5 DEF ConnRec, l
<1>7. /\ l.reply = r /\ l.pending = p /\ l.out = k.out
      /\ l.child = k.child /\ l.close = k.close /\ l.failed = k.failed
  BY <1>5 DEF ConnRec, l
<1>8. \A i \in DOMAIN r : i = id \/ (i \in DOMAIN k.reply /\ i # id /\ r[i] = k.reply[i])
  BY <1>1, <1>3
<1>9. Sound(l)
  BY <1>3, <1>7, <1>8 DEF Sound, Shut, Fresh, Refuses, p
<1> HIDE DEF id
<1> QED
  BY <1>1, <1>6, <1>7, <1>9 DEF Later, Shut, Fresh, Up, l, id

\* The constructor and the handshake.
LEMMA SpawnedUp ==
  LET k == Request(Spawned) IN k \in ConnRec /\ Sound(k) /\ Up(k)
<1>1. {} \in SUBSET Nat /\ <<>> \in Seq(Reply) /\ <<>> \in Seq([id : Nat, ok : BOOLEAN])
  OBVIOUS
<1>2. Unopened \in ConnRec
  BY <1>1 DEF Unopened, ConnRec
<1>3. Spawned \in ConnRec
  BY <1>2 DEF Spawned, ConnRec
<1>4. /\ Unopened.reply = <<>> /\ Unopened.pending = {} /\ Unopened.close = "no"
      /\ Unopened.failed = FALSE /\ Unopened.out = <<>>
  BY DEF Unopened
<1>5. /\ Spawned.child = "up" /\ Spawned.reply = <<>> /\ Spawned.pending = {}
      /\ Spawned.close = "no" /\ Spawned.failed = FALSE /\ Spawned.out = <<>>
  BY <1>2, <1>4 DEF Spawned, ConnRec
<1>6. Sound(Spawned)
  BY <1>5 DEF Sound, Shut, Fresh
<1>7. ~Refuses(Spawned)
  BY <1>5 DEF Refuses
<1> QED
  BY <1>3, <1>5, <1>6, <1>7, RequestLater DEF Later, Up

LEMMA Replaced ==
  ASSUME NEW S, NEW s \in Seq(S), NEW n, NEW v \in S
  PROVE  LET r == [s EXCEPT ![n] = v] IN
         /\ r \in Seq(S) /\ DOMAIN r = DOMAIN s
         /\ \A i \in DOMAIN r : r[i] = IF i = n THEN v ELSE s[i]
<1>1. DOMAIN s = 1..Len(s) /\ Len(s) \in Nat /\ s \in [1..Len(s) -> S]
  OBVIOUS
<1>2. [s EXCEPT ![n] = v] \in [1..Len(s) -> S]
  BY <1>1
<1> QED
  BY <1>1, <1>2

LEMMA SettleLater ==
  ASSUME NEW k \in ConnRec, Sound(k), NEW id \in k.pending,
         NEW st \in {"answered", "error", "timeout"}, NEW of \in Nat,
         st \in {"answered", "error"} => of = id
  PROVE  Later(k, Settle(k, id, st, of))
<1> DEFINE r == [k.reply EXCEPT ![id] = [st |-> st, of |-> of]]
           l == Settle(k, id, st, of)
<1>1. k.reply \in Seq(Reply) /\ id \in Nat /\ [st |-> st, of |-> of] \in Reply
  BY DEF ConnRec, Reply
<1>2. /\ r \in Seq(Reply) /\ DOMAIN r = DOMAIN k.reply
      /\ \A i \in DOMAIN r : r[i] = IF i = id THEN [st |-> st, of |-> of] ELSE k.reply[i]
  BY <1>1, Replaced
<1>4. l = [k EXCEPT !.reply = r, !.pending = @ \ {id}]
  BY DEF Settle
<1> HIDE DEF r, l
<1>5. l \in ConnRec
  BY <1>1, <1>2, <1>4 DEF ConnRec
<1>6. /\ l.reply = r /\ l.pending = k.pending \ {id} /\ l.out = k.out
      /\ l.child = k.child /\ l.close = k.close /\ l.failed = k.failed
  BY <1>4 DEF ConnRec
<1>7. Sound(l)
  BY <1>2, <1>6 DEF Sound, Shut, Fresh
<1> QED
  BY <1>5, <1>6, <1>7 DEF Later, Shut, Fresh, Up, l

\* fail() leaves no request waiting.
LEMMA FailSettles ==
  ASSUME NEW k \in ConnRec, Sound(k)
  PROVE  LET l == Fail(k) IN
         /\ l \in ConnRec /\ l.failed /\ l.pending = {}
         /\ l.child = k.child /\ l.close = k.close /\ l.out = k.out
         /\ \A i \in DOMAIN l.reply :
              /\ l.reply[i].st \in {"answered", "error"} => l.reply[i].of = i
              /\ l.reply[i].st # "waiting"
<1> DEFINE r == [i \in DOMAIN k.reply |-> IF i \in k.pending THEN [st |-> "failed", of |-> 0]
                                           ELSE k.reply[i]]
           l == Fail(k)
<1>1. k.reply \in Seq(Reply) /\ [st |-> "failed", of |-> 0] \in Reply
  BY DEF ConnRec, Reply
<1>2. DOMAIN k.reply = 1..Len(k.reply) /\ Len(k.reply) \in Nat
  BY <1>1
<1>3. r \in [1..Len(k.reply) -> Reply]
  BY <1>1, <1>2
<1>4. r \in Seq(Reply)
  BY <1>2, <1>3
<1>5. l = [k EXCEPT !.failed = TRUE, !.reply = r, !.pending = {}]
  BY DEF Fail
<1>6. \A i \in DOMAIN r : i \in DOMAIN k.reply /\
        r[i] = IF i \in k.pending THEN [st |-> "failed", of |-> 0] ELSE k.reply[i]
  OBVIOUS
<1> HIDE DEF r, l
<1>7. l \in ConnRec
  BY <1>4, <1>5 DEF ConnRec
<1>8. /\ l.reply = r /\ l.pending = {} /\ l.failed /\ l.out = k.out
      /\ l.child = k.child /\ l.close = k.close
  BY <1>5 DEF ConnRec
<1>9. \A i \in DOMAIN l.reply :
        /\ l.reply[i].st \in {"answered", "error"} => l.reply[i].of = i
        /\ l.reply[i].st # "waiting"
  BY <1>6, <1>8 DEF Sound
<1> QED
  BY <1>7, <1>8, <1>9 DEF l

LEMMA CloseLater ==
  ASSUME NEW k \in ConnRec, Sound(k)
  PROVE  Later(k, Close(k)) /\ Shut(Close(k))
<1>1. CASE Shut(k)
  BY <1>1, SameLater DEF Close, Shut
<1>2. CASE ~Shut(k)
  <2> DEFINE f == Fail(k)
             l == Close(k)
  <2>1. l = [f EXCEPT !.close = "term", !.wire = {}, !.out = <<>>, !.broken = FALSE]
    BY <1>2 DEF Close, Shut
  <2>2. /\ f \in ConnRec /\ f.failed /\ f.pending = {}
        /\ \A i \in DOMAIN f.reply :
             /\ f.reply[i].st \in {"answered", "error"} => f.reply[i].of = i
             /\ f.reply[i].st # "waiting"
    BY FailSettles
  <2>6. {} \in SUBSET Nat /\ <<>> \in Seq([id : Nat, ok : BOOLEAN])
    OBVIOUS
  <2> HIDE DEF f, l
  <2>3. l \in ConnRec
    BY <2>1, <2>2, <2>6 DEF ConnRec
  <2>4. l.reply = f.reply /\ l.pending = {} /\ l.close = "term"
    BY <2>1, <2>2 DEF ConnRec
  <2>5. Sound(l)
    BY <2>2, <2>4 DEF Sound, Shut, Fresh
  <2> QED
    BY <2>3, <2>4, <2>5 DEF Later, Shut, Fresh, Up, l
<1> QED
  BY <1>1, <1>2

-----------------------------------------------------------------------------
(* A step of a call.                                                       *)

CallRec ==
  [pc : Ended \cup Commands \cup
        {"exec", "opening", "unopened", "account", "models", "settled", "catch", "finally",
         "old", "start", "refused", "closing"},
   via : Transport \cup {None}, on : [x : Transport \cup {None}, k : Nat],
   ends : {"no", "returns", "throws", "login", "cancelled", "completed", "failed"}]

LEMMA Typed ==
  TypeOK <=> /\ conn \in [Transport -> ConnRec] /\ CmdType
             /\ call \in [Call -> CallRec]
             /\ login \in Transport \cup {None} /\ timer \in Connect \cup {None}
             /\ armed \subseteq Connect /\ stray \subseteq Transport
BY DEF TypeOK, ConnType, ConnRec, CallRec

LEMMA NoCallTyped ==
  /\ NoCall \in CallRec /\ Nothing.x = None
  /\ NoCall.pc = "idle" /\ NoCall.via = None /\ NoCall.on.x = None
BY DEF NoCall, Nothing, CallRec, Ended

LEMMA Pairs ==
  /\ \A c \in Connect : <<c, 1>> \in Transport /\ <<c, 2>> \in Transport
  /\ \A c, d, i, j : <<c, i>> = <<d, j>> => c = d /\ i = j
  /\ \A c, i : <<c, i>>[1] = c /\ <<c, i>>[2] = i
  /\ None \notin Transport /\ None \notin Connect
BY CallsAssumption

\* Transports live on, and a transport that is brought up is the call's own.
Conns(c) ==
  \A x \in Transport :
    /\ conn'[x] \in ConnRec /\ Sound(conn'[x])
    /\ Shut(conn[x]) => Shut(conn'[x])
    /\ Fresh(conn'[x]) => Fresh(conn[x])
    /\ Fresh(conn[x]) /\ ~Fresh(conn'[x]) => x \in {<<c, 1>>, <<c, 2>>}
    /\ Up(conn'[x]) => Up(conn[x]) \/ (x = call'[c].via /\ call'[c].pc \notin Ended /\ x # login')

\* What the call does to the login.
Hands(c) ==
  /\ stray \subseteq stray'
  /\ login' # None => ~Fresh(conn'[login'])
  /\ login # None => login = login' \/ login \in stray' \/ Shut(conn'[login])
  /\ login' # None /\ Up(conn'[login']) =>
       \/ login' = login /\ timer' = timer /\ armed' = armed /\ call[c].pc # "start"
       \/ timer' \in armed'
       \/ call'[c].pc = "start" /\ call'[c].on.x = login'

\* What the call lets go of is not up, or it is the login's or stray.
Drops(c) ==
  \A x \in {call[c].via, call[c].on.x} :
    x # None /\ call[c].pc \notin Ended /\ Up(conn'[x]) =>
      \/ x = login' \/ x \in stray'
      \/ call'[c].pc \notin Ended /\ x \in {call'[c].via, call'[c].on.x}

\* A step of one call keeps the invariant if it keeps what the call itself knows.
LEMMA Steps ==
  ASSUME LoginInv, TypeOK', NEW c \in Call,
         \A d \in Call \ {c} : call'[d] = call[d],
         Conns(c), Hands(c), Drops(c), Fits(c)'
  PROVE  LoginInv'
<1>1. /\ conn \in [Transport -> ConnRec] /\ call \in [Call -> CallRec]
      /\ login \in Transport \cup {None} /\ login' \in Transport \cup {None}
  BY Typed DEF LoginInv, TypeOK, ConnType, ConnRec, CallRec
<1>2. \A d \in Call : /\ call[d].via \in Transport \cup {None}
                      /\ call[d].on.x \in Transport \cup {None}
  BY <1>1 DEF CallRec
<1>3. ASSUME NEW d \in Call, d # c
      PROVE  Fits(d)'
  <2>1. call'[d] = call[d] /\ Fits(d)
    BY <1>3 DEF LoginInv
  <2>2. Awaits(d)'
    BY <2>1, <1>2 DEF Fits, Awaits, Conns
  <2>3. call[d].pc \in {"start", "refused"} => call[d].via \in Transport
    BY <2>1, <1>2, Pairs DEF Fits, Awaits, AtRequest, Ended
  <2>4. Succeeded(d)'
    BY <2>1, <2>3, <1>2, Pairs DEF Fits, Succeeded, Conns, Hands
  <2>5. d \in Connect => Unborn(d)'
    <3>1. SUFFICES ASSUME d \in Connect PROVE Unborn(d)'
      OBVIOUS
    <3>2. \A i \in {1, 2} : Fresh(conn[<<d, i>>]) => Fresh(conn'[<<d, i>>])
      BY <1>3, <3>1, Pairs DEF Conns
    <3>3. Early(d)' <=> Early(d)
      BY <2>1 DEF Early
    <3> QED
      BY <2>1, <3>1, <3>2, <3>3 DEF Fits, Unborn
  <2>6. /\ call[d].via # None => ~Fresh(conn'[call[d].via])
        /\ call[d].on.x # None => ~Fresh(conn'[call[d].on.x])
    BY <2>1, <1>2 DEF Fits, Conns
  <2> QED
    BY <2>1, <2>2, <2>4, <2>5, <2>6 DEF Fits
<1>4. ASSUME NEW x \in Transport, Up(conn'[x])
      PROVE  \/ x = login' \/ x \in stray'
             \/ \E d \in Call : call'[d].pc \notin Ended /\ x \in {call'[d].via, call'[d].on.x}
  <2>1. CASE Up(conn[x])
    <3>1. \/ x = login \/ x \in stray
          \/ \E d \in Call : call[d].pc \notin Ended /\ x \in {call[d].via, call[d].on.x}
      BY <2>1 DEF LoginInv, NoStrayServer, Lives, Up
    <3>2. CASE x = login \/ x \in stray
      BY <1>4, <3>2, Pairs DEF Hands, Shut, Up
    <3>3. CASE \E d \in Call : call[d].pc \notin Ended /\ x \in {call[d].via, call[d].on.x}
      BY <1>4, <3>3, Pairs DEF Drops
    <3> QED
      BY <3>1, <3>2, <3>3
  <2> QED
    BY <1>4, <2>1 DEF Conns
<1>5. ASSUME login' # None, Up(conn'[login'])
      PROVE  \/ timer' \in armed'
             \/ \E d \in Call : call'[d].pc = "start" /\ call'[d].on.x = login'
  <2>1. CASE login' = login /\ timer' = timer /\ armed' = armed /\ call[c].pc # "start"
    <3>1. Up(conn[login])
      BY <1>1, <1>5, <2>1 DEF Conns
    <3>2. \/ timer \in armed
          \/ \E d \in Call : call[d].pc = "start" /\ call[d].on.x = login
      BY <1>5, <2>1, <3>1 DEF LoginInv, NoStrayServer, Lives, Up
    <3> QED
      BY <2>1, <3>2
  <2> QED
    BY <1>5, <2>1 DEF Hands
<1>6. NoStrayServer'
  BY <1>4, <1>5 DEF NoStrayServer, Lives, Up
<1>7. \A d \in Call : Fits(d)'
  BY <1>3
<1>8. \A x \in Transport : Sound(conn'[x])
  BY DEF Conns
<1>9. login' # None => ~Fresh(conn'[login'])
  BY DEF Hands
<1> QED
  BY <1>6, <1>7, <1>8, <1>9 DEF LoginInv

\* Every transport lives on, and no fresh one is touched.
Ages == \A x \in Transport : /\ Later(conn[x], conn'[x])
                             /\ Fresh(conn[x]) => Fresh(conn'[x])

LEMMA AgesConns ==
  ASSUME Ages
  PROVE  \A c \in Call : Conns(c)
BY DEF Ages, Later, Conns

LEMMA SameAges ==
  ASSUME LoginInv, conn' = conn
  PROVE  Ages /\ conn' \in [Transport -> ConnRec]
BY SameLater, Typed DEF LoginInv, Ages

\* One transport is closed, which is not fresh, or none is.
LEMMA ClosedAges ==
  ASSUME LoginInv, NEW y, y \in Transport => ~Fresh(conn[y]),
         conn' = [x \in Transport |-> IF x = y THEN Close(conn[x]) ELSE conn[x]]
  PROVE  Ages /\ conn' \in [Transport -> ConnRec] /\ (y \in Transport => Shut(conn'[y]))
<1>1. ASSUME NEW x \in Transport
      PROVE  /\ Later(conn[x], conn'[x]) /\ (Fresh(conn[x]) => Fresh(conn'[x]))
             /\ conn'[x] \in ConnRec /\ (x = y => Shut(conn'[x]))
  <2>1. conn[x] \in ConnRec /\ Sound(conn[x])
    BY Typed DEF LoginInv
  <2>2. conn'[x] = IF x = y THEN Close(conn[x]) ELSE conn[x]
    OBVIOUS
  <2> QED
    BY <2>1, <2>2, CloseLater, SameLater DEF Later
<1>2. conn' \in [Transport -> ConnRec]
  BY <1>1
<1> QED
  BY <1>1, <1>2 DEF Ages

\* One transport takes a step of its own.
LEMMA OneAges ==
  ASSUME LoginInv, NEW y \in Transport, NEW l, Later(conn[y], l), Fresh(conn[y]) => Fresh(l),
         conn' = [conn EXCEPT ![y] = l]
  PROVE  Ages /\ conn' \in [Transport -> ConnRec] /\ conn'[y] = l
<1>1. conn \in [Transport -> ConnRec] /\ \A x \in Transport : Sound(conn[x])
  BY Typed DEF LoginInv
<1>2. conn'[y] = l /\ \A x \in Transport \ {y} : conn'[x] = conn[x]
  BY <1>1
<1>3. conn' \in [Transport -> ConnRec]
  BY <1>1 DEF Later
<1> QED
  BY <1>1, <1>2, <1>3, SameLater DEF Ages

-----------------------------------------------------------------------------
(* The pieces of a turn of a call.                                         *)

LEMMA Facts ==
  ASSUME LoginInv
  PROVE  /\ conn \in [Transport -> ConnRec] /\ CmdType /\ call \in [Call -> CallRec]
         /\ login \in Transport \cup {None} /\ timer \in Connect \cup {None}
         /\ armed \subseteq Connect /\ stray \subseteq Transport
         /\ \A x \in Transport : Sound(conn[x])
         /\ \A c \in Call : /\ Fits(c)
                            /\ call[c].via \in Transport \cup {None}
                            /\ call[c].on.x \in Transport \cup {None}
BY Typed DEF LoginInv, CallRec

LEMMA EndsKeeps ==
  ASSUME LoginInv, NEW c \in Call,
         NEW how \in {"returns", "throws", "cancelled", "completed", "failed"}, Ends(c, how),
         call[c].pc # "start",
         \A x \in {call[c].via, call[c].on.x} :
           x # None /\ Up(conn[x]) => x = login \/ x \in stray
  PROVE  LoginInv'
<1> DEFINE q == [NoCall EXCEPT !.pc = IF how = "throws" THEN "failed" ELSE "done", !.ends = how]
<1>1. q \in CallRec /\ q.pc \in {"done", "failed"} /\ q.via = None /\ q.on.x = None
  BY NoCallTyped DEF CallRec, Ended
<1>2. call' = [call EXCEPT ![c] = q] /\ Keep /\ conn' = conn /\ cmd' = cmd
  BY DEF Ends
<1> HIDE DEF q
<1>3. call' \in [Call -> CallRec] /\ call'[c] = q /\ \A d \in Call \ {c} : call'[d] = call[d]
  BY <1>1, <1>2, Facts
<1>4. TypeOK'
  BY <1>2, <1>3, Facts, Typed DEF TypeOK, ConnType, ConnRec, CallRec, CmdType, Keep
<1>5. Conns(c)
  BY <1>2, SameAges, AgesConns
<1>6. Hands(c)
  BY <1>2, Facts, Pairs DEF Hands, Keep, LoginInv
<1>7. Drops(c)
  BY <1>2, Facts, Pairs DEF Drops, Keep
<1>8. Fits(c)'
  BY <1>1, <1>3 DEF Fits, Awaits, Succeeded, Unborn, Early, AtRequest, AtClose, AtCommand, Ended
<1> QED
  BY <1>3, <1>4, <1>5, <1>6, <1>7, <1>8, Steps

LEMMA RunsKeeps ==
  ASSUME LoginInv, NEW c \in Connect, NEW pc \in {"version", "help", "status"}, Runs(c, pc),
         \/ pc = "version" /\ call[c].pc = "idle"
         \/ pc # "version" /\ call[c].pc \in {"catch", "help"}
  PROVE  LoginInv'
<1> DEFINE q == [call[c] EXCEPT !.pc = pc, !.on = Nothing]
<1>0. c \in Call
  BY DEF Call
<1>1. q \in CallRec /\ q.pc = pc /\ q.via = call[c].via /\ q.on.x = None
  BY <1>0, Facts, NoCallTyped DEF CallRec, Commands, Nothing
<1>2. call' = [call EXCEPT ![c] = q] /\ Keep /\ conn' = conn /\ cmd' = cmd
  BY <1>0, Facts DEF Runs, Goes
<1> HIDE DEF q
<1>3. call' \in [Call -> CallRec] /\ call'[c] = q /\ \A d \in Call \ {c} : call'[d] = call[d]
  BY <1>0, <1>1, <1>2, Facts
<1>4. TypeOK'
  BY <1>2, <1>3, Facts, Typed DEF TypeOK, ConnType, ConnRec, CallRec, CmdType, Keep
<1>5. Conns(c)
  BY <1>0, <1>2, SameAges, AgesConns
<1>6. Hands(c)
  BY <1>2, Facts, Pairs DEF Hands, Keep, LoginInv
<1>a. Fits(c) /\ Awaits(c)
  BY <1>0, Facts DEF Fits
<1>7. Drops(c)
  BY <1>a, <1>1, <1>2, <1>3 DEF Drops, Awaits, AtClose, AtCommand, Shut, Up, Ended
<1>8. Fits(c)'
  BY <1>a, <1>1, <1>2, <1>3
  DEF Fits, Awaits, Succeeded, Unborn, Early, AtRequest, AtClose, AtCommand, Ended
<1> QED
  BY <1>0, <1>3, <1>4, <1>5, <1>6, <1>7, <1>8, Steps

\* closeLoginTransport() leaves no login.
LEMMA LoginClosed ==
  ASSUME LoginInv, LoginCloses
  PROVE  /\ Ages /\ conn' \in [Transport -> ConnRec]
         /\ login' = None /\ timer' = None /\ armed' \subseteq Connect
         /\ login # None => Shut(conn'[login])
         /\ stray' = stray /\ cmd' = cmd
<1>1. login \in Transport => ~Fresh(conn[login])
  BY Pairs DEF LoginInv
<1> QED
  BY <1>1, ClosedAges, Facts DEF LoginCloses

LEMMA ClosesKeeps ==
  ASSUME LoginInv, NEW c \in Call, NEW pc \in AtClose \ {"finally"}, ClosesLogin(c, pc),
         call[c].pc \notin Ended \ {"idle"},
         pc # "closing" => c \in Connect,
         pc = "closing" => c \notin Connect,
         pc \in {"settled", "catch", "old"} => Early(c),
         pc = "refused" <=> call[c].pc = "start",
         pc \in {"old", "closing"} => call[c].via = None
  PROVE  LoginInv'
<1> DEFINE on == [x |-> login, k |-> 0]
           q == [call[c] EXCEPT !.pc = pc, !.on = on]
<1>0. on \in [x : Transport \cup {None}, k : Nat] /\ on.x = login
  BY Facts
<1> HIDE DEF on
<1>1. q \in CallRec /\ q.pc = pc /\ q.via = call[c].via /\ q.on.x = login
  BY <1>0, Facts DEF CallRec, AtClose
<1>2. call' = [call EXCEPT ![c] = q] /\ LoginCloses
  BY Facts DEF ClosesLogin, Goes, on
<1> HIDE DEF q
<1>3. call' \in [Call -> CallRec] /\ call'[c] = q /\ \A d \in Call \ {c} : call'[d] = call[d]
  BY <1>1, <1>2, Facts
<1>a. /\ Ages /\ conn' \in [Transport -> ConnRec]
      /\ login' = None /\ timer' = None /\ armed' \subseteq Connect
      /\ login # None => Shut(conn'[login])
      /\ stray' = stray /\ cmd' = cmd
  BY <1>2, LoginClosed
<1>4. TypeOK'
  BY <1>a, <1>3, Facts, Typed DEF TypeOK, ConnType, ConnRec, CallRec, CmdType
<1>5. Conns(c)
  BY <1>a, AgesConns
<1>6. Hands(c)
  BY <1>a DEF Hands
<1>b. Fits(c) /\ Awaits(c) /\ Succeeded(c)
  BY Facts DEF Fits
<1>c. /\ call[c].via # None => call[c].via \in Transport
      /\ call[c].on.x # None => call[c].on.x \in Transport
  BY Facts
<1>7. Drops(c)
  <2>1. call[c].on.x # None => call[c].on.x = call[c].via \/ Shut(conn[call[c].on.x])
    BY <1>b, Facts DEF Awaits, AtRequest, AtClose, AtCommand, Ended, CallRec, Commands
  <2>2. ASSUME call[c].on.x # None, Shut(conn[call[c].on.x])
        PROVE  ~Up(conn'[call[c].on.x])
    BY <1>c, <2>2, <1>5 DEF Conns, Shut, Up
  <2> QED
    BY <2>1, <2>2, <1>1, <1>3 DEF Drops, AtClose, Ended
<1>8. Awaits(c)'
  BY <1>b, <1>a, <1>1, <1>3 DEF Awaits, AtRequest, AtClose, AtCommand
<1>9. Succeeded(c)'
  BY <1>b, <1>a, <1>c, <1>1, <1>3, <1>5 DEF Awaits, Succeeded, AtClose, Conns, AtRequest
<1>10. c \in Connect => Unborn(c)'
  <2>1. pc # "closing" /\ Early(c)' => Early(c)
    BY <1>1, <1>3 DEF Early, AtClose
  <2>2. c \in Connect /\ Fresh(conn[<<c, 2>>]) => Fresh(conn'[<<c, 2>>])
    BY <1>a, Pairs DEF Ages
  <2> QED
    BY <1>b, <2>1, <2>2, <1>1, <1>3 DEF Fits, Unborn, AtClose
<1>11. /\ call'[c].via # None => ~Fresh(conn'[call'[c].via])
       /\ call'[c].on.x # None => ~Fresh(conn'[call'[c].on.x])
  BY <1>a, <1>b, <1>c, <1>1, <1>3, <1>5 DEF Fits, Conns, Shut, Fresh
<1>12. Fits(c)'
  BY <1>b, <1>1, <1>3, <1>8, <1>9, <1>10, <1>11 DEF Fits, AtClose, Ended
<1> QED
  BY <1>3, <1>4, <1>5, <1>6, <1>7, <1>12, Steps

LEMMA FinallyKeeps ==
  ASSUME LoginInv, NEW c \in Connect, NEW how \in {"login", "returns", "throws"},
         Finally(c, how), call[c].pc \in {"models", "settled", "catch", "help", "status"}
  PROVE  LoginInv'
<1> DEFINE on == [x |-> Own(c), k |-> 0]
           q == [NoCall EXCEPT !.pc = "finally", !.on = on, !.ends = how]
<1>0. c \in Call /\ Own(c) \in Transport \cup {None} /\ Own(c) \in {call[c].via, None}
  BY Facts DEF Call, Own
<1>z. on \in [x : Transport \cup {None}, k : Nat] /\ on.x = Own(c)
  BY <1>0
<1> HIDE DEF on
<1>1. q \in CallRec /\ q.pc = "finally" /\ q.via = None /\ q.on.x = Own(c)
  BY <1>z, NoCallTyped DEF CallRec
<1>2. call' = [call EXCEPT ![c] = q] /\ Keep /\ cmd' = cmd
  BY DEF Finally, on
<1> HIDE DEF q
<1>3. call' \in [Call -> CallRec] /\ call'[c] = q /\ \A d \in Call \ {c} : call'[d] = call[d]
  BY <1>0, <1>1, <1>2, Facts
<1>b. Fits(c) /\ Awaits(c)
  BY <1>0, Facts DEF Fits
<1>a. /\ Ages /\ conn' \in [Transport -> ConnRec]
      /\ Own(c) \in Transport => Shut(conn'[Own(c)])
  <2>1. Own(c) \in Transport => ~Fresh(conn[Own(c)])
    BY <1>0, <1>b, Pairs DEF Fits
  <2>2. conn' = [x \in Transport |-> IF x = Own(c) THEN Close(conn[x]) ELSE conn[x]]
    BY DEF Finally
  <2> QED
    BY <2>1, <2>2, ClosedAges
<1>4. TypeOK'
  BY <1>a, <1>2, <1>3, Facts, Typed DEF TypeOK, ConnType, ConnRec, CallRec, CmdType, Keep
<1>5. Conns(c)
  BY <1>0, <1>a, AgesConns
<1>6. Hands(c)
  BY <1>2, <1>5, Facts, Pairs DEF Hands, Keep, LoginInv, Conns
<1>c. /\ call[c].via # None => call[c].via \in Transport
      /\ call[c].on.x # None => call[c].on.x \in Transport
  BY <1>0, Facts
<1>7. Drops(c)
  <2>1. call[c].via # None => call[c].via = login \/ Shut(conn'[call[c].via])
    BY <1>a, <1>c, Facts DEF Own
  <2>2. call[c].on.x # None => call[c].on.x = call[c].via \/ Shut(conn[call[c].on.x])
    BY <1>b DEF Awaits, AtRequest, AtClose, AtCommand
  <2>3. call[c].on.x # None => call[c].on.x = call[c].via \/ Shut(conn'[call[c].on.x])
    BY <2>2, <1>c, <1>5 DEF Conns
  <2> QED
    BY <2>1, <2>3, <1>2 DEF Drops, Keep, Shut, Up
<1>8. Awaits(c)'
  BY <1>0, <1>a, <1>1, <1>3, Pairs DEF Awaits, AtRequest, AtClose, AtCommand
<1>9. Unborn(c)'
  <2>1. Early(c)
    BY DEF Early
  <2>2. Fresh(conn[<<c, 2>>]) => Fresh(conn'[<<c, 2>>])
    BY <1>a, Pairs DEF Ages
  <2> QED
    BY <1>b, <2>1, <2>2, <1>1, <1>3 DEF Fits, Unborn
<1>10. Fits(c)'
  BY <1>0, <1>a, <1>1, <1>3, <1>8, <1>9, Pairs DEF Fits, Succeeded, Shut, Fresh
<1> QED
  BY <1>0, <1>3, <1>4, <1>5, <1>6, <1>7, <1>10, Steps

\* A request over a transport that is the probe's own or the login.
LEMMA AsksKeeps ==
  ASSUME LoginInv, NEW c \in Connect, NEW x \in Transport, NEW pc \in {"account", "models"},
         Asks(c, x, pc), Keep, ~Fresh(conn[x]), Early(c),
         \/ call[c].pc = "version"
         \/ call[c].pc \in {"opening", "account"} /\ call[c].on.x = x
  PROVE  LoginInv'
<1> DEFINE on == [x |-> x, k |-> Len(conn[x].reply) + 1]
           q == [call[c] EXCEPT !.pc = pc, !.via = x, !.on = on]
<1>0. c \in Call /\ conn[x] \in ConnRec /\ Sound(conn[x])
  BY Facts DEF Call
<1>a. /\ Later(conn[x], Request(conn[x])) /\ Len(conn[x].reply) + 1 \in Nat
      /\ Fresh(conn[x]) => Fresh(Request(conn[x]))
  BY <1>0, RequestLater DEF Asks, Fresh
<1>z. on \in [x : Transport \cup {None}, k : Nat] /\ on.x = x
  BY <1>a
<1> HIDE DEF on
<1>1. q \in CallRec /\ q.pc = pc /\ q.via = x /\ q.on.x = x
  BY <1>0, <1>z, Facts DEF CallRec
<1>2. call' = [call EXCEPT ![c] = q] /\ Keep /\ cmd' = cmd
  BY <1>0, Facts DEF Asks, on
<1> HIDE DEF q
<1>3. call' \in [Call -> CallRec] /\ call'[c] = q /\ \A d \in Call \ {c} : call'[d] = call[d]
  BY <1>0, <1>1, <1>2, Facts
<1>b. Ages /\ conn' \in [Transport -> ConnRec]
  <2>1. conn' = [conn EXCEPT ![x] = Request(conn[x])]
    BY DEF Asks
  <2> QED
    BY <2>1, <1>a, OneAges
<1>4. TypeOK'
  BY <1>b, <1>2, <1>3, Facts, Typed DEF TypeOK, ConnType, ConnRec, CallRec, CmdType, Keep
<1>5. Conns(c)
  BY <1>0, <1>b, AgesConns
<1>6. Hands(c)
  BY <1>2, <1>5, Facts, Pairs DEF Hands, Keep, LoginInv, Conns
<1>c. Fits(c) /\ Awaits(c)
  BY <1>0, Facts DEF Fits
<1>7. Drops(c)
  BY <1>c, <1>1, <1>3 DEF Drops, Awaits, AtRequest, AtCommand, Ended
<1>8. Unborn(c)'
  <2>1. Fresh(conn[<<c, 2>>]) => Fresh(conn'[<<c, 2>>])
    BY <1>b, Pairs DEF Ages
  <2> QED
    BY <1>c, <2>1, <1>1, <1>3 DEF Fits, Unborn
<1>9. ~Fresh(conn'[x])
  BY <1>5 DEF Conns
<1>10. Fits(c)'
  BY <1>1, <1>3, <1>8, <1>9, Pairs
  DEF Fits, Awaits, Succeeded, AtRequest, AtClose, AtCommand, Ended
<1> QED
  BY <1>0, <1>3, <1>4, <1>5, <1>6, <1>7, <1>10, Steps

\* A call opens a transport nobody knows.
LEMMA OpensKeeps ==
  ASSUME LoginInv, NEW c \in Connect, NEW x, Opens(c, x),
         \/ call[c].pc = "version" /\ x = <<c, 1>>
         \/ call[c].pc = "old" /\ x = <<c, 2>>
  PROVE  LoginInv'
<1> DEFINE on == [x |-> x, k |-> 1]
           q == [call[c] EXCEPT !.pc = "opening", !.via = x, !.on = on]
           l == Request(Spawned)
<1>0. c \in Call /\ x \in Transport /\ x \in {<<c, 1>>, <<c, 2>>}
  BY Pairs DEF Call
<1>z. on \in [x : Transport \cup {None}, k : Nat] /\ on.x = x
  BY <1>0
<1> HIDE DEF on
<1>1. q \in CallRec /\ q.pc = "opening" /\ q.via = x /\ q.on.x = x
  BY <1>0, <1>z, Facts DEF CallRec
<1>2. call' = [call EXCEPT ![c] = q] /\ Keep /\ cmd' = cmd
  BY <1>0, Facts DEF Opens, on
<1>a. l \in ConnRec /\ Sound(l) /\ Up(l) /\ conn' = [conn EXCEPT ![x] = l]
  BY SpawnedUp DEF Opens
<1> HIDE DEF q, l
<1>3. call' \in [Call -> CallRec] /\ call'[c] = q /\ \A d \in Call \ {c} : call'[d] = call[d]
  BY <1>0, <1>1, <1>2, Facts
<1>b. /\ conn' \in [Transport -> ConnRec] /\ conn'[x] = l
      /\ \A y \in Transport \ {x} : conn'[y] = conn[y]
  BY <1>0, <1>a, Facts
<1>4. TypeOK'
  BY <1>b, <1>2, <1>3, Facts, Typed DEF TypeOK, ConnType, ConnRec, CallRec, CmdType, Keep
<1>c. Fits(c) /\ Awaits(c) /\ Unborn(c)
  BY <1>0, Facts DEF Fits
<1>d. Fresh(conn[x])
  BY <1>c DEF Unborn, Early
<1>e. x # login /\ login' = login
  BY <1>0, <1>2, <1>d, Pairs DEF LoginInv, Keep
<1>5. Conns(c)
  <2>1. ASSUME NEW y \in Transport
        PROVE  /\ conn'[y] \in ConnRec /\ Sound(conn'[y])
               /\ Shut(conn[y]) => Shut(conn'[y])
               /\ Fresh(conn'[y]) => Fresh(conn[y])
               /\ Fresh(conn[y]) /\ ~Fresh(conn'[y]) => y \in {<<c, 1>>, <<c, 2>>}
               /\ Up(conn'[y]) => Up(conn[y]) \/ y = x
    BY <1>0, <1>a, <1>b, <1>d, Facts DEF Shut, Fresh
  <2> QED
    BY <2>1, <1>e, <1>1, <1>3 DEF Conns, Ended
<1>6. Hands(c)
  BY <1>2, <1>e, <1>5, Facts, Pairs DEF Hands, Keep, LoginInv, Conns
<1>7. Drops(c)
  <2>1. call[c].via = None /\ (call[c].on.x # None => Shut(conn[call[c].on.x]))
    BY <1>c DEF Awaits, AtClose, AtCommand
  <2>2. call[c].on.x # None => Shut(conn'[call[c].on.x])
    BY <2>1, <1>0, <1>5, Facts DEF Conns
  <2> QED
    BY <2>1, <2>2 DEF Drops, Shut, Up
<1>8. Unborn(c)'
  <2>1. CASE x = <<c, 1>>
    <3>1. Fresh(conn[<<c, 2>>])
      BY <2>1, <1>c, Pairs DEF Unborn, Early
    <3>2. <<c, 2>> # x /\ <<c, 2>> \in Transport
      BY <2>1, Pairs
    <3> QED
      BY <3>1, <3>2, <1>b, <1>1, <1>3 DEF Unborn, Early
  <2>2. CASE x = <<c, 2>>
    BY <2>2, <1>1, <1>3, Pairs DEF Unborn, Early
  <2> QED
    BY <2>1, <2>2, <1>0
<1>9. ~Fresh(conn'[x])
  BY <1>a, <1>b DEF Up, Fresh
<1>10. Fits(c)'
  BY <1>0, <1>1, <1>3, <1>8, <1>9, Pairs
  DEF Fits, Awaits, Succeeded, AtRequest, AtClose, AtCommand, Ended
<1> QED
  BY <1>0, <1>3, <1>4, <1>5, <1>6, <1>7, <1>10, Steps

LEMMA CatchesKeeps ==
  ASSUME LoginInv, NEW c \in Connect, NEW x, Catches(c, x), Early(c),
         call[c].pc \in {"version", "opening", "unopened", "account"}
  PROVE  LoginInv'
<1>0. c \in Call
  BY DEF Call
<1>1. CASE x = login
  <2>1. ClosesLogin(c, "catch") /\ "catch" \in AtClose \ {"finally"}
    BY <1>1 DEF Catches, AtClose
  <2> QED
    BY <2>1, <1>0, ClosesKeeps DEF Ended
<1>2. CASE x # login
  <2> DEFINE q == [call[c] EXCEPT !.pc = "catch", !.on = Nothing]
  <2>1. q \in CallRec /\ q.pc = "catch" /\ q.via = call[c].via /\ q.on.x = None
    BY <1>0, Facts, NoCallTyped DEF CallRec, Nothing
  <2>2. call' = [call EXCEPT ![c] = q] /\ Keep /\ conn' = conn /\ cmd' = cmd
    BY <1>0, <1>2, Facts DEF Catches, Goes
  <2> HIDE DEF q
  <2>3. call' \in [Call -> CallRec] /\ call'[c] = q /\ \A d \in Call \ {c} : call'[d] = call[d]
    BY <1>0, <2>1, <2>2, Facts
  <2>4. TypeOK'
    BY <2>2, <2>3, Facts, Typed DEF TypeOK, ConnType, ConnRec, CallRec, CmdType, Keep
  <2>5. Conns(c)
    BY <1>0, <2>2, SameAges, AgesConns
  <2>6. Hands(c)
    BY <2>2, Facts, Pairs DEF Hands, Keep, LoginInv
  <2>a. Fits(c) /\ Awaits(c)
    BY <1>0, Facts DEF Fits
  <2>7. Drops(c)
    BY <2>a, <2>1, <2>2, <2>3 DEF Drops, Awaits, AtRequest, AtCommand, Ended
  <2>8. Fits(c)'
    BY <2>a, <2>1, <2>2, <2>3
    DEF Fits, Awaits, Succeeded, Unborn, Early, AtRequest, AtClose, AtCommand, Ended
  <2> QED
    BY <1>0, <2>3, <2>4, <2>5, <2>6, <2>7, <2>8, Steps
<1> QED
  BY <1>1, <1>2

-----------------------------------------------------------------------------
(* The turns of a call.                                                    *)

LEMMA StartsKeeps ==
  ASSUME LoginInv, NEW c \in Call, Starts(c)
  PROVE  LoginInv'
<1>0. /\ call[c].pc = "idle" /\ call[c].via = None /\ call[c].on.x = None
      /\ c \in CloseAll => c \notin Connect
  BY Facts, CallsAssumption DEF Starts, Fits, Awaits, AtCommand
<1>1. CASE c \in CloseAll /\ ClosesLogin(c, "closing")
  BY <1>0, <1>1, ClosesKeeps DEF AtClose, Ended
<1>2. CASE c \in Connect /\ Runs(c, "version")
  BY <1>0, <1>2, RunsKeeps
<1>3. CASE c \in Connect /\ Ends(c, "throws")
  BY <1>0, <1>3, EndsKeeps
<1> QED
  BY <1>1, <1>2, <1>3 DEF Starts

LEMMA TurnStartsKeeps ==
  ASSUME LoginInv, NEW c \in Call, TurnStarts(c)
  PROVE  LoginInv'
<1>0. /\ c \in Caller /\ c \notin Connect /\ call[c].pc = "idle"
      /\ call[c].via = None /\ call[c].on.x = None
  BY Facts, CallsAssumption DEF TurnStarts, Fits, Awaits, AtCommand
<1>1. CASE cmd' = [cmd EXCEPT ![c] = Running] /\ Goes(c, "exec", Nothing) /\ Keep /\ conn' = conn
  <2> DEFINE q == [call[c] EXCEPT !.pc = "exec", !.on = Nothing]
  <2>1. q \in CallRec /\ q.pc = "exec" /\ q.via = None /\ q.on.x = None
    BY <1>0, Facts, NoCallTyped DEF CallRec, Nothing
  <2>2. call' = [call EXCEPT ![c] = q] /\ Keep /\ conn' = conn
    BY <1>1, Facts DEF Goes
  <2> HIDE DEF q
  <2>3. call' \in [Call -> CallRec] /\ call'[c] = q /\ \A d \in Call \ {c} : call'[d] = call[d]
    BY <2>1, <2>2, Facts
  <2>4. CmdType'
    BY <1>1, <1>0, Facts DEF CmdType, Running, NoCommand
  <2>5. TypeOK'
    BY <2>2, <2>3, <2>4, Facts, Typed DEF TypeOK, ConnType, ConnRec, CallRec, Keep
  <2>6. Conns(c)
    BY <2>2, SameAges, AgesConns
  <2>7. Hands(c)
    BY <1>0, <2>2, Facts, Pairs DEF Hands, Keep, LoginInv
  <2>8. Drops(c)
    BY <1>0 DEF Drops
  <2>9. Fits(c)'
    BY <1>0, <2>1, <2>2, <2>3
    DEF Fits, Awaits, Succeeded, AtRequest, AtClose, AtCommand, Ended
  <2> QED
    BY <2>3, <2>5, <2>6, <2>7, <2>8, <2>9, Steps
<1>2. CASE Ends(c, "throws")
  BY <1>0, <1>2, EndsKeeps
<1> QED
  BY <1>1, <1>2 DEF TurnStarts

LEMMA VersionedKeeps ==
  ASSUME LoginInv, NEW c \in Call, Versioned(c)
  PROVE  LoginInv'
<1>0. /\ c \in Connect /\ call[c].pc = "version" /\ Early(c)
      /\ call[c].via = None /\ call[c].on.x = None
  BY Facts DEF Versioned, CommandEnds, Fits, Awaits, AtCommand, Ended, Early
<1>1. CASE Ends(c, "returns")
  BY <1>0, <1>1, EndsKeeps
<1>2. CASE login = None /\ (Opens(c, <<c, 1>>) \/ Catches(c, None))
  BY <1>0, <1>2, OpensKeeps, CatchesKeeps
<1>3. CASE login # None /\ Refuses(conn[login]) /\ Catches(c, login)
  BY <1>0, <1>3, CatchesKeeps
<1>4. CASE login # None /\ Asks(c, login, "account") /\ Keep
  BY <1>0, <1>4, Facts, AsksKeeps DEF LoginInv
<1> QED
  BY <1>1, <1>2, <1>3, <1>4 DEF Versioned

LEMMA UnopensKeeps ==
  ASSUME LoginInv, NEW c \in Call, Unopens(c)
  PROVE  LoginInv'
<1> DEFINE x == call[c].on.x
           on == [x |-> x, k |-> 0]
           q == [call[c] EXCEPT !.pc = "unopened", !.on = on]
<1>0. /\ c \in Connect /\ call[c].pc = "opening" /\ x \in Transport /\ call[c].via = x
      /\ x \in {<<c, 1>>, <<c, 2>>} /\ ~Fresh(conn[x]) /\ Fits(c)
      /\ conn[x] \in ConnRec /\ Sound(conn[x])
  BY Facts, Pairs DEF Unopens, At, Fits, Awaits, AtRequest, Ended
<1>z. on \in [x : Transport \cup {None}, k : Nat] /\ on.x = x
  BY <1>0
<1>y. Goes(c, "unopened", on) /\ Keep /\ cmd' = cmd /\ conn' = [conn EXCEPT ![x] = Close(conn[x])]
  BY DEF Unopens
<1> HIDE DEF on, x
<1>1. q \in CallRec /\ q.pc = "unopened" /\ q.via = x /\ q.on.x = x
  BY <1>0, <1>z, Facts DEF CallRec
<1>2. call' = [call EXCEPT ![c] = q]
  BY <1>y, Facts DEF Goes
<1> HIDE DEF q
<1>3. call' \in [Call -> CallRec] /\ call'[c] = q /\ \A d \in Call \ {c} : call'[d] = call[d]
  BY <1>1, <1>2, Facts
<1>a. /\ Ages /\ conn' \in [Transport -> ConnRec] /\ Shut(conn'[x])
  BY <1>0, <1>y, CloseLater, OneAges
<1>4. TypeOK'
  BY <1>a, <1>y, <1>3, Facts, Typed DEF TypeOK, ConnType, ConnRec, CallRec, CmdType, Keep
<1>5. Conns(c)
  BY <1>a, AgesConns
<1>6. Hands(c)
  BY <1>0, <1>y, <1>5, Facts, Pairs DEF Hands, Keep, LoginInv, Conns
<1>7. Drops(c)
  BY <1>0, <1>1, <1>3 DEF Drops, Ended, x
<1>8. Unborn(c)'
  <2>1. Early(c)' => Early(c)
    BY <1>0, <1>1, <1>3 DEF Early
  <2>2. Fresh(conn[<<c, 2>>]) => Fresh(conn'[<<c, 2>>])
    BY <1>0, <1>a, Pairs DEF Ages
  <2> QED
    BY <1>0, <2>1, <2>2, <1>1, <1>3 DEF Fits, Unborn
<1>9. Fits(c)'
  BY <1>0, <1>a, <1>1, <1>3, <1>8, Pairs
  DEF Fits, Awaits, Succeeded, AtRequest, AtClose, AtCommand, Ended, Shut, Fresh
<1> QED
  BY <1>3, <1>4, <1>5, <1>6, <1>7, <1>9, Steps

\* What a call knows where it is resumed.
LEMMA Resumed ==
  ASSUME LoginInv, NEW c \in Call
  PROVE  /\ Fits(c) /\ Awaits(c) /\ Succeeded(c)
         /\ call[c].pc \notin {"idle", "exec", "closing"} \cup Ended => c \in Connect
         /\ call[c].pc \in AtRequest \cup {"unopened"} =>
              call[c].via \in Transport /\ call[c].on.x = call[c].via
         /\ call[c].pc \in AtClose =>
              \A x \in Transport : x = call[c].on.x => ~Up(conn[x])
         /\ \A x \in {call[c].via, call[c].on.x} : x # None => x \in Transport /\ ~Fresh(conn[x])
BY Facts, Pairs DEF Fits, Awaits, Shut, Up

LEMMA ProbeKeeps ==
  ASSUME LoginInv, NEW c \in Call,
         \/ NotOpened(c) \/ Opened(c) \/ AccountRead(c) \/ ModelsListed(c)
         \/ Settled(c) \/ Helps(c) \/ Helped(c) \/ StatusRead(c)
  PROVE  LoginInv'
<1> DEFINE x == call[c].on.x
<1>1. CASE NotOpened(c)
  <2>1. call[c].pc = "unopened" /\ c \in Connect /\ call[c].via = x /\ ~Up(conn[x])
    BY <1>1, Resumed DEF NotOpened, At, Awaits, Ended, Shut, Up
  <2>2. CASE x[2] = 1 /\ Catches(c, None)
    BY <2>1, <2>2, CatchesKeeps DEF Early
  <2>3. CASE Ends(c, "throws")
    BY <2>1, <2>3, EndsKeeps
  <2> QED
    BY <1>1, <2>2, <2>3 DEF NotOpened
<1>2. CASE Opened(c)
  <2>0. call[c].pc = "opening" /\ c \in Connect
    BY <1>2, Resumed DEF Opened, At, Ended
  <2>a. call[c].via = x /\ x \in Transport /\ ~Fresh(conn[x])
    BY <2>0, Resumed, Pairs DEF AtRequest
  <2>b. Early(c)
    BY <1>2, <2>0, <2>a DEF Opened, Early
  <2>1. /\ call[c].pc = "opening" /\ c \in Connect /\ call[c].via = x
        /\ x \in Transport /\ ~Fresh(conn[x]) /\ Early(c)
    BY <2>0, <2>a, <2>b
  <2>2. CASE Catches(c, x)
    BY <2>1, <2>2, CatchesKeeps
  <2>3. CASE Asks(c, x, "account") /\ Keep
    BY <2>1, <2>3, AsksKeeps
  <2> QED
    BY <1>2, <2>2, <2>3 DEF Opened
<1>3. CASE AccountRead(c)
  <2>0. call[c].pc = "account" /\ c \in Connect
    BY <1>3, Resumed DEF AccountRead, At, Ended
  <2>a. call[c].via = x /\ x \in Transport /\ ~Fresh(conn[x])
    BY <2>0, Resumed, Pairs DEF AtRequest
  <2>b. Early(c)
    BY <1>3, <2>0, <2>a DEF AccountRead, Early
  <2>1. /\ call[c].pc = "account" /\ c \in Connect /\ call[c].via = x
        /\ x \in Transport /\ ~Fresh(conn[x]) /\ Early(c)
    BY <2>0, <2>a, <2>b
  <2>2. CASE Catches(c, x)
    BY <2>1, <2>2, CatchesKeeps
  <2>3. CASE Asks(c, x, "models") /\ Keep
    BY <2>1, <2>3, AsksKeeps
  <2> QED
    BY <1>3, <2>2, <2>3 DEF AccountRead
<1>4. CASE ModelsListed(c)
  <2>1. call[c].pc = "models" /\ c \in Connect /\ Early(c)
    BY <1>4, Resumed DEF ModelsListed, At, Ended, Early
  <2>2. CASE ClosesLogin(c, "settled")
    BY <2>1, <2>2, ClosesKeeps DEF AtClose, Ended
  <2>3. CASE Finally(c, "login")
    BY <2>1, <2>3, FinallyKeeps
  <2> QED
    BY <1>4, <2>2, <2>3 DEF ModelsListed
<1>5. CASE Settled(c)
  BY <1>5, Resumed, FinallyKeeps DEF Settled, At, Ended
<1>6. CASE Helps(c)
  <2>1. call[c].pc = "catch" /\ c \in Connect
    BY <1>6, Resumed DEF Helps, At, Ended
  <2> QED
    BY <1>6, <2>1, FinallyKeeps, RunsKeeps DEF Helps
<1>7. CASE Helped(c)
  <2>1. call[c].pc = "help" /\ c \in Connect
    BY <1>7, Resumed DEF Helped, CommandEnds, Ended
  <2> QED
    BY <1>7, <2>1, FinallyKeeps, RunsKeeps DEF Helped
<1>8. CASE StatusRead(c)
  BY <1>8, Resumed, FinallyKeeps DEF StatusRead, CommandEnds, Ended
<1> QED
  BY <1>1, <1>2, <1>3, <1>4, <1>5, <1>6, <1>7, <1>8

LEMMA ConnectKeeps ==
  ASSUME LoginInv, NEW c \in Call,
         Probed(c) \/ OpensLogin(c) \/ Refused(c) \/ AllClosed(c) \/ TurnEnds(c)
  PROVE  LoginInv'
<1>1. CASE Probed(c)
  <2>1. call[c].pc = "finally" /\ c \in Connect /\ call[c].via = None /\ Early(c)
    BY <1>1, Resumed DEF Probed, At, Awaits, Ended, Early
  <2>2. CASE ClosesLogin(c, "old")
    BY <2>1, <2>2, ClosesKeeps DEF AtClose, Ended
  <2>3. CASE \E how \in {"throws", "returns"} : Ends(c, how)
    BY <2>1, <2>3, Resumed, EndsKeeps DEF AtClose
  <2> QED
    BY <1>1, <2>2, <2>3 DEF Probed
<1>2. CASE OpensLogin(c)
  <2>1. call[c].pc = "old" /\ c \in Connect /\ call[c].via = None
    BY <1>2, Resumed DEF OpensLogin, At, Awaits, Ended
  <2>2. CASE Opens(c, <<c, 2>>)
    BY <2>1, <2>2, OpensKeeps
  <2>3. CASE Ends(c, "throws")
    BY <2>1, <2>3, Resumed, EndsKeeps DEF AtClose
  <2> QED
    BY <1>2, <2>2, <2>3 DEF OpensLogin
<1>3. CASE Refused(c)
  <2>1. call[c].pc = "refused" /\ Ends(c, "throws")
    BY <1>3 DEF Refused, At
  <2>2. call[c].via \in stray \/ ~Up(conn[call[c].via])
    BY <2>1, Resumed DEF Succeeded, Shut, Up
  <2> QED
    BY <2>1, <2>2, Resumed, EndsKeeps DEF AtClose
<1>4. CASE AllClosed(c)
  <2>1. call[c].pc = "closing" /\ call[c].via = None /\ Ends(c, "returns")
    BY <1>4, Resumed DEF AllClosed, At, Awaits
  <2> QED
    BY <2>1, Resumed, EndsKeeps DEF AtClose
<1>5. CASE TurnEnds(c)
  <2>1. /\ call[c].pc = "exec" /\ call[c].via = None /\ call[c].on.x = None
        /\ Ends(c, TurnStatus(cmd[c]))
    BY <1>5, Resumed DEF TurnEnds, At, Awaits, AtCommand
  <2>2. TurnStatus(cmd[c]) \in {"cancelled", "completed", "failed"}
    BY DEF TurnStatus
  <2> QED
    BY <2>1, <2>2, EndsKeeps
<1> QED
  BY <1>1, <1>2, <1>3, <1>4, <1>5

\* A login transport takes the place of another.
LEMMA LoginOpenedKeeps ==
  ASSUME LoginInv, NEW c \in Call, LoginOpened(c)
  PROVE  LoginInv'
<1> DEFINE x == call[c].on.x
<1>0. /\ call[c].pc = "opening" /\ c \in Connect /\ call[c].via = x
      /\ x \in Transport /\ ~Fresh(conn[x]) /\ x = <<c, 2>>
      /\ conn[x] \in ConnRec /\ Sound(conn[x])
  BY Resumed, Facts, Pairs DEF LoginOpened, At, AtRequest, Awaits, Ended
<1>1. /\ login' = x /\ timer' = timer /\ armed' = armed
      /\ stray' = IF login = None THEN stray ELSE stray \cup {login}
  BY DEF LoginOpened
<1>2. stray' \subseteq Transport /\ stray \subseteq stray' /\ (login # None => login \in stray')
  BY <1>1, Facts
<1>3. CASE Asks(c, x, "start")
  <2> DEFINE on == [x |-> x, k |-> Len(conn[x].reply) + 1]
             q == [call[c] EXCEPT !.pc = "start", !.via = x, !.on = on]
  <2>a. /\ Later(conn[x], Request(conn[x])) /\ Len(conn[x].reply) + 1 \in Nat
        /\ Fresh(conn[x]) => Fresh(Request(conn[x]))
    BY <1>0, <1>3, RequestLater DEF Asks, Fresh
  <2>z. on \in [x : Transport \cup {None}, k : Nat] /\ on.x = x
    BY <1>0, <2>a
  <2>y. /\ call' = [call EXCEPT ![c].pc = "start", ![c].via = x, ![c].on = on] /\ cmd' = cmd
        /\ conn' = [conn EXCEPT ![x] = Request(conn[x])]
    BY <1>3 DEF Asks
  <2> HIDE DEF on, x
  <2>1. q \in CallRec /\ q.pc = "start" /\ q.via = x /\ q.on.x = x
    BY <1>0, <2>z, Facts DEF CallRec
  <2>2. call' = [call EXCEPT ![c] = q]
    BY <2>y, Facts
  <2> HIDE DEF q
  <2>3. call' \in [Call -> CallRec] /\ call'[c] = q /\ \A d \in Call \ {c} : call'[d] = call[d]
    BY <2>1, <2>2, Facts
  <2>b. Ages /\ conn' \in [Transport -> ConnRec]
    BY <2>y, <2>a, <1>0, OneAges
  <2>4. TypeOK'
    BY <1>0, <1>1, <1>2, <2>b, <2>y, <2>3, Facts, Typed
    DEF TypeOK, ConnType, ConnRec, CallRec, CmdType
  <2>5. Conns(c)
    BY <2>b, AgesConns
  <2>6. Hands(c)
    BY <1>0, <1>1, <1>2, <2>5, <2>1, <2>3 DEF Hands, Conns
  <2>7. Drops(c)
    BY <1>0, <1>1, <2>1, <2>3 DEF Drops, Ended, x
  <2>8. ~Fresh(conn'[x])
    BY <1>0, <2>5 DEF Conns
  <2>9. Fits(c)'
    BY <1>0, <1>1, <2>1, <2>3, <2>8, Pairs
    DEF Fits, Awaits, Succeeded, Unborn, Early, AtRequest, AtClose, AtCommand, Ended
  <2> QED
    BY <2>3, <2>4, <2>5, <2>6, <2>7, <2>9, Steps
<1>4. CASE /\ Refuses(conn[x])
           /\ call' = [call EXCEPT ![c] = [NoCall EXCEPT !.pc = "failed", !.ends = "throws"]]
           /\ conn' = conn /\ cmd' = cmd
  <2> DEFINE q == [NoCall EXCEPT !.pc = "failed", !.ends = "throws"]
  <2>1. q \in CallRec /\ q.pc = "failed" /\ q.via = None /\ q.on.x = None
    BY NoCallTyped DEF CallRec, Ended
  <2>2. call' = [call EXCEPT ![c] = q]
    BY <1>4
  <2>z. ~Up(conn[x])
    BY <1>0, <1>4 DEF Refuses, Sound, Shut, Up
  <2> HIDE DEF q, x
  <2>3. call' \in [Call -> CallRec] /\ call'[c] = q /\ \A d \in Call \ {c} : call'[d] = call[d]
    BY <2>1, <2>2, Facts
  <2>4. TypeOK'
    BY <1>0, <1>1, <1>2, <1>4, <2>3, Facts, Typed
    DEF TypeOK, ConnType, ConnRec, CallRec, CmdType
  <2>5. Conns(c)
    BY <1>4, SameAges, AgesConns
  <2>6. Hands(c)
    BY <1>0, <1>1, <1>2, <1>4, <2>z DEF Hands
  <2>7. Drops(c)
    BY <1>0, <1>1 DEF Drops, x
  <2>8. Fits(c)'
    BY <2>1, <2>3
    DEF Fits, Awaits, Succeeded, Unborn, Early, AtRequest, AtClose, AtCommand, Ended
  <2> QED
    BY <2>3, <2>4, <2>5, <2>6, <2>7, <2>8, Steps
<1> QED
  BY <1>3, <1>4 DEF LoginOpened

LEMMA LoginStartedKeeps ==
  ASSUME LoginInv, NEW c \in Call, LoginStarted(c)
  PROVE  LoginInv'
<1>0. /\ call[c].pc = "start" /\ c \in Connect /\ c \in Call
      /\ call[c].via \in Transport /\ call[c].on.x = call[c].via
      /\ call[c].via = login \/ call[c].via \in stray \/ ~Up(conn[call[c].via])
  BY Resumed DEF LoginStarted, At, AtRequest, Succeeded, Ended, Shut, Up
<1>1. CASE /\ timer' = c /\ armed' = armed \cup {c}
           /\ call' = [call EXCEPT ![c] = [NoCall EXCEPT !.pc = "done", !.ends = "returns"]]
           /\ conn' = conn /\ cmd' = cmd /\ login' = login /\ stray' = stray
  <2> DEFINE q == [NoCall EXCEPT !.pc = "done", !.ends = "returns"]
  <2>1. q \in CallRec /\ q.pc = "done" /\ q.via = None /\ q.on.x = None
    BY NoCallTyped DEF CallRec, Ended
  <2>2. call' = [call EXCEPT ![c] = q]
    BY <1>1
  <2> HIDE DEF q
  <2>3. call' \in [Call -> CallRec] /\ call'[c] = q /\ \A d \in Call \ {c} : call'[d] = call[d]
    BY <2>1, <2>2, Facts
  <2>4. TypeOK'
    BY <1>0, <1>1, <2>3, Facts, Typed DEF TypeOK, ConnType, ConnRec, CallRec, CmdType
  <2>5. Conns(c)
    BY <1>1, SameAges, AgesConns
  <2>6. Hands(c)
    BY <1>1 DEF Hands, LoginInv
  <2>7. Drops(c)
    BY <1>0, <1>1 DEF Drops
  <2>8. Fits(c)'
    BY <2>1, <2>3
    DEF Fits, Awaits, Succeeded, Unborn, Early, AtRequest, AtClose, AtCommand, Ended
  <2> QED
    BY <2>3, <2>4, <2>5, <2>6, <2>7, <2>8, Steps
<1>2. CASE ClosesLogin(c, "refused")
  BY <1>0, <1>2, ClosesKeeps DEF AtClose, Ended
<1> QED
  BY <1>1, <1>2 DEF LoginStarted

-----------------------------------------------------------------------------
(* Events.                                                                 *)

\* What happens to the transports without a call.
LEMMA EventKeeps ==
  ASSUME LoginInv, Ages, conn' \in [Transport -> ConnRec], CmdType', call' = call,
         stray' = stray, armed' \subseteq Connect, timer' \in Connect \cup {None},
         \/ login' = login /\ timer' = timer /\ armed' = armed
         \/ login' = None /\ (login # None => Shut(conn'[login]))
  PROVE  LoginInv'
<1>1. TypeOK'
  BY Facts, Typed DEF TypeOK, ConnType, ConnRec, CallRec, CmdType
<1>2. ASSUME NEW x \in Transport
      PROVE  /\ conn'[x] \in ConnRec /\ Sound(conn'[x])
             /\ Shut(conn[x]) => Shut(conn'[x])
             /\ Fresh(conn'[x]) <=> Fresh(conn[x])
             /\ Up(conn'[x]) => Up(conn[x])
  BY DEF Ages, Later
<1>3. ASSUME NEW d \in Call
      PROVE  Fits(d)'
  <2>1. Fits(d) /\ Awaits(d) /\ Succeeded(d)
    BY Resumed
  <2>2. Awaits(d)'
    BY <2>1, <1>2, Facts DEF Awaits
  <2>3. call[d].pc \in {"start", "refused"} => call[d].via \in Transport
    <3>1. call[d].pc \in {"start", "refused"} => call[d].via = <<d, 2>>
      BY <2>1 DEF Awaits
    <3>2. call[d].pc \in {"start", "refused"} => d \in Connect
      BY Resumed DEF Ended
    <3>3. d \in Connect => <<d, 2>> \in Transport
      BY Pairs
    <3> QED
      BY <3>1, <3>2, <3>3
  <2>4. Succeeded(d)'
    BY <2>1, <2>3, <1>2, Pairs DEF Succeeded
  <2>5. d \in Connect => Unborn(d)'
    <3>1. Early(d)' <=> Early(d)
      BY DEF Early
    <3> QED
      BY <2>1, <3>1, <1>2, Pairs DEF Fits, Unborn
  <2> QED
    BY <2>1, <2>2, <2>4, <2>5, <1>2, Facts DEF Fits
<1>4. NoStrayServer'
  <2>1. \A x \in Transport : Up(conn'[x]) =>
          \/ x = login' \/ x \in stray'
          \/ \E d \in Call : call'[d].pc \notin Ended /\ x \in {call'[d].via, call'[d].on.x}
    BY <1>2, Pairs DEF LoginInv, NoStrayServer, Lives, Up, Shut
  <2>2. login' # None /\ Up(conn'[login']) =>
          \/ timer' \in armed'
          \/ \E d \in Call : call'[d].pc = "start" /\ call'[d].on.x = login'
    BY <1>2, Facts DEF LoginInv, NoStrayServer, Lives, Up
  <2> QED
    BY <2>1, <2>2 DEF NoStrayServer, Lives, Up
<1>5. login' # None => ~Fresh(conn'[login'])
  BY <1>2, Facts DEF LoginInv
<1> QED
  BY <1>1, <1>2, <1>3, <1>4, <1>5 DEF LoginInv

LEMMA LoginExpiresKeeps ==
  ASSUME LoginInv, LoginExpires
  PROVE  LoginInv'
<1>1. login \in Transport => ~Fresh(conn[login])
  BY Pairs DEF LoginInv
<1>2. /\ conn' = [x \in Transport |-> IF x = login THEN Close(conn[x]) ELSE conn[x]]
      /\ login' = None /\ timer' = None /\ armed' \subseteq armed
      /\ cmd' = cmd /\ call' = call /\ stray' = stray
  BY DEF LoginExpires
<1>3. Ages /\ conn' \in [Transport -> ConnRec] /\ (login \in Transport => Shut(conn'[login]))
  BY <1>1, <1>2, ClosedAges
<1>4. CmdType'
  BY <1>2, Facts DEF CmdType
<1> QED
  BY <1>2, <1>3, <1>4, Facts, EventKeeps

\* An event of one transport.
LEMMA ConnKeeps ==
  ASSUME LoginInv, NEW x \in Transport, NEW l,
         conn' = [conn EXCEPT ![x] = l], Later(conn[x], l), Fresh(conn[x]) => Fresh(l),
         Others, cmd' = cmd
  PROVE  LoginInv'
<1>1. Ages /\ conn' \in [Transport -> ConnRec]
  BY OneAges
<1>2. CmdType'
  BY Facts DEF CmdType
<1> QED
  BY <1>1, <1>2, Facts, EventKeeps DEF Others

\* What is read settles the request it answers, or nothing.
LEMMA ReadsKeeps ==
  ASSUME LoginInv, NEW x \in Transport, ReadsFrame(x)
  PROVE  LoginInv'
<1> DEFINE k == conn[x]
           f == Head(k.out)
           rest == [k EXCEPT !.out = Tail(@)]
           n == CHOOSE n \in Waiting(k, f.id) : TRUE
           l == IF f.id = 0 THEN Close(rest)
                ELSE IF Waiting(k, f.id) = {} THEN rest
                ELSE Settle(rest, n, IF f.ok THEN "answered" ELSE "error", f.id)
<1>1. k \in ConnRec /\ Sound(k) /\ k.out # <<>>
  BY Facts DEF ReadsFrame, Reads
<1>2. conn' = [conn EXCEPT ![x] = l] /\ Others /\ cmd' = cmd
  BY DEF ReadsFrame, Reads
<1>3. f \in [id : Nat, ok : BOOLEAN] /\ Tail(k.out) \in Seq([id : Nat, ok : BOOLEAN])
  <2>1. k.out \in Seq([id : Nat, ok : BOOLEAN])
    BY <1>1 DEF ConnRec
  <2> QED
    BY <1>1, <2>1, HeadTailProperties
<1> HIDE DEF k, f
<1>4. /\ rest \in ConnRec /\ rest.reply = k.reply /\ rest.pending = k.pending
      /\ rest.failed = k.failed /\ rest.child = k.child /\ rest.close = k.close
  BY <1>1, <1>3 DEF ConnRec
<1>5. ~Fresh(k)
  BY <1>1 DEF Sound
<1> HIDE DEF rest
<1>6. Sound(rest) /\ ~Fresh(rest) /\ (Shut(k) <=> Shut(rest)) /\ (Up(k) <=> Up(rest))
  BY <1>1, <1>4, <1>5 DEF Sound, Shut, Fresh, Up
<1>7. Waiting(k, f.id) # {} => n \in rest.pending /\ n = f.id
  BY <1>4 DEF Waiting
<1> HIDE DEF n
<1>8. Later(rest, l)
  <2>1. CASE f.id = 0
    BY <2>1, <1>4, <1>6, CloseLater
  <2>2. CASE f.id # 0 /\ Waiting(k, f.id) = {}
    BY <2>2, <1>4, <1>6, SameLater
  <2>3. CASE f.id # 0 /\ Waiting(k, f.id) # {}
    <3> DEFINE st == IF f.ok THEN "answered" ELSE "error"
    <3>1. st \in {"answered", "error", "timeout"}
      OBVIOUS
    <3>2. l = Settle(rest, n, st, f.id)
      BY <2>3
    <3>3. f.id \in Nat
      BY <1>3
    <3> HIDE DEF st, l
    <3> QED
      BY <2>3, <3>1, <3>2, <3>3, <1>4, <1>6, <1>7, SettleLater
  <2> QED
    BY <2>1, <2>2, <2>3
<1> HIDE DEF l
<1>9. Later(k, l)
  BY <1>5, <1>6, <1>8 DEF Later
<1> QED
  BY <1>2, <1>5, <1>9, ConnKeeps DEF k

LEMMA GoneSound == Gone \in ConnRec /\ Sound(Gone) /\ Shut(Gone) /\ ~Fresh(Gone) /\ ~Up(Gone)
<1>1. {} \in SUBSET Nat /\ <<>> \in Seq(Reply) /\ <<>> \in Seq([id : Nat, ok : BOOLEAN])
  OBVIOUS
<1>2. Unopened \in ConnRec /\ Unopened.reply = <<>> /\ Unopened.pending = {} /\ Unopened.out = <<>>
  BY <1>1 DEF Unopened, ConnRec
<1>3. /\ Gone \in ConnRec /\ Gone.close = "done" /\ Gone.reply = <<>>
      /\ Gone.pending = {} /\ Gone.out = <<>>
  BY <1>2 DEF Gone, ConnRec
<1> QED
  BY <1>3 DEF Sound, Shut, Fresh, Up

LEMMA ConnEventKeeps ==
  ASSUME LoginInv, NEW x \in Transport, ConnEvent(x)
  PROVE  LoginInv'
<1> DEFINE k == conn[x]
<1>0. k \in ConnRec /\ Sound(k) /\ Others /\ cmd' = cmd
  BY Facts DEF ConnEvent
<1>1. CASE Notices(x)
  <2> DEFINE g == Fail(k)
             l == [g EXCEPT !.noticed = TRUE]
  <2>1. conn' = [conn EXCEPT ![x] = l] /\ k.child = "exited" /\ k.close = "no"
    BY <1>1 DEF Notices
  <2>2. /\ g \in ConnRec /\ g.failed /\ g.pending = {}
        /\ g.child = k.child /\ g.close = k.close /\ g.out = k.out
        /\ \A i \in DOMAIN g.reply :
             /\ g.reply[i].st \in {"answered", "error"} => g.reply[i].of = i
             /\ g.reply[i].st # "waiting"
    BY <1>0, FailSettles
  <2> HIDE DEF g, k
  <2>3. /\ l \in ConnRec /\ l.reply = g.reply /\ l.pending = {}
        /\ l.child = k.child /\ l.close = k.close
    BY <2>2 DEF ConnRec
  <2> HIDE DEF l
  <2>4. Later(k, l) /\ ~Fresh(k)
    BY <2>1, <2>2, <2>3 DEF Later, Sound, Shut, Fresh, Up
  <2> QED
    BY <1>0, <2>1, <2>4, ConnKeeps DEF k
<1>2. CASE Expires(x)
  <2>1. PICK id \in k.pending : conn' = [conn EXCEPT ![x] = Settle(k, id, "timeout", 0)]
    BY <1>2 DEF Expires
  <2>2. Later(k, Settle(k, id, "timeout", 0))
    BY <1>0, SettleLater
  <2>3. Fresh(k) => Fresh(Settle(k, id, "timeout", 0))
    BY <1>0 DEF Fresh, Settle, ConnRec
  <2> QED
    BY <1>0, <2>1, <2>2, <2>3, ConnKeeps
<1>3. CASE Kills(x)
  <2> DEFINE l == [k EXCEPT !.close = "kill"]
  <2>1. conn' = [conn EXCEPT ![x] = l] /\ k.close = "term"
    BY <1>3, Facts DEF Kills
  <2> HIDE DEF k
  <2>2. /\ l \in ConnRec /\ l.reply = k.reply /\ l.pending = k.pending /\ l.out = k.out
        /\ l.failed = k.failed /\ l.child = k.child /\ l.close = "kill"
    BY <1>0 DEF ConnRec
  <2> HIDE DEF l
  <2>3. Later(k, l) /\ ~Fresh(k)
    BY <1>0, <2>1, <2>2 DEF Later, Sound, Shut, Fresh, Up
  <2> QED
    BY <1>0, <2>1, <2>3, ConnKeeps DEF k
<1>4. CASE Terminated(x)
  <2>1. conn' = [conn EXCEPT ![x] = Gone] /\ k.close \in {"term", "kill"}
    BY <1>4 DEF Terminated
  <2>2. Later(k, Gone) /\ ~Fresh(k)
    BY <2>1, GoneSound DEF Later, Shut, Fresh
  <2> QED
    BY <1>0, <2>1, <2>2, ConnKeeps
<1> QED
  BY <1>1, <1>2, <1>3, <1>4 DEF ConnEvent

LEMMA AppServerKeeps ==
  ASSUME LoginInv, NEW x \in Transport, AppServer(x)
  PROVE  LoginInv'
<1> DEFINE k == conn[x]
<1>0. k \in ConnRec /\ Sound(k) /\ Others /\ cmd' = cmd
  BY Facts DEF AppServer
<1>1. ASSUME NEW l \in ConnRec, conn' = [conn EXCEPT ![x] = l], k.child = "up",
             l.reply = k.reply, l.pending = k.pending, l.failed = k.failed, l.close = k.close,
             l.child \in {"up", "exited"}
      PROVE  LoginInv'
  <2> HIDE DEF k
  <2>1. Later(k, l) /\ ~Fresh(k)
    BY <1>0, <1>1 DEF Later, Sound, Shut, Fresh, Up
  <2> QED
    BY <1>0, <1>1, <2>1, ConnKeeps DEF k
<1>2. CASE Answers(x)
  <2>1. PICK id \in k.wire, ok \in BOOLEAN :
          conn' = [conn EXCEPT ![x].wire = @ \ {id},
                               ![x].out = Append(@, [id |-> id, ok |-> ok])]
    BY <1>2 DEF Answers
  <2> DEFINE w == k.wire \ {id}
             o == Append(k.out, [id |-> id, ok |-> ok])
             l == [k EXCEPT !.wire = w, !.out = o]
  <2>2. w \in SUBSET Nat /\ o \in Seq([id : Nat, ok : BOOLEAN])
    BY <1>0 DEF ConnRec
  <2>3. conn' = [conn EXCEPT ![x] = l] /\ k.child = "up"
    BY <1>2, <2>1, Facts DEF Answers
  <2> HIDE DEF k, w, o
  <2>4. /\ l \in ConnRec /\ l.reply = k.reply /\ l.pending = k.pending
        /\ l.failed = k.failed /\ l.close = k.close /\ l.child = k.child
    BY <1>0, <2>2 DEF ConnRec
  <2> HIDE DEF l
  <2> QED
    BY <2>3, <2>4, <1>1
<1>3. CASE Breaks(x)
  <2> DEFINE o == Append(k.out, [id |-> 0, ok |-> FALSE])
             l == [k EXCEPT !.broken = TRUE, !.out = o]
  <2>2. o \in Seq([id : Nat, ok : BOOLEAN])
    BY <1>0 DEF ConnRec
  <2>3. conn' = [conn EXCEPT ![x] = l] /\ k.child = "up"
    BY <1>3, Facts DEF Breaks
  <2> HIDE DEF k, o
  <2>4. /\ l \in ConnRec /\ l.reply = k.reply /\ l.pending = k.pending
        /\ l.failed = k.failed /\ l.close = k.close /\ l.child = k.child
    BY <1>0, <2>2 DEF ConnRec
  <2> HIDE DEF l
  <2> QED
    BY <2>3, <2>4, <1>1
<1>4. CASE Exits(x)
  <2> DEFINE l == [k EXCEPT !.child = "exited", !.wire = {}]
  <2>3. conn' = [conn EXCEPT ![x] = l] /\ k.child = "up"
    BY <1>4, Facts DEF Exits
  <2>2. {} \in SUBSET Nat
    OBVIOUS
  <2> HIDE DEF k
  <2>4. /\ l \in ConnRec /\ l.reply = k.reply /\ l.pending = k.pending
        /\ l.failed = k.failed /\ l.close = k.close /\ l.child = "exited"
    BY <1>0, <2>2 DEF ConnRec
  <2> HIDE DEF l
  <2> QED
    BY <2>3, <2>4, <1>1
<1> QED
  BY <1>2, <1>3, <1>4 DEF AppServer

LEMMA CommandKeeps ==
  ASSUME LoginInv, NEW a \in Caller, TurnEvent(a) \/ TurnIsCut(a) \/ Child(a)
  PROVE  LoginInv'
<1> DEFINE CmdRec == [child : {"none", "up", "ok", "bad"}, kin : BOOLEAN,
                      reading : SUBSET Stream, cut : {"no", "timeout", "abort"},
                      sent : {"no", "term", "kill"}]
<1>1. cmd \in [Caller -> CmdRec] /\ cmd[a] \in CmdRec
  BY Facts DEF CmdType
<1>2. ASSUME NEW k \in CmdRec PROVE Terminate(k) \in CmdRec
  BY DEF Terminate
<1>3. ASSUME NEW s \in Stream PROVE [cmd[a] EXCEPT !.reading = @ \ {s}] \in CmdRec
  BY <1>1
<1>4. ASSUME NEW t \in {"timeout", "abort"} PROVE [cmd[a] EXCEPT !.cut = t] \in CmdRec
  BY <1>1
<1> DEFINE Becomes(k) == cmd' = [cmd EXCEPT ![a] = k]
<1>5. \E k \in CmdRec : Becomes(k)
  <2>1. CASE \E s \in Stream : StreamEnds(a, s)
    <3>1. PICK s \in Stream : Becomes([cmd[a] EXCEPT !.reading = @ \ {s}])
      BY <1>1, <2>1 DEF StreamEnds
    <3> QED
      BY <3>1, <1>3
  <2>2. CASE TimesOut(a)
    <3>1. Becomes(Terminate([cmd[a] EXCEPT !.cut = "timeout"]))
      BY <2>2 DEF TimesOut
    <3>2. [cmd[a] EXCEPT !.cut = "timeout"] \in CmdRec
      BY <1>4
    <3> HIDE DEF CmdRec, Becomes
    <3> QED
      BY <3>1, <3>2, <1>2
  <2>3. CASE KillsGroup(a)
    <3>1. Becomes([cmd[a] EXCEPT !.sent = "kill"])
      BY <1>1, <2>3 DEF KillsGroup
    <3> QED
      BY <3>1, <1>1
  <2>4. CASE Killed(a)
    <3> DEFINE ch == IF cmd[a].child = "up" THEN "bad" ELSE cmd[a].child
    <3>1. Becomes([cmd[a] EXCEPT !.child = ch, !.kin = FALSE])
      BY <1>1, <2>4 DEF Killed
    <3>2. ch \in {"none", "ok", "bad"}
      BY <1>1
    <3> HIDE DEF ch
    <3>3. [cmd[a] EXCEPT !.child = ch, !.kin = FALSE] \in CmdRec
      BY <3>2, <1>1
    <3> QED
      BY <3>1, <3>3
  <2>5. CASE \E s \in Stream : Overflows(a, s)
    <3>0. PICK s \in Stream : Overflows(a, s)
      BY <2>5
    <3> DEFINE k == [cmd[a] EXCEPT !.reading = @ \ {s}]
    <3>a. cmd' = [cmd EXCEPT ![a] = Terminate(k)]
      BY <3>0 DEF Overflows
    <3>1. Becomes(Terminate(k))
      BY <3>a
    <3>2. k \in CmdRec
      BY <1>3
    <3> HIDE DEF CmdRec, Becomes, k
    <3> QED
      BY <3>1, <3>2, <1>2
  <2>6. CASE Aborted(a)
    <3> DEFINE k == [cmd[a] EXCEPT !.cut = "abort"]
    <3>1. Becomes(Terminate(k)) \/ Becomes(k)
      BY <2>6 DEF Aborted
    <3>2. k \in CmdRec
      BY <1>4
    <3> HIDE DEF CmdRec, Becomes, k
    <3> QED
      BY <3>1, <3>2, <1>2
  <2>7. CASE \E code \in {"ok", "bad"} : Leaves(a, code)
    <3>1. PICK code \in {"ok", "bad"} : Becomes([cmd[a] EXCEPT !.child = code])
      BY <1>1, <2>7 DEF Leaves
    <3> QED
      BY <3>1, <1>1
  <2>8. CASE Forks(a) \/ KinEnds(a)
    <3>1. PICK b \in BOOLEAN : Becomes([cmd[a] EXCEPT !.kin = b])
      BY <1>1, <2>8 DEF Forks, KinEnds
    <3> QED
      BY <3>1, <1>1
  <2> QED
    BY <2>1, <2>2, <2>3, <2>4, <2>5, <2>6, <2>7, <2>8 DEF TurnEvent, TurnIsCut, Child
<1>6. CmdType'
  <2> HIDE DEF CmdRec
  <2>1. cmd' \in [Caller -> CmdRec]
    BY <1>1, <1>5
  <2> QED
    BY <2>1 DEF CmdType, CmdRec
<1>7. conn' = conn /\ Others
  BY DEF TurnEvent, TurnIsCut, Child
<1> HIDE DEF CmdRec
<1> QED
  BY <1>6, <1>7, SameAges, Facts, EventKeeps DEF Others

-----------------------------------------------------------------------------
(* The theorems.                                                           *)

LEMMA InitInv == Init => LoginInv
<1> SUFFICES ASSUME Init PROVE LoginInv
  OBVIOUS
<1>1. {} \in SUBSET Nat /\ <<>> \in Seq(Reply) /\ <<>> \in Seq([id : Nat, ok : BOOLEAN])
  OBVIOUS
<1>2. /\ Unopened \in ConnRec /\ Fresh(Unopened) /\ ~Up(Unopened)
      /\ Unopened.reply = <<>> /\ Unopened.pending = {} /\ Unopened.out = <<>>
      /\ Unopened.failed = FALSE
  BY <1>1 DEF Unopened, ConnRec, Fresh, Up
<1>3. Sound(Unopened)
  BY <1>2 DEF Sound, Fresh, Shut
<1> HIDE DEF Unopened
<1>4. /\ conn \in [Transport -> ConnRec]
      /\ \A x \in Transport : conn[x] = Unopened
  BY <1>2 DEF Init
<1>5. CmdType
  BY DEF Init, CmdType, NoCommand
<1>6. call \in [Call -> CallRec] /\ \A c \in Call : call[c] = NoCall
  BY NoCallTyped DEF Init
<1>7. TypeOK
  BY <1>4, <1>5, <1>6, Typed DEF Init
<1>8. ASSUME NEW c \in Call PROVE Fits(c)
  <2>1. c \in Connect => Unborn(c)
    BY <1>2, <1>4, Pairs DEF Unborn
  <2> QED
    BY <1>6, <2>1, NoCallTyped
    DEF Fits, Awaits, Succeeded, AtRequest, AtClose, AtCommand, Ended
<1>9. NoStrayServer
  BY <1>2, <1>4 DEF Init, NoStrayServer, Lives, Up
<1> QED
  BY <1>3, <1>4, <1>7, <1>8, <1>9 DEF Init, LoginInv

LEMMA NextInv == LoginInv /\ [Next]_vars => LoginInv'
<1> SUFFICES ASSUME LoginInv, [Next]_vars PROVE LoginInv'
  OBVIOUS
<1>1. ASSUME NEW c \in Call, Starts(c) \/ TurnStarts(c) \/ Resumes(c) PROVE LoginInv'
  BY <1>1, StartsKeeps, TurnStartsKeeps, VersionedKeeps, UnopensKeeps, ProbeKeeps,
     ConnectKeeps, LoginOpenedKeeps, LoginStartedKeeps DEF Resumes
<1>2. CASE LoginExpires
  BY <1>2, LoginExpiresKeeps
<1>3. ASSUME NEW x \in Transport, ReadsFrame(x) \/ ConnEvent(x) \/ AppServer(x) PROVE LoginInv'
  BY <1>3, ReadsKeeps, ConnEventKeeps, AppServerKeeps
<1>4. ASSUME NEW a \in Caller, TurnEvent(a) \/ TurnIsCut(a) \/ Child(a) PROVE LoginInv'
  BY <1>4, CommandKeeps
<1>5. CASE UNCHANGED vars
  <2>1. CmdType'
    BY <1>5, Facts DEF CmdType, vars
  <2> QED
    BY <1>5, <2>1, SameAges, Facts, EventKeeps DEF vars
<1> QED
  BY <1>1, <1>2, <1>3, <1>4, <1>5 DEF Next

\* Whatever the order of calls, answers, exits and timers: what a call awaits and uses,
\* which transports nobody has opened yet, and which login is whose to close.
THEOREM LoginInvariant == Spec => []LoginInv
BY InitInv, NextInv, PTL DEF Spec

\* Every variable keeps its type.
THEOREM LoginTypes == Spec => []TypeOK
<1>1. LoginInv => TypeOK
  BY DEF LoginInv
<1> QED
  BY <1>1, LoginInvariant, PTL

\* A request is settled by its own answer only, and none waits on a transport that has
\* failed or is closed.
THEOREM RequestsSettle == Spec => []Settlements
<1>1. LoginInv => Settlements
  BY DEF LoginInv, Sound, Shut, Settlements
<1> QED
  BY <1>1, LoginInvariant, PTL

\* No app-server is left that neither a call, nor the login's timer, nor a login that
\* took its place accounts for.
THEOREM ServersAccountedFor == Spec => []NoStrayServer
<1>1. LoginInv => NoStrayServer
  BY DEF LoginInv
<1> QED
  BY <1>1, LoginInvariant, PTL
=============================================================================
