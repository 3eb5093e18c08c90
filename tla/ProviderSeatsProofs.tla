------------------------ MODULE ProviderSeatsProofs ------------------------
(***************************************************************************)
(* Theorems about the seats of a session, for any number of calls, agents, *)
(* tools, configurations, messages and foreign processes, and any length   *)
(* of the attachment file.                                                 *)
(***************************************************************************)
EXTENDS ProviderSeats, SequenceTheorems, TLAPS

-----------------------------------------------------------------------------
(* The inductive invariant.                                                *)

\* Call c has arrived, for seat k.
Asks(c, k) == pc[c] # "new" /\ arg[c].key = k
Asked == \A c \in Attacher : pc[c] # "new" => arg[c] \in ArgsOf(c)

\* dispose() has been called: no further call arrives.
Off == \E e \in Shutdown : pc[e] # "new"

\* dispose() has cleared an entry of `attaching` whose opener goes on: no call is left to
\* open the seat again before the opener has settled.
Late(k) ==
  /\ attaching[k] = None /\ Off
  /\ \A d \in Attacher : Asks(d, k) => pc[d] \notin {"attach", "waitClose"}

\* A seat has one opener, which is in `attaching` and has emptied the seat's entry.
Openers ==
  /\ \A k \in Key : attaching[k] # None =>
       pc[attaching[k]] \in Opening /\ Asks(attaching[k], k)
  /\ \A c \in Attacher : \A k \in Key : pc[c] \in Opening /\ Asks(c, k) =>
       /\ seats[k] = None /\ (attaching[k] = c \/ Late(k))
       /\ \A d \in Attacher : pc[d] \in Opening /\ Asks(d, k) => d = c

\* Whoever waits, waits for the opener, or the closer, of its own seat.
Waiters ==
  /\ \A c \in Attacher : pc[c] = "waitAttach" =>
       /\ on[c] \in Attacher /\ pc[on[c]] \in Opening
       /\ \A k \in Key : Asks(c, k) => Asks(on[c], k)
  /\ \A c \in Attacher : pc[c] = "waitClose" =>
       c \in Run /\ on[c] \in Closer /\ \A k \in Agent : Asks(c, k) => closing[k] = on[c]

\* While the provider has a seat marked as closing, nobody has or opens it.
Closings ==
  \A a \in Agent : closing[a] # None =>
    /\ pc[closing[a]] = "closing" /\ seats[a] = None
    /\ \A c \in Attacher : Asks(c, a) => pc[c] \notin Opening

\* Whoever awaits a close awaits one that goes on.
Drains ==
  /\ \A c \in Attacher : pc[c] = "closingOld" => on[c] \in Attacher /\ rt[on[c]].st = "closing"
  /\ \A d \in Closer : pc[d] = "closing" => on[d] \in Attacher /\ rt[on[d]].st = "closing"

\* A call has a runtime from Opens() on; its id and its thread are of its own seat.
Before == {"new", "attach", "waitAttach", "waitClose"}
Runtimes ==
  \A r \in Attacher :
    /\ pc[r] \in Before \cup Opening => rt[r].st = "none"
    /\ rt[r].st # "none" =>
         rt[r].id \in Attacher /\ \A k \in Key : Asks(r, k) => Asks(rt[r].id, k)
    /\ Live(r) => rt[r].thread # None
    /\ rt[r].st # "none" /\ rt[r].thread # None =>
         rt[r].thread \in Attacher /\ \A k \in Key : Asks(r, k) => Asks(rt[r].thread, k)

\* A record in the file has its own id, and one of this process has an id and a thread
\* of the seat that it is of.
Good(x) ==
  x.key \in Key => /\ x.id \in Attacher /\ Asks(x.id, x.key)
                   /\ x.thread # None => x.thread \in Attacher /\ Asks(x.thread, x.key)
GoodFile(s) ==
  /\ \A i \in 1..Len(s) : Good(s[i])
  /\ \A i, j \in 1..Len(s) : s[i].id = s[j].id => i = j
Records ==
  /\ GoodFile(file)
  /\ \A o \in Other : snap[o] # None => GoodFile(snap[o])
  /\ \A c \in Attacher : adopt[c] # None => Good(adopt[c]) /\ Asks(c, adopt[c].key)

\* A seat in the maps is of the runtime registered for its id, which is open, or being
\* closed by a codex_close that names the seat.
Taken(k) == \E d \in Closer : pc[d] = "closing" /\ on[d] = seats[k] /\ named[d] = k
Held ==
  \A k \in Key : seats[k] # None =>
    /\ Asks(seats[k], k) /\ rt[seats[k]].st # "none" /\ sessions[rt[seats[k]].id] = seats[k]
    /\ Live(seats[k]) \/ Over
    /\ rt[seats[k]].st = "closing" => Over \/ Taken(k)

\* The runtime a call is given, or has, is of the configuration it asked for.
Suited(c, r) == c \in Review \/ rt[r].config = arg[c].config
Given ==
  \A c \in Attacher :
    /\ pc[c] = "attached" =>
         /\ seatOf[c] \in Attacher /\ rt[seatOf[c]].st # "none"
         /\ sessions[rt[seatOf[c]].id] = seatOf[c] /\ Suited(c, seatOf[c])
    /\ pc[c] \in {"queued", "running"} =>
         on[c] \in Attacher /\ rt[on[c]].st # "none" /\ Suited(c, on[c])

\* No call is left that may open the seat.
Retired(k) ==
  Off /\ \A c \in Attacher : Asks(c, k) => pc[c] \notin (Before \cup Opening)

\* A seat has one runtime that serves it, but for strays: the one in the maps, or one
\* that dispose() has dropped and closeAll() will close.
Serving(q) == q \notin stray /\ rt[q].st = "open"
Sole ==
  /\ \A r, q \in Attacher : \A k \in Key :
       Serving(r) /\ Serving(q) /\ Asks(r, k) /\ Asks(q, k) => r = q
  /\ \A q \in Attacher : \A k \in Key :
       Serving(q) /\ Asks(q, k) => seats[k] = q \/ Retired(k)

Lined == Asked /\ Openers /\ Waiters /\ Closings
Bound == Drains /\ Runtimes /\ Held /\ Given /\ Sole
SeatsInv == TypeOK /\ Lined /\ Bound /\ Records

-----------------------------------------------------------------------------
(* Kinds, and what a call asks for.                                        *)

LEMMA Kinds ==
  /\ Run \subseteq Attacher /\ Delegate \subseteq Attacher /\ Review \subseteq Attacher
  /\ Attacher \subseteq Call /\ Closer \subseteq Call /\ Event \subseteq Call
  /\ Shutdown \subseteq Call /\ Event \cup Shutdown \subseteq Call
  /\ Call = Attacher \cup Closer \cup Event \cup Shutdown
  /\ Attacher \cap Closer = {} /\ Attacher \cap Event = {} /\ Attacher \cap Shutdown = {}
  /\ Closer \cap (Event \cup Shutdown) = {} /\ Event \cap Shutdown = {}
  /\ Run \cap (Delegate \cup Review) = {}
  /\ Agent \subseteq Key /\ Tool \subseteq Key /\ Agent \cap Tool = {} /\ Key = Agent \cup Tool
  /\ None \notin Call /\ None \notin Attacher /\ None \notin Closer /\ None \notin Key
  /\ Other \cap Attacher = {} /\ Other \cap Key = {}
  /\ MaxRecords \in Nat \ {0}
BY SeatsAssumption DEF Attacher, Ender, Call, Key

LEMMA Asking ==
  ASSUME Asked, NEW c \in Attacher, pc[c] # "new"
  PROVE  /\ arg[c] \in ArgsOf(c) /\ arg[c] \in Arg
         /\ arg[c].key \in Key /\ arg[c].config \in Config /\ arg[c].msg \in Message \cup {None}
         /\ c \in Run <=> arg[c].key \in Agent
         /\ arg[c].msg # None => c \in Run
         /\ Asks(c, arg[c].key) /\ \A k : Asks(c, k) => k = arg[c].key
<1>1. arg[c] \in ArgsOf(c)
  BY DEF Asked
<1>2. CASE c \in Run
  BY <1>1, <1>2, Kinds DEF ArgsOf, Arg, Asks
<1>3. CASE c \notin Run
  BY <1>1, <1>3, Kinds DEF ArgsOf, Arg, Asks
<1> QED BY <1>2, <1>3

-----------------------------------------------------------------------------
(* The attachment file.                                                    *)

Distinct(s) == \A i, j \in 1..Len(s) : s[i].id = s[j].id => i = j

\* The filter of put() drops the record of the id, and no other.
LEMMA WithoutIs ==
  ASSUME NEW s \in Seq(Record), Distinct(s), NEW id
  PROVE  /\ Without(s, id) \in Seq(Record) /\ Distinct(Without(s, id))
         /\ \A n \in 1..Len(Without(s, id)) :
              /\ Without(s, id)[n].id # id
              /\ \E m \in 1..Len(s) : Without(s, id)[n] = s[m]
<1>0. Len(s) \in Nat /\ \A i \in 1..Len(s) : s[i] \in Record
  BY LenProperties, ElementOfSeq
<1>1. CASE ~\E i \in 1..Len(s) : s[i].id = id
  <2>1. Without(s, id) = s
    BY <1>1 DEF Without
  <2> QED BY <1>0, <1>1, <2>1
<1>2. CASE \E i \in 1..Len(s) : s[i].id = id
  <2> DEFINE i == CHOOSE i \in 1..Len(s) : s[i].id = id
             a == SubSeq(s, 1, i - 1)
             b == SubSeq(s, i + 1, Len(s))
  <2>1. i \in 1..Len(s) /\ s[i].id = id
    BY <1>2
  <2>2. Without(s, id) = a \o b
    BY <1>2 DEF Without
  <2> HIDE DEF i
  <2>3. i \in Int /\ 1 <= i /\ i <= Len(s)
    BY <1>0, <2>1
  <2>4. a \in Seq(Record) /\ Len(a) = i - 1 /\ \A n \in 1..(i - 1) : a[n] = s[n]
    <3>1. \A n \in 1..(i - 1) : s[n] \in Record
      BY <1>0, <2>3
    <3>2. /\ a \in Seq(Record) /\ Len(a) = IF 1 <= i - 1 THEN (i - 1) - 1 + 1 ELSE 0
          /\ \A n \in 1..((i - 1) - 1 + 1) : a[n] = s[1 + n - 1]
      BY <2>3, <3>1, SubSeqProperties
    <3> QED BY <2>3, <3>2
  <2>5. b \in Seq(Record) /\ Len(b) = Len(s) - i /\ \A n \in 1..(Len(s) - i) : b[n] = s[i + n]
    <3>1. \A n \in (i + 1)..Len(s) : s[n] \in Record
      BY <1>0, <2>3
    <3>2. /\ b \in Seq(Record) /\ Len(b) = IF i + 1 <= Len(s) THEN Len(s) - (i + 1) + 1 ELSE 0
          /\ \A n \in 1..(Len(s) - (i + 1) + 1) : b[n] = s[(i + 1) + n - 1]
      BY <1>0, <2>3, <3>1, SubSeqProperties
    <3> QED BY <1>0, <2>3, <3>2
  <2> HIDE DEF a, b
  <2>6. /\ a \o b \in Seq(Record) /\ Len(a \o b) = Len(a) + Len(b)
        /\ \A n \in 1..(Len(a) + Len(b)) :
             (a \o b)[n] = IF n <= Len(a) THEN a[n] ELSE b[n - Len(a)]
    BY <2>4, <2>5, ConcatProperties
  <2> DEFINE w == a \o b
  <2>7. w \in Seq(Record) /\ Len(w) = Len(s) - 1
    BY <1>0, <2>3, <2>4, <2>5, <2>6
  <2>8. \A n \in 1..(Len(s) - 1) : w[n] = IF n < i THEN s[n] ELSE s[n + 1]
    <3> TAKE n \in 1..(Len(s) - 1)
    <3>0. n \in 1..(Len(a) + Len(b))
      BY <1>0, <2>3, <2>4, <2>5
    <3>1. CASE n < i
      BY <1>0, <2>3, <2>4, <2>6, <3>0, <3>1
    <3>2. CASE ~(n < i)
      <4>1. n - Len(a) \in 1..(Len(s) - i) /\ i + (n - Len(a)) = n + 1
        BY <1>0, <2>3, <2>4, <3>2
      <4> QED BY <1>0, <2>3, <2>4, <2>5, <2>6, <3>0, <3>2, <4>1
    <3> QED BY <3>1, <3>2
  <2> HIDE DEF w
  <2>9. \A n \in 1..Len(w) : w[n].id # id /\ \E m \in 1..Len(s) : w[n] = s[m]
    BY <1>0, <2>1, <2>3, <2>7, <2>8 DEF Distinct
  <2>10. Distinct(w)
    <3> DEFINE at(n) == IF n < i THEN n ELSE n + 1
    <3>1. \A n \in 1..Len(w) : at(n) \in 1..Len(s) /\ w[n] = s[at(n)]
      BY <1>0, <2>3, <2>7, <2>8
    <3>2. \A m, n \in 1..Len(w) : at(m) = at(n) => m = n
      BY <1>0, <2>3, <2>7
    <3> HIDE DEF at
    <3> QED BY <3>1, <3>2 DEF Distinct
  <2>11. Without(s, id) = w
    BY <2>2 DEF w
  <2> QED BY <2>7, <2>9, <2>10, <2>11
<1> QED BY <1>1, <1>2

\* put() keeps the file within its bound, and drops records only.
LEMMA PutIs ==
  ASSUME NEW s \in Seq(Record), Distinct(s), NEW r \in Record
  PROVE  /\ Put(s, r) \in Seq(Record) /\ Len(Put(s, r)) <= MaxRecords /\ Distinct(Put(s, r))
         /\ \A n \in 1..Len(Put(s, r)) :
              Put(s, r)[n] = r \/ \E m \in 1..Len(s) : Put(s, r)[n] = s[m]
<1> DEFINE w == Without(s, r.id)
           a == Append(w, r)
<1>1. /\ w \in Seq(Record) /\ Distinct(w)
      /\ \A n \in 1..Len(w) : w[n].id # r.id /\ \E m \in 1..Len(s) : w[n] = s[m]
  BY WithoutIs
<1> HIDE DEF w
<1>2. /\ a \in Seq(Record) /\ Len(a) = Len(w) + 1 /\ a[Len(w) + 1] = r
      /\ \A n \in 1..Len(w) : a[n] = w[n]
  BY <1>1, AppendProperties
<1>3. Len(w) \in Nat
  BY <1>1, LenProperties
<1> HIDE DEF a
<1>4. \A n \in 1..Len(a) : a[n] = r \/ \E m \in 1..Len(s) : a[n] = s[m]
  BY <1>1, <1>2, <1>3
<1>5. Distinct(a)
  <2>1. \A n \in 1..Len(a) : n = Len(w) + 1 \/ n \in 1..Len(w)
    BY <1>2, <1>3
  <2>2. \A n \in 1..Len(w) : a[n] = w[n] /\ a[n].id # r.id
    BY <1>1, <1>2
  <2>3. \A m, n \in 1..Len(w) : w[m].id = w[n].id => m = n
    BY <1>1 DEF Distinct
  <2> SUFFICES ASSUME NEW m \in 1..Len(a), NEW n \in 1..Len(a), a[m].id = a[n].id
               PROVE  m = n
    BY DEF Distinct
  <2> QED BY <1>2, <2>1, <2>2, <2>3
<1>6. Put(s, r) = Newest(a)
  BY DEF Put, w, a
<1>7. CASE Len(a) <= MaxRecords
  <2>1. Newest(a) = a
    BY <1>2, <1>3, <1>7, Kinds DEF Newest
  <2> QED BY <1>2, <1>4, <1>5, <1>6, <1>7, <2>1
<1>8. CASE Len(a) > MaxRecords
  <2> DEFINE lo == Len(a) - MaxRecords + 1
             b == SubSeq(a, lo, Len(a))
  <2>1. Newest(a) = b
    BY <1>8 DEF Newest
  <2>2. lo \in Int /\ 1 <= lo /\ lo <= Len(a) /\ Len(a) \in Int /\ Len(a) - lo + 1 = MaxRecords
    BY <1>2, <1>3, <1>8, Kinds
  <2> HIDE DEF lo
  <2>3. \A n \in lo..Len(a) : a[n] \in Record
    BY <1>2, <2>2, ElementOfSeq
  <2>4. b \in Seq(Record) /\ Len(b) = MaxRecords /\ \A n \in 1..MaxRecords : b[n] = a[lo + n - 1]
    BY <2>2, <2>3, SubSeqProperties
  <2> HIDE DEF b
  <2>5. \A n \in 1..Len(b) : lo + n - 1 \in 1..Len(a) /\ b[n] = a[lo + n - 1]
    BY <2>2, <2>4, Kinds
  <2>6. Distinct(b)
    <3>1. \A m, n \in 1..Len(b) : lo + m - 1 = lo + n - 1 => m = n
      BY <2>2
    <3>2. \A m, n \in 1..Len(a) : a[m].id = a[n].id => m = n
      BY <1>5 DEF Distinct
    <3> SUFFICES ASSUME NEW m \in 1..Len(b), NEW n \in 1..Len(b), b[m].id = b[n].id
                 PROVE  m = n
      BY DEF Distinct
    <3> QED BY <2>5, <3>1, <3>2
  <2>7. \A n \in 1..Len(b) : b[n] = r \/ \E m \in 1..Len(s) : b[n] = s[m]
    BY <1>4, <2>5
  <2> QED BY <1>6, <2>1, <2>4, <2>6, <2>7, Kinds
<1> QED BY <1>2, <1>3, <1>7, <1>8, Kinds

-----------------------------------------------------------------------------
(* Steps in which one call passes on.                                      *)

LEMMA AsksStay ==
  ASSUME arg' = arg, \A c \in Attacher : pc'[c] = "new" <=> pc[c] = "new"
  PROVE  \A c \in Attacher : \A k : Asks(c, k)' <=> Asks(c, k)
BY DEF Asks

\* Records stay good as long as calls keep to what they have asked for.
LEMMA GoodStays ==
  ASSUME \A c \in Attacher : \A k \in Key : Asks(c, k) => Asks(c, k)'
  PROVE  \A x : Good(x) => Good(x)'
BY DEF Good

\* Where a call that passes on from p0 to p may be, and what it then needs.
Needs(c, p0, p, o, s) ==
  /\ p0 \in {"attach", "reading", "attached", "queued", "running"}
  /\ p \in {"waitAttach", "waitClose", "opening", "attached", "queued", "running", "done",
            "failed"}
  /\ p = "opening" <=> p0 = "reading"
  /\ p \in {"waitAttach", "waitClose"} => p0 = "attach"
  /\ p = "waitAttach" =>
       o \in Attacher /\ pc[o] \in Opening /\ \A k \in Key : Asks(c, k) => Asks(o, k)
  /\ p = "waitClose" =>
       c \in Run /\ o \in Closer /\ \A k \in Agent : Asks(c, k) => closing[k] = o
  /\ p = "attached" =>
       s \in Attacher /\ rt[s].st # "none" /\ sessions[rt[s].id] = s /\ Suited(c, s)
  /\ p \in {"queued", "running"} => o \in Attacher /\ rt[o].st # "none" /\ Suited(c, o)

LEMMA Passes ==
  ASSUME SeatsInv, NEW c \in Call, NEW p \in PC, p # "new", pc' = [pc EXCEPT ![c] = p],
         UNCHANGED <<arg, named, seats, attaching, closing, rt, sessions, file, snap, stray>>,
         \A x \in Attacher : adopt'[x] # None => Good(adopt'[x]) /\ Asks(x, adopt'[x].key),
         \A x \in Attacher \cup Closer : x # c => on'[x] = on[x],
         \A x \in Attacher : x # c => seatOf'[x] = seatOf[x],
         c \in Attacher => Needs(c, pc[c], p, on'[c], seatOf'[c]),
         c \in Closer => pc[c] = "new" /\ p = "failed",
         c \in Event \cup Shutdown /\ pc[c] \in {"closeAll", "done"} => p \in {"closeAll", "done"}
  PROVE  Lined' /\ Bound' /\ Records'
<1>0. /\ Asked /\ Openers /\ Waiters /\ Closings /\ Drains /\ Runtimes /\ Held /\ Given /\ Sole
      /\ Records /\ pc \in [Call -> PC]
  BY DEF SeatsInv, Lined, Bound, TypeOK
<1>1. \A x \in Call : pc'[x] = IF x = c THEN p ELSE pc[x]
  BY <1>0
<1>2. /\ \A x \in Attacher : x = c =>
           /\ pc[x] \in {"attach", "reading", "attached", "queued", "running"}
           /\ p \in {"waitAttach", "waitClose", "opening", "attached", "queued", "running",
                     "done", "failed"}
           /\ p = "opening" <=> pc[x] = "reading"
           /\ p \in {"waitAttach", "waitClose"} => pc[x] = "attach"
      /\ \A x \in Closer : x = c => pc[x] = "new" /\ pc'[x] = "failed"
      /\ Attacher \subseteq Call /\ Closer \subseteq Call /\ Shutdown \subseteq Call
  BY <1>1, Kinds DEF Needs
<1>3. \A x \in Attacher : \A k : Asks(x, k)' <=> Asks(x, k)
  <2>1. \A x \in Attacher : pc'[x] = "new" <=> pc[x] = "new"
    BY <1>1, <1>2
  <2> QED BY <2>1, AsksStay
<1>4. /\ \A x \in Attacher : pc'[x] \in Opening <=> pc[x] \in Opening
      /\ \A x \in Closer : pc[x] = "closing" <=> pc'[x] = "closing"
  BY <1>1, <1>2 DEF Opening
<1>5. Off => Off'
  BY <1>1, <1>2 DEF Off
<1>6. Over => Over'
  BY <1>1, <1>2 DEF Over
<1>7. ASSUME NEW k \in Key, Late(k)  PROVE Late(k)'
  BY <1>1, <1>2, <1>3, <1>5, <1>7 DEF Late
<1>8. ASSUME NEW k \in Key, Retired(k)  PROVE Retired(k)'
  BY <1>1, <1>2, <1>3, <1>5, <1>8 DEF Retired, Before, Opening
<1>9. Asked'
  BY <1>0, <1>1, <1>2 DEF Asked, ArgsOf
<1>10. Openers'
  <2>1. ASSUME NEW k \in Key, attaching'[k] # None
        PROVE  pc'[attaching'[k]] \in Opening /\ Asks(attaching[k], k)'
    BY <1>0, <1>3, <1>4, <2>1 DEF Openers, SeatsInv, TypeOK
  <2>2. ASSUME NEW x \in Attacher, NEW k \in Key, pc'[x] \in Opening, Asks(x, k)'
        PROVE  /\ seats'[k] = None /\ (attaching'[k] = x \/ Late(k)')
               /\ \A d \in Attacher : pc'[d] \in Opening /\ Asks(d, k)' => d = x
    BY <1>0, <1>3, <1>4, <1>7, <2>2 DEF Openers
  <2> QED BY <2>1, <2>2 DEF Openers
<1>11. Waiters'
  <2>1. ASSUME NEW x \in Attacher, x # c
        PROVE  /\ pc'[x] = pc[x] /\ on'[x] = on[x]
    BY <1>1, <2>1, <1>2
  <2>2. ASSUME NEW x \in Attacher, pc'[x] = "waitAttach"
        PROVE  /\ on'[x] \in Attacher /\ pc'[on'[x]] \in Opening
               /\ \A k \in Key : Asks(x, k)' => Asks(on[x], k)'
    <3>1. /\ on'[x] \in Attacher /\ pc[on'[x]] \in Opening
          /\ \A k \in Key : Asks(x, k) => Asks(on'[x], k)
      BY <1>0, <1>1, <2>1, <2>2 DEF Waiters, Needs
    <3> QED BY <3>1, <1>3, <1>4
  <2>3. ASSUME NEW x \in Attacher, pc'[x] = "waitClose"
        PROVE  x \in Run /\ on'[x] \in Closer /\ \A k \in Agent : Asks(x, k)' => closing'[k] = on'[x]
    BY <1>0, <1>1, <1>3, <2>1, <2>3 DEF Waiters, Needs
  <2> QED BY <2>2, <2>3 DEF Waiters
<1>12. Closings'
  <2> SUFFICES ASSUME NEW a \in Agent, closing'[a] # None
               PROVE  /\ pc'[closing[a]] = "closing" /\ seats[a] = None
                      /\ \A x \in Attacher : Asks(x, a)' => pc'[x] \notin Opening
    BY DEF Closings
  <2>1. closing[a] \in Closer
    BY DEF SeatsInv, TypeOK
  <2> QED BY <1>0, <1>3, <1>4, <2>1 DEF Closings
<1>13. Drains'
  <2>1. ASSUME NEW x \in Attacher, pc'[x] = "closingOld"
        PROVE  on'[x] \in Attacher /\ rt'[on'[x]].st = "closing"
    <3>1. x # c /\ pc[x] = "closingOld"
      BY <1>1, <1>2, <2>1
    <3> QED BY <1>0, <3>1 DEF Drains
  <2>2. ASSUME NEW x \in Closer, pc'[x] = "closing"
        PROVE  on'[x] \in Attacher /\ rt'[on'[x]].st = "closing"
    <3>1. x # c /\ pc[x] = "closing"
      BY <1>1, <1>2, <2>2
    <3> QED BY <1>0, <3>1 DEF Drains
  <2> QED BY <2>1, <2>2 DEF Drains
<1>14. Runtimes'
  <2> SUFFICES ASSUME NEW r \in Attacher
               PROVE  /\ pc'[r] \in Before \cup Opening => rt[r].st = "none"
                      /\ rt[r].st # "none" =>
                           rt[r].id \in Attacher /\ \A k \in Key : Asks(r, k)' => Asks(rt[r].id, k)'
                      /\ Live(r)' => rt[r].thread # None
                      /\ rt[r].st # "none" /\ rt[r].thread # None =>
                           /\ rt[r].thread \in Attacher
                           /\ \A k \in Key : Asks(r, k)' => Asks(rt[r].thread, k)'
    BY DEF Runtimes
  <2>1. pc'[r] \in Before \cup Opening => pc[r] \in Before \cup Opening
    BY <1>1, <1>2 DEF Before, Opening
  <2> QED BY <1>0, <1>3, <2>1 DEF Runtimes, Live
<1>15. Held'
  <2> SUFFICES ASSUME NEW k \in Key, seats'[k] # None
               PROVE  /\ Asks(seats[k], k)' /\ rt[seats[k]].st # "none"
                      /\ sessions[rt[seats[k]].id] = seats[k]
                      /\ Live(seats[k])' \/ Over'
                      /\ rt[seats[k]].st = "closing" => Over' \/ Taken(k)'
    BY DEF Held
  <2>1. seats[k] \in Attacher
    BY DEF SeatsInv, TypeOK
  <2>2. Taken(k) => Taken(k)'
    BY <1>2, <1>4 DEF Taken
  <2> QED BY <1>0, <1>3, <1>6, <2>1, <2>2 DEF Held, Live
<1>16. Given'
  <2> SUFFICES ASSUME NEW x \in Attacher
               PROVE  /\ pc'[x] = "attached" =>
                           /\ seatOf'[x] \in Attacher /\ rt[seatOf'[x]].st # "none"
                           /\ sessions[rt[seatOf'[x]].id] = seatOf'[x] /\ Suited(x, seatOf[x])'
                      /\ pc'[x] \in {"queued", "running"} =>
                           /\ on'[x] \in Attacher /\ rt[on'[x]].st # "none"
                           /\ Suited(x, on[x])'
    BY DEF Given
  <2>1. CASE x = c
    BY <1>1, <1>2, <2>1 DEF Needs, Suited
  <2>2. CASE x # c
    <3>1. pc'[x] = pc[x] /\ on'[x] = on[x] /\ seatOf'[x] = seatOf[x]
      BY <1>1, <1>2, <2>2
    <3> QED BY <1>0, <3>1 DEF Given, Suited
  <2> QED BY <2>1, <2>2
<1>17. Sole'
  BY <1>0, <1>3, <1>8 DEF Sole, Serving
<1>18. Records'
  <2>1. \A x : Good(x) => Good(x)'
    BY <1>3, GoodStays
  <2>2. GoodFile(file)'
    BY <1>0, <2>1 DEF Records, GoodFile
  <2>3. \A o \in Other : snap'[o] # None => GoodFile(snap[o])'
    BY <1>0, <2>1 DEF Records, GoodFile
  <2>4. \A x \in Attacher : adopt'[x] # None =>
           Good(adopt[x])' /\ pc'[x] # "new" /\ arg'[x].key = adopt'[x].key
    <3> TAKE x \in Attacher
    <3> HAVE adopt'[x] # None
    <3>1. Good(adopt'[x]) /\ Asks(x, adopt'[x].key)
      OBVIOUS
    <3>2. pc[x] # "new" /\ arg[x].key = adopt'[x].key /\ pc'[x] # "new"
      BY <1>1, <1>2, <3>1 DEF Asks
    <3>3. Good(adopt[x])'
      <4> SUFFICES ASSUME adopt'[x].key \in Key
                   PROVE  /\ adopt'[x].id \in Attacher
                          /\ pc'[adopt'[x].id] # "new" /\ arg'[adopt'[x].id].key = adopt'[x].key
                          /\ adopt'[x].thread # None =>
                               /\ adopt'[x].thread \in Attacher
                               /\ pc'[adopt'[x].thread] # "new"
                               /\ arg'[adopt'[x].thread].key = adopt'[x].key
        BY DEF Good, Asks
      <4>1. \A y \in Attacher : pc[y] # "new" => pc'[y] # "new"
        BY <1>1, <1>2
      <4> QED BY <3>1, <4>1 DEF Good, Asks
    <3> QED BY <3>2, <3>3
  <2> QED BY <2>2, <2>3, <2>4 DEF Records, Asks
<1> QED BY <1>9, <1>10, <1>11, <1>12, <1>13, <1>14, <1>15, <1>16, <1>17, <1>18 DEF Lined, Bound

-----------------------------------------------------------------------------
(* Closing.                                                                *)

\* The runtimes R are being closed, those that are open.
Closed(R) ==
  \A r \in Attacher :
    /\ rt'[r].id = rt[r].id /\ rt'[r].thread = rt[r].thread /\ rt'[r].config = rt[r].config
    /\ rt'[r].st = IF r \in R /\ rt[r].st = "open" THEN "closing" ELSE rt[r].st

LEMMA ShutIs ==
  ASSUME TypeOK, NEW R, NEW cleanup \in BOOLEAN, rt' = Shut(R, cleanup)
  PROVE  Closed(R) /\ rt' \in [Attacher -> Runtime]
<1>1. rt \in [Attacher -> Runtime]
  BY DEF TypeOK
<1>2. ASSUME NEW r \in Attacher
      PROVE  /\ rt'[r] \in Runtime
             /\ rt'[r].id = rt[r].id /\ rt'[r].thread = rt[r].thread /\ rt'[r].config = rt[r].config
             /\ rt'[r].st = IF r \in R /\ rt[r].st = "open" THEN "closing" ELSE rt[r].st
  <2>1. rt[r] \in Runtime
    BY <1>1
  <2>2. CASE r \in R /\ rt[r].st = "open"
    <3>1. rt'[r] = [rt[r] EXCEPT !.st = "closing", !.cleanup = cleanup]
      BY <2>2 DEF Shut
    <3> QED BY <2>1, <2>2, <3>1 DEF Runtime
  <2>3. CASE ~(r \in R /\ rt[r].st = "open")
    <3>1. rt'[r] = rt[r]
      BY <2>3 DEF Shut
    <3> QED BY <2>1, <2>3, <3>1
  <2> QED BY <2>2, <2>3
<1>3. rt' = [r \in Attacher |-> rt'[r]]
  BY DEF Shut
<1> QED BY <1>2, <1>3 DEF Closed

\* The handle of a seat in the maps refers to the runtime that it was opened with.
LEMMA HandleOf ==
  ASSUME SeatsInv, NEW k \in Key, seats[k] # None
  PROVE  /\ seats[k] \in Attacher /\ RuntimeOf(seats[k]) = seats[k]
         /\ Asks(seats[k], k) /\ rt[seats[k]].st # "none"
         /\ Live(seats[k]) \/ Over
         /\ \A j \in Key : seats[j] = seats[k] => j = k
         /\ \A j \in Key : seats[j] # None /\ rt[seats[j]].id = rt[seats[k]].id => j = k
<1>1. Held /\ seats \in [Key -> Attacher \cup {None}]
  BY DEF SeatsInv, Bound, TypeOK
<1> QED BY <1>1, Kinds DEF Held, RuntimeOf, Asks

LEMMA RuntimesAre ==
  ASSUME SeatsInv, NEW K \in SUBSET Key
  PROVE  /\ RuntimesOf(K) \in SUBSET Attacher
         /\ \A r : r \in RuntimesOf(K) <=> r # None /\ Live(r) /\ \E k \in K : seats[k] = r
<1>1. \A k \in K : seats[k] # None => seats[k] \in Attacher /\ RuntimeOf(seats[k]) = seats[k]
  BY HandleOf
<1>2. \A r : r \in RuntimesOf(K) <=>
              r \in Attacher /\ Live(r) /\ \E k \in K : seats[k] # None /\ r = RuntimeOf(seats[k])
  BY DEF RuntimesOf
<1> QED BY <1>1, <1>2

\* An event or a disposal goes on: it empties the seats of K and closes the runtimes R,
\* and a disposal may clear their entries in `attaching`.
LEMMA Clears ==
  ASSUME SeatsInv, NEW e \in Event \cup Shutdown, NEW p \in PC, p # "new",
         pc' = [pc EXCEPT ![e] = p],
         pc[e] \in {"closeAll", "done"} => p \in {"closeAll", "done"},
         NEW K \in SUBSET Key, NEW R \in SUBSET Attacher, Closed(R),
         \A k \in Key : seats'[k] = IF k \in K THEN None ELSE seats[k],
         \/ attaching' = attaching
         \/ /\ e \in Shutdown /\ \A c \in Attacher : pc[c] # "attach"
            /\ \A k \in Key : attaching'[k] = IF k \in K THEN None ELSE attaching[k],
         UNCHANGED <<arg, named, on, seatOf, adopt, closing, sessions, file, snap, stray>>,
         \A k \in Key \ K : seats[k] # None /\ seats[k] \in R => Over',
         \A k \in K : seats[k] # None /\ rt[seats[k]].st = "open" => seats[k] \in R \/ Retired(k)'
  PROVE  Lined' /\ Bound' /\ Records'
<1>0. /\ Asked /\ Openers /\ Waiters /\ Closings /\ Drains /\ Runtimes /\ Held /\ Given /\ Sole
      /\ Records /\ pc \in [Call -> PC] /\ seats \in [Key -> Attacher \cup {None}]
      /\ attaching \in [Key -> Attacher \cup {None}] /\ closing \in [Agent -> Closer \cup {None}]
  BY DEF SeatsInv, Lined, Bound, TypeOK
<1>1. /\ \A x \in Attacher : pc'[x] = pc[x]
      /\ \A x \in Closer : pc'[x] = pc[x]
      /\ \A x \in Shutdown : pc'[x] = IF x = e THEN p ELSE pc[x]
  BY <1>0, Kinds
<1>2. \A x \in Attacher : \A k : Asks(x, k)' <=> Asks(x, k)
  BY <1>1, AsksStay
<1>3. (Off => Off') /\ (e \in Shutdown => Off')
  BY <1>1 DEF Off
<1>4. Over => Over'
  BY <1>1 DEF Over
<1>5. \A k \in Key : (attaching'[k] = attaching[k] \/ attaching'[k] = None)
                     /\ (seats'[k] = seats[k] \/ seats'[k] = None)
  OBVIOUS
<1>6. ASSUME NEW k \in Key, Late(k)  PROVE Late(k)'
  BY <1>1, <1>2, <1>3, <1>5, <1>6 DEF Late
<1>7. ASSUME NEW k \in Key, Retired(k)  PROVE Retired(k)'
  BY <1>1, <1>2, <1>3, <1>7 DEF Retired
<1>8. Asked'
  BY <1>0, <1>1 DEF Asked, ArgsOf
<1>9. Openers'
  <2>1. ASSUME NEW k \in Key, attaching'[k] # None
        PROVE  pc'[attaching'[k]] \in Opening /\ Asks(attaching[k], k)'
    <3>1. attaching'[k] = attaching[k] /\ attaching[k] \in Attacher
      BY <1>0, <1>5, <2>1
    <3>2. pc[attaching[k]] \in Opening /\ Asks(attaching[k], k)
      BY <1>0, <2>1, <3>1 DEF Openers
    <3> QED BY <1>1, <1>2, <3>1, <3>2 DEF Asks
  <2>2. ASSUME NEW x \in Attacher, NEW k \in Key, pc'[x] \in Opening, Asks(x, k)'
        PROVE  /\ seats'[k] = None /\ (attaching'[k] = x \/ Late(k)')
               /\ \A d \in Attacher : pc'[d] \in Opening /\ Asks(d, k)' => d = x
    <3>1. /\ pc[x] \in Opening /\ Asks(x, k)
          /\ seats[k] = None /\ (attaching[k] = x \/ Late(k))
          /\ \A d \in Attacher : pc[d] \in Opening /\ Asks(d, k) => d = x
      BY <1>0, <1>1, <1>2, <2>2 DEF Openers
    <3>2. attaching'[k] = attaching[k] \/ Late(k)'
      <4>1. CASE attaching' = attaching
        BY <4>1
      <4>2. CASE /\ e \in Shutdown /\ \A c \in Attacher : pc[c] # "attach"
                 /\ \A j \in Key : attaching'[j] = IF j \in K THEN None ELSE attaching[j]
        <5>1. ASSUME NEW d \in Attacher, Asks(d, k), pc[d] = "waitClose"  PROVE FALSE
          <6>1. d \in Run /\ on[d] \in Closer /\ \A a \in Agent : Asks(d, a) => closing[a] = on[d]
            BY <1>0, <5>1 DEF Waiters
          <6>2. k \in Agent
            BY <1>0, <5>1, <6>1, Asking
          <6>3. closing[k] # None
            BY <5>1, <6>1, <6>2, Kinds
          <6> QED BY <1>0, <3>1, <6>2, <6>3 DEF Closings
        <5>2. CASE k \in K
          BY <1>1, <1>2, <1>3, <4>2, <5>1, <5>2 DEF Late
        <5>3. CASE k \notin K
          BY <4>2, <5>3
        <5> QED BY <5>2, <5>3
      <4> QED BY <4>1, <4>2
    <3> QED BY <1>1, <1>2, <1>5, <1>6, <3>1, <3>2
  <2> QED BY <2>1, <2>2 DEF Openers
<1>10. Waiters'
  <2>1. ASSUME NEW x \in Attacher, pc'[x] = "waitAttach"
        PROVE  /\ on[x] \in Attacher /\ pc'[on[x]] \in Opening
               /\ \A k \in Key : Asks(x, k)' => Asks(on[x], k)'
    BY <1>0, <1>1, <1>2, <2>1 DEF Waiters
  <2>2. ASSUME NEW x \in Attacher, pc'[x] = "waitClose"
        PROVE  x \in Run /\ on[x] \in Closer /\ \A k \in Agent : Asks(x, k)' => closing[k] = on[x]
    BY <1>0, <1>1, <1>2, <2>2 DEF Waiters
  <2> QED BY <2>1, <2>2 DEF Waiters
<1>11. Closings'
  <2> SUFFICES ASSUME NEW a \in Agent, closing[a] # None
               PROVE  /\ pc'[closing[a]] = "closing" /\ seats'[a] = None
                      /\ \A x \in Attacher : Asks(x, a)' => pc'[x] \notin Opening
    BY DEF Closings
  <2>1. closing[a] \in Closer /\ a \in Key
    BY <1>0, Kinds
  <2> QED BY <1>0, <1>1, <1>2, <1>5, <2>1 DEF Closings
<1>12. Drains'
  BY <1>0, <1>1 DEF Drains, Closed
<1>13. Runtimes'
  <2> SUFFICES ASSUME NEW r \in Attacher
               PROVE  /\ pc'[r] \in Before \cup Opening => rt'[r].st = "none"
                      /\ rt'[r].st # "none" =>
                           rt'[r].id \in Attacher /\ \A k \in Key : Asks(r, k)' => Asks(rt[r].id, k)'
                      /\ Live(r)' => rt'[r].thread # None
                      /\ rt'[r].st # "none" /\ rt'[r].thread # None =>
                           /\ rt'[r].thread \in Attacher
                           /\ \A k \in Key : Asks(r, k)' => Asks(rt[r].thread, k)'
    BY DEF Runtimes
  <2>1. /\ rt'[r].st = "none" <=> rt[r].st = "none"
        /\ Live(r)' <=> Live(r)
        /\ rt'[r].id = rt[r].id /\ rt'[r].thread = rt[r].thread
    BY DEF Closed, Live
  <2>2. /\ pc[r] \in Before \cup Opening => rt[r].st = "none"
        /\ rt[r].st # "none" => rt[r].id \in Attacher /\ \A k \in Key : Asks(r, k) => Asks(rt[r].id, k)
        /\ Live(r) => rt[r].thread # None
        /\ rt[r].st # "none" /\ rt[r].thread # None =>
             rt[r].thread \in Attacher /\ \A k \in Key : Asks(r, k) => Asks(rt[r].thread, k)
    BY <1>0 DEF Runtimes
  <2>3. /\ rt[r].id \in Attacher => \A k \in Key : Asks(rt[r].id, k)' <=> Asks(rt'[r].id, k)
        /\ rt[r].thread \in Attacher => \A k \in Key : Asks(rt[r].thread, k)' <=> Asks(rt'[r].thread, k)
    BY <1>2, <2>1
  <2> QED BY <1>1, <1>2, <2>1, <2>2, <2>3
<1>14. Held'
  <2> SUFFICES ASSUME NEW k \in Key, seats'[k] # None
               PROVE  /\ Asks(seats[k], k)' /\ rt'[seats'[k]].st # "none"
                      /\ sessions[rt'[seats'[k]].id] = seats'[k]
                      /\ Live(seats[k])' \/ Over'
                      /\ rt'[seats'[k]].st = "closing" => Over' \/ Taken(k)'
    BY DEF Held
  <2>1. /\ seats[k] \in Attacher /\ seats'[k] = seats[k] /\ k \notin K
    BY <1>0
  <2>2. Taken(k) => Taken(k)'
    BY <1>1, <2>1 DEF Taken
  <2>3. /\ rt'[seats[k]].id = rt[seats[k]].id /\ rt'[seats[k]].st # "none" <=> rt[seats[k]].st # "none"
        /\ Live(seats[k])' <=> Live(seats[k])
        /\ rt'[seats[k]].st = "closing" => rt[seats[k]].st = "closing" \/ Over'
    BY <2>1 DEF Closed, Live
  <2>4. Asks(seats[k], k)' <=> Asks(seats[k], k)
    BY <1>2, <2>1
  <2> QED BY <1>0, <1>4, <2>1, <2>2, <2>3, <2>4 DEF Held
<1>15. Given'
  <2> SUFFICES ASSUME NEW x \in Attacher
               PROVE  /\ pc'[x] = "attached" =>
                           /\ seatOf[x] \in Attacher /\ rt'[seatOf[x]].st # "none"
                           /\ sessions[rt'[seatOf[x]].id] = seatOf[x] /\ Suited(x, seatOf[x])'
                      /\ pc'[x] \in {"queued", "running"} =>
                           on[x] \in Attacher /\ rt'[on[x]].st # "none" /\ Suited(x, on[x])'
    BY DEF Given
  <2> QED BY <1>0, <1>1 DEF Given, Suited, Closed
<1>16. Sole'
  <2>1. ASSUME NEW q \in Attacher, Serving(q)'  PROVE Serving(q) /\ q \notin R
    BY <2>1 DEF Serving, Closed
  <2>2. ASSUME NEW q \in Attacher, NEW k \in Key, Serving(q)', Asks(q, k)'
        PROVE  seats'[k] = q \/ Retired(k)'
    <3>1. Serving(q) /\ q \notin R /\ q # None /\ (seats[k] = q \/ Retired(k))
      BY <1>0, <1>2, <2>1, <2>2, Kinds DEF Sole
    <3>2. rt[q].st = "open"
      BY <3>1 DEF Serving
    <3> QED BY <1>7, <3>1, <3>2
  <2> QED BY <1>0, <1>2, <2>1, <2>2 DEF Sole
<1>17. Records'
  <2>1. \A x : Good(x) => Good(x)'
    BY <1>2, GoodStays
  <2> QED BY <1>0, <1>2, <2>1 DEF Records, GoodFile
<1> QED BY <1>8, <1>9, <1>10, <1>11, <1>12, <1>13, <1>14, <1>15, <1>16, <1>17 DEF Lined, Bound

-----------------------------------------------------------------------------
(* A close settles.                                                        *)

\* The openings that fail with the close of r.
Failing(r, ok) == {c \in Attacher : pc[c] = "closingOld" /\ on[c] = r /\ ~ok}

LEMMA WakeIs ==
  ASSUME SeatsInv, NEW r \in Attacher, NEW ok \in BOOLEAN, Wake(r, ok)
  PROVE  /\ \A c \in Attacher :
              \/ pc'[c] = pc[c] /\ c \notin Failing(r, ok)
                 /\ (pc[c] = "closingOld" => on[c] # r)
                 /\ (pc[c] = "waitClose" => on[c] \notin Closers(r))
                 /\ (pc[c] = "waitAttach" => on[c] \notin Failing(r, ok))
              \/ pc[c] = "closingOld" /\ on[c] = r /\ ok /\ pc'[c] = "reading"
                 /\ c \notin Failing(r, ok)
              \/ c \in Failing(r, ok) /\ pc[c] = "closingOld" /\ pc'[c] = "failed"
              \/ pc[c] = "waitClose" /\ on[c] \in Closers(r) /\ pc'[c] \in {"attach", "failed"}
                 /\ c \notin Failing(r, ok)
              \/ pc[c] = "waitAttach" /\ on[c] \in Failing(r, ok) /\ pc'[c] = "failed"
                 /\ c \notin Failing(r, ok)
         /\ \A d \in Closer : IF d \in Closers(r) THEN pc'[d] \in {"done", "failed"}
                                                  ELSE pc'[d] = pc[d]
         /\ \A e \in Event \cup Shutdown : pc'[e] = pc[e]
         /\ \A k \in Key : attaching'[k] =
              IF attaching[k] \in Failing(r, ok) THEN None ELSE attaching[k]
         /\ \A a \in Agent : closing'[a] = IF closing[a] \in Closers(r) THEN None ELSE closing[a]
         /\ \A k \in Key : seats'[k] =
              IF ok /\ \E d \in Closers(r) : named[d] = k THEN None ELSE seats[k]
<1>1. Closers(r) \subseteq Closer /\ pc \in [Call -> PC]
  BY DEF Closers, SeatsInv, TypeOK
<1>2. pc' = [c \in Call |->
       IF c \in Attacher /\ pc[c] = "closingOld" /\ on[c] = r
         THEN IF ok THEN "reading" ELSE "failed"
       ELSE IF c \in Closers(r) THEN IF ok THEN "done" ELSE "failed"
       ELSE IF c \in Attacher /\ pc[c] = "waitClose" /\ on[c] \in Closers(r)
         THEN IF ok THEN "attach" ELSE "failed"
       ELSE IF c \in Attacher /\ pc[c] = "waitAttach" /\ on[c] \in Failing(r, ok)
         THEN "failed"
       ELSE pc[c]]
  BY DEF Wake, Failing
<1>3. /\ attaching' = [k \in Key |-> IF attaching[k] \in Failing(r, ok) THEN None ELSE attaching[k]]
      /\ closing' = Reopened(r, ok) /\ seats' = Forgotten(r, ok)
  BY DEF Wake, Failing
<1>4. ASSUME NEW c \in Attacher
      PROVE  \/ pc'[c] = pc[c] /\ c \notin Failing(r, ok)
                /\ (pc[c] = "closingOld" => on[c] # r)
                /\ (pc[c] = "waitClose" => on[c] \notin Closers(r))
                /\ (pc[c] = "waitAttach" => on[c] \notin Failing(r, ok))
             \/ pc[c] = "closingOld" /\ on[c] = r /\ ok /\ pc'[c] = "reading"
                /\ c \notin Failing(r, ok)
             \/ c \in Failing(r, ok) /\ pc[c] = "closingOld" /\ pc'[c] = "failed"
             \/ pc[c] = "waitClose" /\ on[c] \in Closers(r) /\ pc'[c] \in {"attach", "failed"}
                /\ c \notin Failing(r, ok)
             \/ pc[c] = "waitAttach" /\ on[c] \in Failing(r, ok) /\ pc'[c] = "failed"
                /\ c \notin Failing(r, ok)
  <2>1. c \in Call /\ c \notin Closers(r)
    BY <1>1, Kinds
  <2>2. pc'[c] =
       IF pc[c] = "closingOld" /\ on[c] = r
         THEN IF ok THEN "reading" ELSE "failed"
       ELSE IF pc[c] = "waitClose" /\ on[c] \in Closers(r)
         THEN IF ok THEN "attach" ELSE "failed"
       ELSE IF pc[c] = "waitAttach" /\ on[c] \in Failing(r, ok)
         THEN "failed"
       ELSE pc[c]
    BY <1>2, <2>1
  <2>3. c \in Failing(r, ok) <=> pc[c] = "closingOld" /\ on[c] = r /\ ~ok
    BY DEF Failing
  <2> QED BY <2>2, <2>3
<1>5. ASSUME NEW d \in Closer
      PROVE  IF d \in Closers(r) THEN pc'[d] \in {"done", "failed"} ELSE pc'[d] = pc[d]
  BY <1>2, Kinds
<1>6. ASSUME NEW e \in Event \cup Shutdown  PROVE pc'[e] = pc[e]
  BY <1>1, <1>2, Kinds
<1>7. \A k \in Key : seats'[k] = IF ok /\ \E d \in Closers(r) : named[d] = k THEN None ELSE seats[k]
  BY <1>3 DEF Forgotten
<1>8. \A a \in Agent : closing'[a] = IF closing[a] \in Closers(r) THEN None ELSE closing[a]
  BY <1>3 DEF Reopened
<1>9. \A k \in Key : attaching'[k] = IF attaching[k] \in Failing(r, ok) THEN None ELSE attaching[k]
  BY <1>3
<1> QED BY <1>4, <1>5, <1>6, <1>7, <1>8, <1>9

\* What both outcomes of a close keep: runtimes are as they were, but that r is closed,
\* or open and a stray.
LEMMA WakeKeeps ==
  ASSUME SeatsInv, NEW r \in Attacher, NEW ok \in BOOLEAN, Wake(r, ok), Drained(r),
         UNCHANGED <<arg, named, on, seatOf, adopt, sessions, snap>>,
         \A q \in Attacher : q # r => rt'[q] = rt[q],
         rt'[r].id = rt[r].id, rt'[r].config = rt[r].config,
         rt'[r].thread \in {rt[r].thread, None},
         IF ok THEN rt'[r].st = "closed"
               ELSE rt'[r].st = "open" /\ rt'[r].thread = rt[r].thread /\ r \in stray',
         stray \subseteq stray',
         \A q \in Attacher : \A k \in Key :
           seats[k] = q /\ q # r /\ seats'[k] = None => q \in stray'
  PROVE  /\ Lined' /\ Bound'
         /\ \A c \in Attacher : \A k : Asks(c, k)' <=> Asks(c, k)
<1>0. /\ Asked /\ Openers /\ Waiters /\ Closings /\ Drains /\ Runtimes /\ Held /\ Given /\ Sole
      /\ Records /\ pc \in [Call -> PC] /\ seats \in [Key -> Attacher \cup {None}]
      /\ attaching \in [Key -> Attacher \cup {None}] /\ closing \in [Agent -> Closer \cup {None}]
      /\ rt[r].st = "closing" /\ Closers(r) \subseteq Closer
  BY DEF SeatsInv, Lined, Bound, TypeOK, Drained, Closers
<1> DEFINE F == Failing(r, ok)
<1>1. /\ \A c \in Attacher :
              \/ pc'[c] = pc[c] /\ c \notin F
                 /\ (pc[c] = "closingOld" => on[c] # r)
                 /\ (pc[c] = "waitClose" => on[c] \notin Closers(r))
                 /\ (pc[c] = "waitAttach" => on[c] \notin F)
              \/ pc[c] = "closingOld" /\ on[c] = r /\ ok /\ pc'[c] = "reading" /\ c \notin F
              \/ c \in F /\ pc[c] = "closingOld" /\ pc'[c] = "failed"
              \/ pc[c] = "waitClose" /\ on[c] \in Closers(r) /\ pc'[c] \in {"attach", "failed"}
                 /\ c \notin F
              \/ pc[c] = "waitAttach" /\ on[c] \in F /\ pc'[c] = "failed" /\ c \notin F
      /\ \A d \in Closer : IF d \in Closers(r) THEN pc'[d] \in {"done", "failed"}
                                               ELSE pc'[d] = pc[d]
      /\ \A e \in Event \cup Shutdown : pc'[e] = pc[e]
      /\ \A k \in Key : attaching'[k] = IF attaching[k] \in F THEN None ELSE attaching[k]
      /\ \A a \in Agent : closing'[a] = IF closing[a] \in Closers(r) THEN None ELSE closing[a]
      /\ \A k \in Key : seats'[k] =
           IF ok /\ \E d \in Closers(r) : named[d] = k THEN None ELSE seats[k]
  BY WakeIs
<1> HIDE DEF F
<1>2. \A c \in Attacher : \A k : Asks(c, k)' <=> Asks(c, k)
  <2>1. \A c \in Attacher : pc'[c] = "new" <=> pc[c] = "new"
    BY <1>1
  <2> QED BY <2>1, AsksStay
<1>3. (Off => Off') /\ (Over => Over')
  BY <1>1 DEF Off, Over
<1>4. /\ \A c \in Attacher : pc'[c] \in Opening => pc[c] \in Opening
      /\ \A c \in Attacher : pc[c] \in Opening /\ c \notin F => pc'[c] \in Opening
      /\ \A c \in Attacher : pc'[c] \in Before => pc[c] \in Before
      /\ \A c \in Attacher : c \in F => pc'[c] \notin Opening
  BY <1>1 DEF Opening, Before
<1>5. ASSUME NEW k \in Key, Late(k)  PROVE Late(k)'
  <2>1. attaching'[k] = None
    BY <1>1, <1>5 DEF Late
  <2>2. ASSUME NEW d \in Attacher, Asks(d, k)'  PROVE pc'[d] \notin {"attach", "waitClose"}
    BY <1>1, <1>2, <1>5, <2>2 DEF Late
  <2> QED BY <1>3, <1>5, <2>1, <2>2 DEF Late
<1>6. ASSUME NEW k \in Key, Retired(k)  PROVE Retired(k)'
  BY <1>2, <1>3, <1>4, <1>6 DEF Retired
<1>7. Asked'
  BY <1>0, <1>1 DEF Asked, ArgsOf
<1>8. Openers'
  <2>1. ASSUME NEW k \in Key, attaching'[k] # None
        PROVE  pc'[attaching'[k]] \in Opening /\ Asks(attaching[k], k)'
    <3>1. attaching'[k] = attaching[k] /\ attaching[k] \in Attacher /\ attaching[k] \notin F
      BY <1>0, <1>1, <2>1
    <3>2. pc[attaching[k]] \in Opening /\ Asks(attaching[k], k)
      BY <1>0, <2>1, <3>1 DEF Openers
    <3> QED BY <1>2, <1>4, <3>1, <3>2 DEF Asks
  <2>2. ASSUME NEW x \in Attacher, NEW k \in Key, pc'[x] \in Opening, Asks(x, k)'
        PROVE  /\ seats'[k] = None /\ (attaching'[k] = x \/ Late(k)')
               /\ \A d \in Attacher : pc'[d] \in Opening /\ Asks(d, k)' => d = x
    <3>1. /\ pc[x] \in Opening /\ Asks(x, k) /\ x \notin F
          /\ seats[k] = None /\ (attaching[k] = x \/ Late(k))
          /\ \A d \in Attacher : pc[d] \in Opening /\ Asks(d, k) => d = x
      BY <1>0, <1>2, <1>4, <2>2 DEF Openers
    <3> QED BY <1>1, <1>2, <1>4, <1>5, <3>1
  <2> QED BY <2>1, <2>2 DEF Openers
<1>9. Waiters'
  <2>1. ASSUME NEW x \in Attacher, pc'[x] = "waitAttach"
        PROVE  /\ on[x] \in Attacher /\ pc'[on[x]] \in Opening
               /\ \A k \in Key : Asks(x, k)' => Asks(on[x], k)'
    <3>1. pc[x] = "waitAttach" /\ on[x] \notin F
      BY <1>1, <2>1
    <3>2. /\ on[x] \in Attacher /\ pc[on[x]] \in Opening
          /\ \A k \in Key : Asks(x, k) => Asks(on[x], k)
      BY <1>0, <3>1 DEF Waiters
    <3> QED BY <1>2, <1>4, <3>1, <3>2
  <2>2. ASSUME NEW x \in Attacher, pc'[x] = "waitClose"
        PROVE  x \in Run /\ on[x] \in Closer /\ \A k \in Agent : Asks(x, k)' => closing'[k] = on[x]
    <3>1. pc[x] = "waitClose" /\ on[x] \notin Closers(r)
      BY <1>1, <2>2
    <3> QED BY <1>0, <1>1, <1>2, <3>1 DEF Waiters
  <2> QED BY <2>1, <2>2 DEF Waiters
<1>10. Closings'
  <2> SUFFICES ASSUME NEW a \in Agent, closing'[a] # None
               PROVE  /\ pc'[closing'[a]] = "closing" /\ seats'[a] = None
                      /\ \A x \in Attacher : Asks(x, a)' => pc'[x] \notin Opening
    BY DEF Closings
  <2>1. closing'[a] = closing[a] /\ closing[a] \in Closer \ Closers(r) /\ a \in Key
    BY <1>0, <1>1, Kinds
  <2> QED BY <1>0, <1>1, <1>2, <1>4, <2>1 DEF Closings
<1>11. Drains'
  <2>1. ASSUME NEW x \in Attacher, pc'[x] = "closingOld"
        PROVE  on[x] \in Attacher /\ rt'[on[x]].st = "closing"
    BY <1>0, <1>1, <2>1 DEF Drains
  <2>2. ASSUME NEW x \in Closer, pc'[x] = "closing"
        PROVE  on[x] \in Attacher /\ rt'[on[x]].st = "closing"
    <3>1. pc[x] = "closing" /\ x \notin Closers(r)
      BY <1>1, <2>2
    <3>2. on[x] # r
      BY <3>1 DEF Closers
    <3> QED BY <1>0, <3>1, <3>2 DEF Drains
  <2> QED BY <2>1, <2>2 DEF Drains
<1>12. ASSUME NEW q \in Attacher
       PROVE  /\ rt'[q].id = rt[q].id /\ rt'[q].config = rt[q].config
              /\ rt'[q].st = "none" <=> rt[q].st = "none"
              /\ Live(q)' => Live(q) /\ rt'[q].thread = rt[q].thread
              /\ rt'[q].thread \in {rt[q].thread, None}
              /\ q # r => rt'[q].st = rt[q].st
  BY <1>0 DEF Live
<1>13. Runtimes'
  <2> SUFFICES ASSUME NEW q \in Attacher
               PROVE  /\ pc'[q] \in Before \cup Opening => rt'[q].st = "none"
                      /\ rt'[q].st # "none" =>
                           rt'[q].id \in Attacher /\ \A k \in Key : Asks(q, k)' => Asks(rt[q].id, k)'
                      /\ Live(q)' => rt'[q].thread # None
                      /\ rt'[q].st # "none" /\ rt'[q].thread # None =>
                           /\ rt'[q].thread \in Attacher
                           /\ \A k \in Key : Asks(q, k)' => Asks(rt[q].thread, k)'
    BY DEF Runtimes
  <2>1. /\ pc[q] \in Before \cup Opening => rt[q].st = "none"
        /\ rt[q].st # "none" => rt[q].id \in Attacher /\ \A k \in Key : Asks(q, k) => Asks(rt[q].id, k)
        /\ Live(q) => rt[q].thread # None
        /\ rt[q].st # "none" /\ rt[q].thread # None =>
             rt[q].thread \in Attacher /\ \A k \in Key : Asks(q, k) => Asks(rt[q].thread, k)
    BY <1>0 DEF Runtimes
  <2>2. /\ rt[q].id \in Attacher => \A k \in Key : Asks(rt[q].id, k)' <=> Asks(rt'[q].id, k)
        /\ rt'[q].thread \in Attacher => \A k \in Key : Asks(rt[q].thread, k)' <=> Asks(rt'[q].thread, k)
    BY <1>2, <1>12
  <2> QED BY <1>2, <1>4, <1>12, <2>1, <2>2
<1>14. Held'
  <2> SUFFICES ASSUME NEW k \in Key, seats'[k] # None
               PROVE  /\ Asks(seats[k], k)' /\ rt'[seats'[k]].st # "none"
                      /\ sessions[rt'[seats'[k]].id] = seats'[k]
                      /\ Live(seats[k])' \/ Over'
                      /\ rt'[seats'[k]].st = "closing" => Over' \/ Taken(k)'
    BY DEF Held
  <2>1. seats[k] \in Attacher /\ seats'[k] = seats[k]
        /\ (ok => \A d \in Closers(r) : named[d] # k)
    BY <1>0, <1>1
  <2>2. /\ Asks(seats[k], k) /\ rt[seats[k]].st # "none" /\ sessions[rt[seats[k]].id] = seats[k]
        /\ Live(seats[k]) \/ Over
        /\ rt[seats[k]].st = "closing" => Over \/ Taken(k)
    BY <1>0, <2>1, Kinds DEF Held
  <2>3. /\ Asks(seats[k], k)' /\ rt'[seats'[k]].st # "none"
        /\ sessions[rt'[seats'[k]].id] = seats'[k]
    BY <1>2, <1>12, <2>1, <2>2
  <2>4. CASE seats[k] = r
    <3>1. Over \/ \E d \in Closers(r) : named[d] = k
      BY <1>0, <2>2, <2>4 DEF Taken, Closers
    <3>2. CASE ok
      BY <1>3, <2>1, <2>3, <3>1, <3>2
    <3>3. CASE ~ok
      <4>1. rt'[seats'[k]].st = "open"
        BY <2>1, <2>4, <3>3
      <4>2. Live(seats[k])'
        BY <2>1, <4>1 DEF Live
      <4> QED BY <2>3, <4>1, <4>2
    <3> QED BY <3>2, <3>3
  <2>5. CASE seats[k] # r
    <3>1. rt'[seats'[k]].st = rt[seats[k]].st
      BY <1>12, <2>1, <2>5
    <3>2. Live(seats[k])' <=> Live(seats[k])
      BY <2>1, <3>1 DEF Live
    <3>3. Taken(k) => Taken(k)'
      <4>1. ASSUME NEW d \in Closer, pc[d] = "closing", on[d] = seats[k], named[d] = k
            PROVE  pc'[d] = "closing"
        <5>1. d \notin Closers(r)
          BY <2>5, <4>1 DEF Closers
        <5> QED BY <1>1, <4>1, <5>1
      <4> QED BY <2>1, <4>1 DEF Taken
    <3> QED BY <1>3, <2>2, <2>3, <3>1, <3>2, <3>3
  <2> QED BY <2>4, <2>5
<1>15. Given'
  <2> SUFFICES ASSUME NEW x \in Attacher
               PROVE  /\ pc'[x] = "attached" =>
                           /\ seatOf[x] \in Attacher /\ rt'[seatOf[x]].st # "none"
                           /\ sessions[rt'[seatOf[x]].id] = seatOf[x] /\ Suited(x, seatOf[x])'
                      /\ pc'[x] \in {"queued", "running"} =>
                           on[x] \in Attacher /\ rt'[on[x]].st # "none" /\ Suited(x, on[x])'
    BY DEF Given
  <2>1. pc'[x] \in {"attached", "queued", "running"} => pc[x] = pc'[x]
    BY <1>1
  <2> QED BY <1>0, <1>12, <2>1 DEF Given, Suited
<1>16. Sole'
  <2>1. ASSUME NEW q \in Attacher, Serving(q)'  PROVE Serving(q) /\ q # r
    BY <2>1 DEF Serving
  <2>2. ASSUME NEW q \in Attacher, NEW k \in Key, Serving(q)', Asks(q, k)'
        PROVE  seats'[k] = q \/ Retired(k)'
    <3>1. Serving(q) /\ q # r /\ q # None /\ (seats[k] = q \/ Retired(k)) /\ q \notin stray'
      BY <1>0, <1>2, <2>1, <2>2, Kinds DEF Sole, Serving
    <3> QED BY <1>1, <1>6, <3>1
  <2> QED BY <1>0, <1>2, <2>1, <2>2 DEF Sole
<1> QED BY <1>2, <1>7, <1>8, <1>9, <1>10, <1>11, <1>13, <1>14, <1>15, <1>16 DEF Lined, Bound

-----------------------------------------------------------------------------
(* Opening.                                                                *)

LEMMA SettlesIs ==
  ASSUME pc \in [Call -> PC], NEW c \in Attacher, NEW ok \in BOOLEAN, Settles(c, ok)
  PROVE  /\ pc'[c] = IF ok THEN "attached" ELSE "failed"
         /\ \A d \in Attacher : d # c =>
              \/ pc'[d] = pc[d] /\ (pc[d] = "waitAttach" => on[d] # c)
              \/ pc[d] = "waitAttach" /\ on[d] = c /\ pc'[d] \in {"attach", "failed"}
         /\ \A d \in Closer \cup Event \cup Shutdown :
              \/ pc'[d] = pc[d]
              \/ pc[d] = "waitAttach" /\ pc'[d] \in {"attach", "failed"}
         /\ \A k \in Key : attaching'[k] = IF attaching[k] = c THEN None ELSE attaching[k]
<1>1. \A d \in Call : pc'[d] =
       IF d = c THEN IF ok THEN "attached" ELSE "failed"
       ELSE IF pc[d] = "waitAttach" /\ on[d] = c THEN IF ok THEN "attach" ELSE "failed"
       ELSE pc[d]
  BY DEF Settles
<1>2. \A k \in Key : attaching'[k] = IF attaching[k] = c THEN None ELSE attaching[k]
  BY DEF Settles
<1> QED BY <1>1, <1>2, Kinds

\* What an opening that settles keeps, whatever it adds to the seat of its key.
LEMMA SettlesLined ==
  ASSUME SeatsInv, NEW c \in Attacher, NEW ok \in BOOLEAN, pc[c] = "opening", Settles(c, ok),
         UNCHANGED <<arg, on, closing>>,
         \A k \in Key : seats'[k] = seats[k] \/ Asks(c, k)
  PROVE  /\ Lined'
         /\ \A x \in Attacher : \A k : Asks(x, k)' <=> Asks(x, k)
         /\ \A k \in Key : Retired(k) => Retired(k)' /\ ~Asks(c, k)
         /\ Over => Over'
         /\ \A d \in Closer : pc[d] = "closing" <=> pc'[d] = "closing"
<1>0. /\ Asked /\ Openers /\ Waiters /\ Closings
      /\ pc \in [Call -> PC] /\ seats \in [Key -> Attacher \cup {None}]
      /\ attaching \in [Key -> Attacher \cup {None}] /\ closing \in [Agent -> Closer \cup {None}]
  BY DEF SeatsInv, Lined, TypeOK
<1>1. /\ pc'[c] = IF ok THEN "attached" ELSE "failed"
      /\ \A d \in Attacher : d # c =>
              \/ pc'[d] = pc[d] /\ (pc[d] = "waitAttach" => on[d] # c)
              \/ pc[d] = "waitAttach" /\ on[d] = c /\ pc'[d] \in {"attach", "failed"}
      /\ \A d \in Closer \cup Event \cup Shutdown :
              \/ pc'[d] = pc[d]
              \/ pc[d] = "waitAttach" /\ pc'[d] \in {"attach", "failed"}
      /\ \A k \in Key : attaching'[k] = IF attaching[k] = c THEN None ELSE attaching[k]
  BY <1>0, SettlesIs
<1>2. \A x \in Attacher : \A k : Asks(x, k)' <=> Asks(x, k)
  <2>1. \A x \in Attacher : pc'[x] = "new" <=> pc[x] = "new"
    BY <1>1
  <2> QED BY <2>1, AsksStay
<1>3. (Off => Off') /\ (Over => Over')
  BY <1>1 DEF Off, Over
<1>4. /\ \A x \in Attacher : pc'[x] \in Opening <=> x # c /\ pc[x] \in Opening
      /\ \A x \in Attacher : pc'[x] \in Before => pc[x] \in Before
      /\ c \in Attacher /\ pc[c] \in Opening
  BY <1>1 DEF Opening, Before
<1>5. ASSUME NEW k \in Key, Late(k), ~Asks(c, k)  PROVE Late(k)'
  <2>1. attaching'[k] = None
    BY <1>1, <1>5 DEF Late
  <2>2. ASSUME NEW d \in Attacher, Asks(d, k)'  PROVE pc'[d] \notin {"attach", "waitClose"}
    <3>1. pc[d] = "waitAttach" => on[d] # c
      BY <1>0, <1>2, <1>5, <2>2 DEF Waiters
    <3> QED BY <1>1, <1>2, <1>5, <2>2, <3>1 DEF Late
  <2> QED BY <1>3, <1>5, <2>1, <2>2 DEF Late
<1>6. ASSUME NEW k \in Key, Retired(k)  PROVE Retired(k)' /\ ~Asks(c, k)
  BY <1>2, <1>3, <1>4, <1>6 DEF Retired
<1>7. Asked'
  BY <1>0, <1>1 DEF Asked, ArgsOf
<1>8. Openers'
  <2>1. ASSUME NEW k \in Key, attaching'[k] # None
        PROVE  pc'[attaching'[k]] \in Opening /\ Asks(attaching[k], k)'
    <3>1. attaching'[k] = attaching[k] /\ attaching[k] \in Attacher /\ attaching[k] # c
      BY <1>0, <1>1, <2>1
    <3>2. pc[attaching[k]] \in Opening /\ Asks(attaching[k], k)
      BY <1>0, <2>1, <3>1 DEF Openers
    <3> QED BY <1>2, <1>4, <3>1, <3>2 DEF Asks
  <2>2. ASSUME NEW x \in Attacher, NEW k \in Key, pc'[x] \in Opening, Asks(x, k)'
        PROVE  /\ seats'[k] = None /\ (attaching'[k] = x \/ Late(k)')
               /\ \A d \in Attacher : pc'[d] \in Opening /\ Asks(d, k)' => d = x
    <3>1. /\ pc[x] \in Opening /\ Asks(x, k) /\ x # c
          /\ seats[k] = None /\ (attaching[k] = x \/ Late(k))
          /\ \A d \in Attacher : pc[d] \in Opening /\ Asks(d, k) => d = x
      BY <1>0, <1>2, <1>4, <2>2 DEF Openers
    <3>2. ~Asks(c, k)
      BY <1>4, <3>1
    <3> QED BY <1>1, <1>2, <1>4, <1>5, <3>1, <3>2
  <2> QED BY <2>1, <2>2 DEF Openers
<1>9. Waiters'
  <2>1. ASSUME NEW x \in Attacher, pc'[x] = "waitAttach"
        PROVE  /\ on[x] \in Attacher /\ pc'[on[x]] \in Opening
               /\ \A k \in Key : Asks(x, k)' => Asks(on[x], k)'
    <3>1. pc[x] = "waitAttach" /\ on[x] # c
      BY <1>1, <2>1
    <3> QED BY <1>0, <1>2, <1>4, <3>1 DEF Waiters
  <2>2. ASSUME NEW x \in Attacher, pc'[x] = "waitClose"
        PROVE  x \in Run /\ on[x] \in Closer /\ \A k \in Agent : Asks(x, k)' => closing[k] = on[x]
    <3>1. pc[x] = "waitClose"
      BY <1>1, <2>2
    <3> QED BY <1>0, <1>2, <3>1 DEF Waiters
  <2> QED BY <2>1, <2>2 DEF Waiters
<1>10. ASSUME NEW d \in Closer  PROVE pc[d] = "closing" <=> pc'[d] = "closing"
  BY <1>1
<1>11. Closings'
  <2> SUFFICES ASSUME NEW a \in Agent, closing[a] # None
               PROVE  /\ pc'[closing[a]] = "closing" /\ seats'[a] = None
                      /\ \A x \in Attacher : Asks(x, a)' => pc'[x] \notin Opening
    BY DEF Closings
  <2>1. closing[a] \in Closer /\ a \in Key
    BY <1>0, Kinds
  <2>2. pc[closing[a]] = "closing" /\ seats[a] = None /\ ~Asks(c, a)
        /\ \A x \in Attacher : Asks(x, a) => pc[x] \notin Opening
    BY <1>0, <1>4 DEF Closings
  <2> QED BY <1>2, <1>4, <1>10, <2>1, <2>2
<1> QED BY <1>2, <1>3, <1>6, <1>7, <1>8, <1>9, <1>10, <1>11 DEF Lined

LEMMA OpenFailsKeeps ==
  ASSUME SeatsInv, NEW c \in Attacher, OpenFails(c)
  PROVE  Lined' /\ Bound' /\ Records'
<1>0. /\ Drains /\ Runtimes /\ Held /\ Given /\ Sole /\ Records
      /\ pc \in [Call -> PC] /\ seats \in [Key -> Attacher \cup {None}]
      /\ pc[c] = "opening" /\ Settles(c, FALSE)
      /\ UNCHANGED <<arg, named, on, seatOf, adopt, seats, closing, rt, sessions, file, snap, stray>>
  BY DEF SeatsInv, Bound, TypeOK, OpenFails, delegator, history
<1>1. /\ Lined'
      /\ \A x \in Attacher : \A k : Asks(x, k)' <=> Asks(x, k)
      /\ \A k \in Key : Retired(k) => Retired(k)'
      /\ Over => Over'
      /\ \A d \in Closer : pc[d] = "closing" <=> pc'[d] = "closing"
  BY <1>0, SettlesLined
<1>2. /\ pc'[c] = "failed"
      /\ \A d \in Attacher : d # c =>
              \/ pc'[d] = pc[d]
              \/ pc[d] = "waitAttach" /\ pc'[d] = "failed"
  BY <1>0, Kinds DEF Settles
<1>3. Drains'
  BY <1>0, <1>1, <1>2 DEF Drains
<1>4. Runtimes'
  <2>1. \A r \in Attacher : pc'[r] \in Before \cup Opening => pc[r] \in Before \cup Opening
    BY <1>2 DEF Before, Opening
  <2> QED BY <1>0, <1>1, <2>1 DEF Runtimes, Live
<1>5. Held'
  BY <1>0, <1>1 DEF Held, Live, Taken
<1>6. Given'
  BY <1>0, <1>2 DEF Given, Suited
<1>7. Sole'
  BY <1>0, <1>1 DEF Sole, Serving
<1>8. Records'
  <2>1. \A x : Good(x) => Good(x)'
    BY <1>1, GoodStays
  <2> QED BY <1>0, <1>1, <2>1 DEF Records, GoodFile
<1> QED BY <1>1, <1>3, <1>4, <1>5, <1>6, <1>7, <1>8 DEF Bound

\* What a call opens: a thread and an id of its own seat.
LEMMA OpensIs ==
  ASSUME SeatsInv, NEW c \in Attacher, Opens(c)
  PROVE  \E k \in Key, id \in Attacher, t \in Attacher :
           /\ k = arg[c].key /\ Asks(c, k) /\ Asks(id, k) /\ Asks(t, k)
           /\ pc[c] = "opening" /\ Settles(c, TRUE)
           /\ \A x \in Attacher : pc[x] \notin Ready
           /\ rt' = [rt EXCEPT ![c].st = "open", ![c].id = id, ![c].thread = t,
                               ![c].config = arg[c].config]
           /\ sessions' = [sessions EXCEPT ![id] = c]
           /\ thread' = [thread EXCEPT ![t] = "live"]
           /\ file' = Put(file, [id |-> id, key |-> k, thread |-> t])
           /\ seatOf' = [seatOf EXCEPT ![c] = c]
           /\ seats' = [seats EXCEPT ![k] = c]
           /\ seat' \in [Attacher -> [continuing : BOOLEAN, last : Message \cup {None}]]
           /\ UNCHANGED <<arg, named, on, adopt, closing, snap, enders, history>>
<1> DEFINE k == arg[c].key
           id == IF Resumes(c) THEN adopt[c].id ELSE c
           t == IF Resumes(c) THEN adopt[c].thread ELSE c
<1>1. pc[c] = "opening" /\ pc[c] # "new" /\ Asked /\ Records
  BY DEF Opens, SeatsInv, Lined
<1>2. k \in Key /\ Asks(c, k) /\ \A j : Asks(c, j) => j = k
  BY <1>1, Asking
<1>3. id \in Attacher /\ Asks(id, k) /\ t \in Attacher /\ Asks(t, k)
  <2>1. CASE Resumes(c)
    <3>1. adopt[c] # None /\ adopt[c].thread # None
      BY <2>1 DEF Resumes
    <3>2. Good(adopt[c]) /\ Asks(c, adopt[c].key)
      BY <1>1, <3>1 DEF Records
    <3> QED BY <1>2, <2>1, <3>1, <3>2 DEF Good
  <2>2. CASE ~Resumes(c)
    BY <1>2, <2>2
  <2> QED BY <2>1, <2>2
<1>4. \A x \in Attacher : pc[x] \notin Ready
  BY DEF Opens, Quiet
<1>5. seat' \in [Attacher -> [continuing : BOOLEAN, last : Message \cup {None}]]
  <2>1. /\ seat \in [Attacher -> [continuing : BOOLEAN, last : Message \cup {None}]]
        /\ seat' = [seat EXCEPT ![c].continuing = Resumes(c)]
        /\ Resumes(c) \in BOOLEAN
    BY DEF SeatsInv, TypeOK, Opens, Resumes
  <2> QED BY <2>1
<1> HIDE DEF k, id, t
<1>6. /\ Settles(c, TRUE)
      /\ rt' = [rt EXCEPT ![c].st = "open", ![c].id = id, ![c].thread = t,
                          ![c].config = arg[c].config]
      /\ sessions' = [sessions EXCEPT ![id] = c]
      /\ thread' = [thread EXCEPT ![t] = "live"]
      /\ file' = Put(file, [id |-> id, key |-> k, thread |-> t])
      /\ seatOf' = [seatOf EXCEPT ![c] = c]
      /\ seats' = [seats EXCEPT ![k] = c]
      /\ UNCHANGED <<arg, named, on, adopt, closing, snap, enders, history>>
      /\ k = arg[c].key
  BY DEF Opens, k, id, t
<1> QED BY <1>1, <1>2, <1>3, <1>4, <1>5, <1>6

LEMMA OpensKeeps ==
  ASSUME SeatsInv, NEW c \in Attacher, Opens(c)
  PROVE  Lined' /\ Bound' /\ Records'
<1>0. /\ Openers /\ Drains /\ Runtimes /\ Held /\ Given /\ Sole /\ Records
      /\ pc \in [Call -> PC] /\ seats \in [Key -> Attacher \cup {None}]
      /\ rt \in [Attacher -> Runtime] /\ sessions \in [Attacher -> Attacher \cup {None}]
      /\ seatOf \in [Attacher -> Attacher \cup {None}]
      /\ file \in Seq(Record)
  BY DEF SeatsInv, Lined, Bound, TypeOK
<1>1. PICK k \in Key, id \in Attacher, t \in Attacher :
           /\ k = arg[c].key /\ Asks(c, k) /\ Asks(id, k) /\ Asks(t, k)
           /\ pc[c] = "opening" /\ Settles(c, TRUE)
           /\ \A x \in Attacher : pc[x] \notin Ready
           /\ rt' = [rt EXCEPT ![c].st = "open", ![c].id = id, ![c].thread = t,
                               ![c].config = arg[c].config]
           /\ sessions' = [sessions EXCEPT ![id] = c]
           /\ file' = Put(file, [id |-> id, key |-> k, thread |-> t])
           /\ seatOf' = [seatOf EXCEPT ![c] = c]
           /\ seats' = [seats EXCEPT ![k] = c]
           /\ UNCHANGED <<arg, named, on, adopt, closing, snap, history>>
  BY OpensIs
<1>2. \A j : Asks(c, j) => j = k
  BY <1>1 DEF Asks
<1>3. \A j \in Key : seats'[j] = IF j = k THEN c ELSE seats[j]
  BY <1>0, <1>1
<1>4. /\ Lined'
      /\ \A x \in Attacher : \A j : Asks(x, j)' <=> Asks(x, j)
      /\ \A j \in Key : Retired(j) => Retired(j)' /\ ~Asks(c, j)
      /\ Over => Over'
      /\ \A d \in Closer : pc[d] = "closing" <=> pc'[d] = "closing"
  <2>1. \A j \in Key : seats'[j] = seats[j] \/ Asks(c, j)
    BY <1>1, <1>3
  <2>2. pc[c] = "opening" /\ Settles(c, TRUE) /\ UNCHANGED <<arg, on, closing>>
    BY <1>1
  <2> QED BY <2>1, <2>2, SettlesLined
<1>5. /\ pc'[c] = "attached"
      /\ \A d \in Attacher : d # c =>
              \/ pc'[d] = pc[d]
              \/ pc[d] = "waitAttach" /\ pc'[d] \in {"attach", "failed"}
  BY <1>0, <1>1, SettlesIs
<1>6. /\ rt[c].st = "none" /\ seats[k] = None /\ c # None /\ pc[c] \in Opening
      /\ \A x \in Attacher : pc[x] # "attached"
  BY <1>0, <1>1, Kinds DEF Runtimes, Openers, Opening, Ready
<1>7. /\ rt'[c].st = "open" /\ rt'[c].id = id /\ rt'[c].thread = t /\ rt'[c].config = arg[c].config
      /\ \A q \in Attacher : q # c => rt'[q] = rt[q]
  <2>1. rt[c] \in Runtime
    BY <1>0
  <2> QED BY <1>0, <1>1, <2>1 DEF Runtime
<1>8. \A j \in Attacher : sessions'[j] = IF j = id THEN c ELSE sessions[j]
  BY <1>0, <1>1
<1>9. stray' = stray
  BY <1>1 DEF history
<1>10. Drains'
  <2>1. ASSUME NEW x \in Attacher, pc'[x] = "closingOld"
        PROVE  on[x] \in Attacher /\ rt'[on[x]].st = "closing"
    <3>1. pc[x] = "closingOld"
      BY <1>5, <2>1
    <3> QED BY <1>0, <1>6, <1>7, <3>1 DEF Drains
  <2>2. ASSUME NEW x \in Closer, pc'[x] = "closing"
        PROVE  on[x] \in Attacher /\ rt'[on[x]].st = "closing"
    BY <1>0, <1>4, <1>6, <1>7, <2>2 DEF Drains
  <2> QED BY <1>1, <2>1, <2>2 DEF Drains
<1>11. Runtimes'
  <2> SUFFICES ASSUME NEW q \in Attacher
               PROVE  /\ pc'[q] \in Before \cup Opening => rt'[q].st = "none"
                      /\ rt'[q].st # "none" =>
                           rt'[q].id \in Attacher /\ \A j \in Key : Asks(q, j)' => Asks(rt[q].id, j)'
                      /\ Live(q)' => rt'[q].thread # None
                      /\ rt'[q].st # "none" /\ rt'[q].thread # None =>
                           /\ rt'[q].thread \in Attacher
                           /\ \A j \in Key : Asks(q, j)' => Asks(rt[q].thread, j)'
    BY DEF Runtimes
  <2>1. CASE q = c
    <3>1. pc'[q] \notin Before \cup Opening
      BY <1>5, <2>1 DEF Before, Opening
    <3>2. \A j \in Key : Asks(id, j)' <=> Asks(rt[q].id, j)'
      BY <1>7, <2>1 DEF Asks
    <3>3. \A j \in Key : Asks(t, j)' <=> Asks(rt[q].thread, j)'
      BY <1>7, <2>1 DEF Asks
    <3>4. \A j \in Key : Asks(q, j)' => j = k /\ Asks(id, j)' /\ Asks(t, j)'
      BY <1>1, <1>2, <1>4, <2>1
    <3>5. t # None
      BY Kinds
    <3> QED BY <1>7, <2>1, <3>1, <3>2, <3>3, <3>4, <3>5
  <2>2. CASE q # c
    <3>1. rt'[q] = rt[q]
      BY <1>7, <2>2
    <3>2. pc'[q] \in Before \cup Opening => pc[q] \in Before \cup Opening
      BY <1>5, <2>2 DEF Before, Opening
    <3>3. /\ pc[q] \in Before \cup Opening => rt[q].st = "none"
          /\ rt[q].st # "none" => rt[q].id \in Attacher /\ \A j \in Key : Asks(q, j) => Asks(rt[q].id, j)
          /\ Live(q) => rt[q].thread # None
          /\ rt[q].st # "none" /\ rt[q].thread # None =>
               rt[q].thread \in Attacher /\ \A j \in Key : Asks(q, j) => Asks(rt[q].thread, j)
      BY <1>0 DEF Runtimes
    <3>4. /\ rt[q].id \in Attacher => \A j \in Key : Asks(rt[q].id, j)' <=> Asks(rt'[q].id, j)
          /\ rt[q].thread \in Attacher => \A j \in Key : Asks(rt[q].thread, j)' <=> Asks(rt'[q].thread, j)
      BY <1>4, <3>1
    <3>5. Live(q)' <=> Live(q)
      BY <3>1 DEF Live
    <3> QED BY <1>4, <3>1, <3>2, <3>3, <3>4, <3>5
  <2> QED BY <2>1, <2>2
<1>12. Held'
  <2> SUFFICES ASSUME NEW j \in Key, seats'[j] # None
               PROVE  /\ Asks(seats[j], j)' /\ rt'[seats'[j]].st # "none"
                      /\ sessions'[rt'[seats'[j]].id] = seats'[j]
                      /\ Live(seats[j])' \/ Over'
                      /\ rt'[seats'[j]].st = "closing" => Over' \/ Taken(j)'
    BY DEF Held
  <2>1. CASE j = k
    <3>1. seats'[j] = c
      BY <1>3, <2>1
    <3>2. Asks(seats[j], j)' <=> Asks(c, j)'
      BY <3>1 DEF Asks
    <3>3. Live(seats[j])'
      BY <1>7, <3>1 DEF Live
    <3>4. Asks(c, j)'
      BY <1>1, <1>4, <2>1
    <3>5. rt'[seats'[j]].st = "open" /\ sessions'[rt'[seats'[j]].id] = seats'[j]
      BY <1>7, <1>8, <3>1
    <3> QED BY <3>2, <3>3, <3>4, <3>5
  <2>2. CASE j # k
    <3>1. seats'[j] = seats[j] /\ seats[j] \in Attacher
      BY <1>0, <1>3, <2>2
    <3>2. /\ Asks(seats[j], j) /\ rt[seats[j]].st # "none" /\ sessions[rt[seats[j]].id] = seats[j]
          /\ Live(seats[j]) \/ Over
          /\ rt[seats[j]].st = "closing" => Over \/ Taken(j)
      BY <1>0, <3>1, Kinds DEF Held
    <3>3. rt'[seats[j]] = rt[seats[j]]
      BY <1>6, <1>7, <3>1, <3>2
    <3>4. rt[seats[j]].id \in Attacher /\ Asks(rt[seats[j]].id, j)
      BY <1>0, <3>1, <3>2 DEF Runtimes
    <3>5. rt[seats[j]].id # id
      BY <1>1, <2>2, <3>4 DEF Asks
    <3>6. Live(seats[j])' <=> Live(seats[j])
      BY <3>1, <3>3 DEF Live
    <3>7. Taken(j) => Taken(j)'
      BY <1>1, <1>4, <3>1 DEF Taken
    <3>8. Asks(seats[j], j)'
      BY <1>4, <3>1, <3>2
    <3> QED BY <1>4, <1>8, <3>1, <3>2, <3>3, <3>4, <3>5, <3>6, <3>7, <3>8
  <2> QED BY <2>1, <2>2
<1>13. Given'
  <2> SUFFICES ASSUME NEW x \in Attacher
               PROVE  /\ pc'[x] = "attached" =>
                           /\ seatOf'[x] \in Attacher /\ rt'[seatOf'[x]].st # "none"
                           /\ sessions'[rt'[seatOf'[x]].id] = seatOf'[x] /\ Suited(x, seatOf[x])'
                      /\ pc'[x] \in {"queued", "running"} =>
                           on'[x] \in Attacher /\ rt'[on'[x]].st # "none" /\ Suited(x, on[x])'
    BY DEF Given
  <2>1. CASE x = c
    <3>1. seatOf'[x] = c
      BY <1>0, <1>1, <2>1
    <3>2. Suited(x, seatOf[x])'
      BY <1>1, <1>7, <2>1, <3>1 DEF Suited
    <3> QED BY <1>5, <1>7, <1>8, <2>1, <3>1, <3>2
  <2>2. CASE x # c
    <3>1. pc'[x] # "attached" /\ (pc'[x] \in {"queued", "running"} => pc[x] = pc'[x])
      BY <1>5, <1>6, <2>2
    <3>2. pc[x] \in {"queued", "running"} => on[x] \in Attacher \ {c} /\ rt[on[x]].st # "none"
                                             /\ Suited(x, on[x])
      BY <1>0, <1>6 DEF Given
    <3> QED BY <1>1, <1>7, <3>1, <3>2 DEF Suited
  <2> QED BY <2>1, <2>2
<1>14. Sole'
  <2>1. ASSUME NEW q \in Attacher, q # c, Serving(q)'  PROVE Serving(q)
    BY <1>7, <1>9, <2>1 DEF Serving
  <2>2. ASSUME NEW q \in Attacher, q # c, Serving(q), Asks(q, k)  PROVE FALSE
    <3>1. seats[k] = q \/ Retired(k)
      BY <1>0, <2>2 DEF Sole
    <3> QED BY <1>1, <1>4, <1>6, <3>1, Kinds
  <2>3. ASSUME NEW r \in Attacher, NEW q \in Attacher, NEW j \in Key,
               Serving(r)', Serving(q)', Asks(r, j)', Asks(q, j)'
        PROVE  r = q
    <3>1. Asks(r, j) /\ Asks(q, j)
      BY <1>4, <2>3
    <3>2. CASE r = c \/ q = c
      BY <1>2, <2>1, <2>2, <2>3, <3>1, <3>2
    <3>3. CASE r # c /\ q # c
      BY <1>0, <2>1, <2>3, <3>1, <3>3 DEF Sole
    <3> QED BY <3>2, <3>3
  <2>4. ASSUME NEW q \in Attacher, NEW j \in Key, Serving(q)', Asks(q, j)'
        PROVE  seats'[j] = q \/ Retired(j)'
    <3>1. Asks(q, j)
      BY <1>4, <2>4
    <3>2. CASE q = c
      BY <1>2, <1>3, <3>1, <3>2
    <3>3. CASE q # c
      <4>1. Serving(q) /\ (seats[j] = q \/ Retired(j))
        BY <1>0, <2>1, <2>4, <3>1, <3>3 DEF Sole
      <4>2. j # k
        BY <2>2, <3>1, <3>3, <4>1
      <4> QED BY <1>3, <1>4, <4>1, <4>2
    <3> QED BY <3>2, <3>3
  <2> QED BY <2>3, <2>4 DEF Sole
<1>15. Records'
  <2> DEFINE r == [id |-> id, key |-> k, thread |-> t]
  <2>1. \A x : Good(x) => Good(x)'
    BY <1>4, GoodStays
  <2>2. r \in Record /\ Good(r)
    BY <1>1 DEF Record, Good
  <2>3. Distinct(file) /\ \A i \in 1..Len(file) : Good(file[i])
    BY <1>0 DEF Records, GoodFile, Distinct
  <2> HIDE DEF r
  <2>4. /\ Distinct(Put(file, r))
        /\ \A n \in 1..Len(Put(file, r)) :
             Put(file, r)[n] = r \/ \E m \in 1..Len(file) : Put(file, r)[n] = file[m]
    BY <1>0, <2>2, <2>3, PutIs
  <2>5. file' = Put(file, r)
    BY <1>1 DEF r
  <2>6. GoodFile(file)'
    <3>1. \A n \in 1..Len(file') : Good(file[n])'
      <4> TAKE n \in 1..Len(file')
      <4>1. Good(file'[n])
        BY <2>2, <2>3, <2>4, <2>5
      <4> QED BY <1>4, <4>1 DEF Good
    <3> QED BY <2>4, <2>5, <3>1 DEF GoodFile, Distinct
  <2> QED BY <1>0, <1>1, <1>4, <2>1, <2>6 DEF Records, GoodFile
<1> QED BY <1>4, <1>10, <1>11, <1>12, <1>13, <1>14, <1>15 DEF Bound

-----------------------------------------------------------------------------
(* The seat is replaced; codex_close; a call arrives.                      *)

LEMMA OpenKeeps ==
  ASSUME SeatsInv, NEW c \in Attacher, Open(c)
  PROVE  Lined' /\ Bound' /\ Records'
<1>0. /\ Asked /\ Openers /\ Waiters /\ Closings /\ Drains /\ Runtimes /\ Held /\ Given /\ Sole
      /\ Records /\ pc \in [Call -> PC] /\ seats \in [Key -> Attacher \cup {None}]
      /\ attaching \in [Key -> Attacher \cup {None}] /\ closing \in [Agent -> Closer \cup {None}]
      /\ rt \in [Attacher -> Runtime]
      /\ on \in [Attacher \cup Closer -> Attacher \cup Closer \cup {None}]
  BY DEF SeatsInv, Lined, Bound, TypeOK
<1> DEFINE k == arg[c].key
           R == ToClose(c)
<1>1. /\ pc[c] = "attach" /\ ~Pending(c) /\ ~Shutting(c) /\ ~Suits(c)
      /\ seats' = [seats EXCEPT ![k] = None]
      /\ attaching' = [attaching EXCEPT ![k] = c]
      /\ rt' = Shut(R, c \in Run /\ Managed)
      /\ IF R = {}
           THEN pc' = [pc EXCEPT ![c] = "reading"] /\ UNCHANGED on
           ELSE pc' = [pc EXCEPT ![c] = "closingOld"]
                /\ \E r \in R : on' = [on EXCEPT ![c] = r]
      /\ UNCHANGED <<arg, named, seatOf, adopt, closing, sessions, file, snap, stray>>
  BY DEF Open, history
<1>2. /\ k \in Key /\ Asks(c, k) /\ \A j : Asks(c, j) => j = k
      /\ c \in Run <=> k \in Agent
  BY <1>0, <1>1, Asking
<1>3. attaching[k] = None /\ (k \in Agent => closing[k] = None)
  BY <1>1, <1>2 DEF Pending, Shutting
<1>4. /\ R \subseteq Attacher
      /\ \A r : r \in R <=> r \in Attacher /\ seats[k] = r /\ Live(r)
  <2>1. CASE seats[k] = None
    BY <2>1, Kinds DEF ToClose
  <2>2. CASE seats[k] # None
    <3>1. seats[k] \in Attacher /\ RuntimeOf(seats[k]) = seats[k]
      BY <1>2, <2>2, HandleOf
    <3> QED BY <2>2, <3>1 DEF ToClose
  <2> QED BY <2>1, <2>2
<1>5. Closed(R)
  <2>1. TypeOK /\ (c \in Run /\ Managed) \in BOOLEAN
    BY DEF SeatsInv
  <2> QED BY <1>1, <2>1, ShutIs
<1> HIDE DEF k, R
<1>6. /\ \A x \in Call : x # c => pc'[x] = pc[x]
      /\ pc'[c] \in {"reading", "closingOld"}
      /\ \A x \in Attacher \cup Closer : x # c => on'[x] = on[x]
      /\ pc'[c] = "closingOld" => on'[c] \in R
      /\ \A j \in Key : seats'[j] = IF j = k THEN None ELSE seats[j]
      /\ \A j \in Key : attaching'[j] = IF j = k THEN c ELSE attaching[j]
  <2>1. c \in Call /\ c \in Attacher \cup Closer
    BY Kinds
  <2>2. CASE R = {}
    BY <1>0, <1>1, <2>1, <2>2
  <2>3. CASE R # {}
    BY <1>0, <1>1, <2>1, <2>3
  <2> QED BY <2>2, <2>3
<1>7. /\ \A x \in Attacher : x # c => pc'[x] = pc[x]
      /\ \A x \in Closer \cup Event \cup Shutdown : pc'[x] = pc[x] /\ x # c
      /\ \A x \in Closer : on'[x] = on[x]
      /\ pc[c] # "new" /\ pc[c] \notin Opening /\ pc'[c] \in Opening /\ c # None
  BY <1>1, <1>6, Kinds DEF Opening
<1>8. \A x \in Attacher : \A j : Asks(x, j)' <=> Asks(x, j)
  <2>1. \A x \in Attacher : pc'[x] = "new" <=> pc[x] = "new"
    BY <1>6, <1>7
  <2> QED BY <1>1, <2>1, AsksStay
<1>9. (Off => Off') /\ (Over => Over')
  BY <1>7 DEF Off, Over
<1>10. ASSUME NEW j \in Key, j # k, Late(j)  PROVE Late(j)'
  BY <1>6, <1>7, <1>8, <1>9, <1>10 DEF Late
<1>11. ASSUME NEW j \in Key, Retired(j)  PROVE Retired(j)' /\ j # k
  <2>1. j # k
    BY <1>1, <1>2, <1>11 DEF Retired, Before
  <2> QED BY <1>2, <1>7, <1>8, <1>9, <1>11, <2>1 DEF Retired
<1>12. \A x \in Attacher : ~(pc[x] \in Opening /\ Asks(x, k))
  <2> SUFFICES ASSUME NEW x \in Attacher, pc[x] \in Opening, Asks(x, k)  PROVE FALSE
    OBVIOUS
  <2>1. attaching[k] = x \/ Late(k)
    BY <1>0, <1>2 DEF Openers
  <2>2. ~Late(k)
    BY <1>1, <1>2 DEF Late
  <2> QED BY <1>3, <2>1, <2>2, Kinds
<1>13. Asked'
  BY <1>0, <1>1, <1>6, <1>7 DEF Asked, ArgsOf
<1>14. Openers'
  <2>1. ASSUME NEW j \in Key, attaching'[j] # None
        PROVE  pc'[attaching'[j]] \in Opening /\ Asks(attaching[j], j)'
    <3>1. CASE j = k
      <4>1. attaching'[j] = c
        BY <1>6, <3>1
      <4> QED BY <1>2, <1>7, <1>8, <3>1, <4>1 DEF Asks
    <3>2. CASE j # k
      <4>1. attaching'[j] = attaching[j] /\ attaching[j] \in Attacher
        BY <1>0, <1>6, <2>1, <3>2
      <4>2. pc[attaching[j]] \in Opening /\ Asks(attaching[j], j)
        BY <1>0, <2>1, <4>1 DEF Openers
      <4> QED BY <1>7, <1>8, <4>1, <4>2 DEF Asks
    <3> QED BY <3>1, <3>2
  <2>2. ASSUME NEW x \in Attacher, NEW j \in Key, pc'[x] \in Opening, Asks(x, j)'
        PROVE  /\ seats'[j] = None /\ (attaching'[j] = x \/ Late(j)')
               /\ \A d \in Attacher : pc'[d] \in Opening /\ Asks(d, j)' => d = x
    <3>1. CASE x = c
      <4>1. j = k
        BY <1>2, <1>8, <2>2, <3>1
      <4> QED BY <1>6, <1>7, <1>8, <1>12, <3>1, <4>1
    <3>2. CASE x # c
      <4>1. pc[x] \in Opening /\ Asks(x, j)
        BY <1>7, <1>8, <2>2, <3>2
      <4>2. j # k
        BY <1>12, <4>1
      <4>3. /\ seats[j] = None /\ (attaching[j] = x \/ Late(j))
            /\ \A d \in Attacher : pc[d] \in Opening /\ Asks(d, j) => d = x
        BY <1>0, <4>1 DEF Openers
      <4> QED BY <1>2, <1>6, <1>7, <1>8, <1>10, <4>2, <4>3
    <3> QED BY <3>1, <3>2
  <2> QED BY <2>1, <2>2 DEF Openers
<1>15. Waiters'
  <2>1. ASSUME NEW x \in Attacher, pc'[x] = "waitAttach"
        PROVE  /\ on'[x] \in Attacher /\ pc'[on'[x]] \in Opening
               /\ \A j \in Key : Asks(x, j)' => Asks(on[x], j)'
    <3>1. x # c /\ pc[x] = "waitAttach" /\ on'[x] = on[x]
      BY <1>6, <1>7, <2>1
    <3>2. /\ on[x] \in Attacher /\ pc[on[x]] \in Opening
          /\ \A j \in Key : Asks(x, j) => Asks(on[x], j)
      BY <1>0, <3>1 DEF Waiters
    <3> QED BY <1>7, <1>8, <3>1, <3>2 DEF Asks
  <2>2. ASSUME NEW x \in Attacher, pc'[x] = "waitClose"
        PROVE  x \in Run /\ on'[x] \in Closer /\ \A j \in Agent : Asks(x, j)' => closing'[j] = on'[x]
    <3>1. x # c /\ pc[x] = "waitClose" /\ on'[x] = on[x]
      BY <1>6, <1>7, <2>2
    <3> QED BY <1>0, <1>1, <1>8, <3>1 DEF Waiters
  <2> QED BY <2>1, <2>2 DEF Waiters
<1>16. Closings'
  <2> SUFFICES ASSUME NEW a \in Agent, closing'[a] # None
               PROVE  /\ pc'[closing'[a]] = "closing" /\ seats'[a] = None
                      /\ \A x \in Attacher : Asks(x, a)' => pc'[x] \notin Opening
    BY DEF Closings
  <2>1. closing'[a] = closing[a] /\ closing[a] \in Closer /\ a \in Key /\ a # k
    BY <1>0, <1>1, <1>3, Kinds
  <2>2. /\ pc[closing[a]] = "closing" /\ seats[a] = None
        /\ \A x \in Attacher : Asks(x, a) => pc[x] \notin Opening
    BY <1>0, <2>1, Kinds DEF Closings
  <2> QED BY <1>2, <1>6, <1>7, <1>8, <2>1, <2>2
<1>17. Drains'
  <2>1. ASSUME NEW x \in Attacher, pc'[x] = "closingOld"
        PROVE  on'[x] \in Attacher /\ rt'[on'[x]].st = "closing"
    <3>1. CASE x = c
      BY <1>4, <1>5, <1>6, <2>1, <3>1 DEF Closed, Live
    <3>2. CASE x # c
      BY <1>0, <1>5, <1>6, <1>7, <2>1, <3>2 DEF Drains, Closed
    <3> QED BY <3>1, <3>2
  <2>2. ASSUME NEW x \in Closer, pc'[x] = "closing"
        PROVE  on'[x] \in Attacher /\ rt'[on'[x]].st = "closing"
    BY <1>0, <1>5, <1>7, <2>2 DEF Drains, Closed
  <2> QED BY <2>1, <2>2 DEF Drains
<1>18. Runtimes'
  <2> SUFFICES ASSUME NEW r \in Attacher
               PROVE  /\ pc'[r] \in Before \cup Opening => rt'[r].st = "none"
                      /\ rt'[r].st # "none" =>
                           rt'[r].id \in Attacher /\ \A j \in Key : Asks(r, j)' => Asks(rt[r].id, j)'
                      /\ Live(r)' => rt'[r].thread # None
                      /\ rt'[r].st # "none" /\ rt'[r].thread # None =>
                           /\ rt'[r].thread \in Attacher
                           /\ \A j \in Key : Asks(r, j)' => Asks(rt[r].thread, j)'
    BY DEF Runtimes
  <2>1. /\ rt'[r].st = "none" <=> rt[r].st = "none"
        /\ Live(r)' <=> Live(r)
        /\ rt'[r].id = rt[r].id /\ rt'[r].thread = rt[r].thread
    BY <1>5 DEF Closed, Live
  <2>2. /\ pc[r] \in Before \cup Opening => rt[r].st = "none"
        /\ rt[r].st # "none" => rt[r].id \in Attacher /\ \A j \in Key : Asks(r, j) => Asks(rt[r].id, j)
        /\ Live(r) => rt[r].thread # None
        /\ rt[r].st # "none" /\ rt[r].thread # None =>
             rt[r].thread \in Attacher /\ \A j \in Key : Asks(r, j) => Asks(rt[r].thread, j)
    BY <1>0 DEF Runtimes
  <2>3. /\ rt[r].id \in Attacher => \A j \in Key : Asks(rt[r].id, j)' <=> Asks(rt'[r].id, j)
        /\ rt[r].thread \in Attacher => \A j \in Key : Asks(rt[r].thread, j)' <=> Asks(rt'[r].thread, j)
    BY <1>8, <2>1
  <2>4. pc'[r] \in Before \cup Opening => pc[r] \in Before \cup Opening
    BY <1>1, <1>7 DEF Before
  <2> QED BY <1>8, <2>1, <2>2, <2>3, <2>4
<1>19. Held'
  <2> SUFFICES ASSUME NEW j \in Key, seats'[j] # None
               PROVE  /\ Asks(seats[j], j)' /\ rt'[seats'[j]].st # "none"
                      /\ sessions'[rt'[seats'[j]].id] = seats'[j]
                      /\ Live(seats[j])' \/ Over'
                      /\ rt'[seats'[j]].st = "closing" => Over' \/ Taken(j)'
    BY DEF Held
  <2>1. j # k /\ seats'[j] = seats[j] /\ seats[j] \in Attacher
    BY <1>0, <1>6
  <2>2. /\ Asks(seats[j], j) /\ rt[seats[j]].st # "none" /\ sessions[rt[seats[j]].id] = seats[j]
        /\ Live(seats[j]) \/ Over
        /\ rt[seats[j]].st = "closing" => Over \/ Taken(j)
    BY <1>0, <2>1, Kinds DEF Held
  <2>3. seats[j] \notin R
    <3>1. seats[k] # seats[j]
      BY <1>2, <2>1, <2>2, HandleOf, Kinds
    <3> QED BY <1>4, <3>1
  <2>4. rt'[seats[j]].st = rt[seats[j]].st /\ rt'[seats[j]].id = rt[seats[j]].id
    BY <1>5, <2>1, <2>3 DEF Closed
  <2>5. Live(seats[j])' <=> Live(seats[j])
    BY <2>1, <2>4 DEF Live
  <2>6. Taken(j) => Taken(j)'
    BY <1>1, <1>7, <2>1 DEF Taken
  <2>7. Asks(seats[j], j)'
    BY <1>8, <2>1, <2>2
  <2> QED BY <1>1, <1>9, <2>1, <2>2, <2>4, <2>5, <2>6, <2>7
<1>20. Given'
  <2> SUFFICES ASSUME NEW x \in Attacher
               PROVE  /\ pc'[x] = "attached" =>
                           /\ seatOf'[x] \in Attacher /\ rt'[seatOf'[x]].st # "none"
                           /\ sessions'[rt'[seatOf'[x]].id] = seatOf'[x] /\ Suited(x, seatOf[x])'
                      /\ pc'[x] \in {"queued", "running"} =>
                           on'[x] \in Attacher /\ rt'[on'[x]].st # "none" /\ Suited(x, on[x])'
    BY DEF Given
  <2>1. CASE x = c
    BY <1>6, <2>1
  <2>2. CASE x # c
    <3>1. pc'[x] = pc[x] /\ on'[x] = on[x]
      BY <1>6, <1>7, <2>2
    <3> QED BY <1>0, <1>1, <1>5, <3>1 DEF Given, Suited, Closed
  <2> QED BY <2>1, <2>2
<1>21. Sole'
  <2>1. ASSUME NEW q \in Attacher, Serving(q)'  PROVE Serving(q) /\ q \notin R
    BY <1>1, <1>5, <2>1 DEF Serving, Closed
  <2>2. ASSUME NEW q \in Attacher, NEW j \in Key, Serving(q)', Asks(q, j)'
        PROVE  seats'[j] = q \/ Retired(j)'
    <3>1. Serving(q) /\ q \notin R /\ (seats[j] = q \/ Retired(j))
      BY <1>0, <1>8, <2>1, <2>2 DEF Sole
    <3>2. Live(q)
      BY <3>1 DEF Serving, Live
    <3> QED BY <1>4, <1>6, <1>11, <3>1, <3>2
  <2> QED BY <1>0, <1>8, <2>1, <2>2 DEF Sole
<1>22. Records'
  <2>1. \A x : Good(x) => Good(x)'
    BY <1>8, GoodStays
  <2> QED BY <1>0, <1>1, <1>8, <2>1 DEF Records, GoodFile
<1> QED BY <1>13, <1>14, <1>15, <1>16, <1>17, <1>18, <1>19, <1>20, <1>21, <1>22 DEF Lined, Bound


\* codex_close marks a seat of the provider as closing, and names the tool seat it drops.
LEMMA ClosesKeeps ==
  ASSUME SeatsInv, NEW d \in Closer, Closes(d)
  PROVE  Lined' /\ Bound' /\ Records'
<1>0. /\ Asked /\ Openers /\ Waiters /\ Closings /\ Drains /\ Runtimes /\ Held /\ Given /\ Sole
      /\ Records /\ pc \in [Call -> PC] /\ seats \in [Key -> Attacher \cup {None}]
      /\ attaching \in [Key -> Attacher \cup {None}] /\ closing \in [Agent -> Closer \cup {None}]
      /\ on \in [Attacher \cup Closer -> Attacher \cup Closer \cup {None}]
      /\ named \in [Closer -> Tool \cup {None}]
  BY DEF SeatsInv, Lined, Bound, TypeOK
<1>1. PICK k \in Tool, s \in Attacher, cleanup \in BOOLEAN :
        LET mine == {a \in Agent : seats[a] # None /\ rt[seats[a]].id = rt[s].id} IN
        /\ s \in Resolved(k)
        /\ named' = [named EXCEPT ![d] = k]
        /\ on' = [on EXCEPT ![d] = RuntimeOf(s)]
        /\ rt' = Shut({RuntimeOf(s)}, cleanup)
        /\ seats' = Dropped(mine)
        /\ closing' = [a \in Agent |-> IF a \in mine THEN d ELSE closing[a]]
  BY DEF Closes
<1> DEFINE mine == {a \in Agent : seats[a] # None /\ rt[seats[a]].id = rt[s].id}
<1>2. /\ pc[d] = "new" /\ \A e \in Shutdown : pc[e] = "new"
      /\ pc' = [pc EXCEPT ![d] = "closing"]
      /\ UNCHANGED <<arg, seatOf, adopt, attaching, sessions, file, snap, stray>>
  BY DEF Closes, Arriving, history
<1>3. /\ \A x \in Attacher : pc'[x] = pc[x] /\ on'[x] = on[x] /\ x # d
      /\ \A x \in Closer : x # d => pc'[x] = pc[x] /\ on'[x] = on[x] /\ named'[x] = named[x]
      /\ \A x \in Event \cup Shutdown : pc'[x] = pc[x]
      /\ pc'[d] = "closing" /\ named'[d] = k /\ d # None
  <2>1. d \in Call /\ d \in Attacher \cup Closer /\ \A x \in Attacher \cup Event \cup Shutdown : x # d
    BY Kinds
  <2> QED BY <1>0, <1>1, <1>2, <2>1, Kinds
<1>4. ~Off /\ ~Over
  BY <1>2 DEF Off, Over
<1>5. \A x \in Attacher : \A j : Asks(x, j)' <=> Asks(x, j)
  <2>1. \A x \in Attacher : pc'[x] = "new" <=> pc[x] = "new"
    BY <1>3
  <2> QED BY <1>2, <2>1, AsksStay
<1>6. PICK h \in Key : seats[h] = s /\ (h = k \/ (seats[k] = None /\ h \in Agent))
  BY <1>1, Kinds DEF Resolved
<1>7. /\ RuntimeOf(s) = s /\ Live(s) /\ rt[s].st # "none"
      /\ \A j \in Key : seats[j] = s => j = h
      /\ \A j \in Key : seats[j] # None /\ rt[seats[j]].id = rt[s].id => j = h
  <2>1. seats[h] # None
    BY <1>6, Kinds
  <2> QED BY <1>4, <1>6, <2>1, HandleOf
<1>8. /\ \A j \in Key : seats'[j] = IF j \in Agent /\ seats[j] = s THEN None ELSE seats[j]
      /\ \A a \in Agent : closing'[a] = IF seats[a] = s THEN d ELSE closing[a]
  <2>1. \A a \in Agent : a \in mine <=> seats[a] = s
    BY <1>6, <1>7, Kinds
  <2>2. mine \subseteq Agent
    OBVIOUS
  <2>3. seats' = [j \in Key |-> IF j \in mine THEN None ELSE seats[j]]
    BY <1>1 DEF Dropped
  <2>4. closing' = [a \in Agent |-> IF a \in mine THEN d ELSE closing[a]]
    BY <1>1
  <2> HIDE DEF mine
  <2> QED BY <2>1, <2>2, <2>3, <2>4
<1>9. Closed({s}) /\ on'[d] = s
  <2>1. TypeOK /\ rt' = Shut({s}, cleanup)
    BY <1>1, <1>7 DEF SeatsInv
  <2> QED BY <1>0, <1>1, <1>7, <2>1, ShutIs
<1>10. rt'[s].st = "closing"
  BY <1>7, <1>9 DEF Closed, Live
<1>11. \A j \in Key : Late(j) \/ Retired(j) => FALSE
  BY <1>4 DEF Late, Retired
<1>12. Asked'
  BY <1>0, <1>2, <1>3 DEF Asked, ArgsOf
<1>13. Openers'
  <2>1. ASSUME NEW j \in Key, attaching'[j] # None
        PROVE  pc'[attaching'[j]] \in Opening /\ Asks(attaching[j], j)'
    <3>1. attaching'[j] = attaching[j] /\ attaching[j] \in Attacher
      BY <1>0, <1>2, <2>1
    <3> QED BY <1>0, <1>3, <1>5, <2>1, <3>1 DEF Openers
  <2>2. ASSUME NEW x \in Attacher, NEW j \in Key, pc'[x] \in Opening, Asks(x, j)'
        PROVE  /\ seats'[j] = None /\ (attaching'[j] = x \/ Late(j)')
               /\ \A y \in Attacher : pc'[y] \in Opening /\ Asks(y, j)' => y = x
    <3>1. /\ pc[x] \in Opening /\ Asks(x, j)
          /\ seats[j] = None /\ attaching[j] = x
          /\ \A y \in Attacher : pc[y] \in Opening /\ Asks(y, j) => y = x
      BY <1>0, <1>3, <1>5, <1>11, <2>2 DEF Openers
    <3> QED BY <1>2, <1>3, <1>5, <1>8, <3>1
  <2> QED BY <2>1, <2>2 DEF Openers
<1>14. Waiters'
  <2>1. ASSUME NEW x \in Attacher, pc'[x] = "waitAttach"
        PROVE  /\ on'[x] \in Attacher /\ pc'[on'[x]] \in Opening
               /\ \A j \in Key : Asks(x, j)' => Asks(on[x], j)'
    BY <1>0, <1>3, <1>5, <2>1 DEF Waiters
  <2>2. ASSUME NEW x \in Attacher, pc'[x] = "waitClose"
        PROVE  x \in Run /\ on'[x] \in Closer /\ \A j \in Agent : Asks(x, j)' => closing'[j] = on'[x]
    <3>1. x \in Run /\ on[x] \in Closer /\ \A j \in Agent : Asks(x, j) => closing[j] = on[x]
      BY <1>0, <1>3, <2>2 DEF Waiters
    <3>2. ASSUME NEW j \in Agent, Asks(x, j)  PROVE closing'[j] = on[x]
      <4>1. closing[j] = on[x] /\ closing[j] # None
        BY <3>1, <3>2, Kinds
      <4>2. seats[j] = None
        BY <1>0, <4>1 DEF Closings
      <4>3. seats[j] # s
        BY <4>2, Kinds
      <4> QED BY <1>8, <4>1, <4>3
    <3> QED BY <1>3, <1>5, <3>1, <3>2
  <2> QED BY <2>1, <2>2 DEF Waiters
<1>15. Closings'
  <2> SUFFICES ASSUME NEW a \in Agent, closing'[a] # None
               PROVE  /\ pc'[closing'[a]] = "closing" /\ seats'[a] = None
                      /\ \A x \in Attacher : Asks(x, a)' => pc'[x] \notin Opening
    BY DEF Closings
  <2>0. a \in Key
    BY Kinds
  <2>1. CASE seats[a] = s
    <3>1. \A x \in Attacher : Asks(x, a) => pc[x] \notin Opening
      BY <1>0, <2>0, <2>1, Kinds DEF Openers
    <3> QED BY <1>3, <1>5, <1>8, <2>0, <2>1, <3>1
  <2>2. CASE seats[a] # s
    <3>1. closing'[a] = closing[a] /\ closing[a] \in Closer /\ seats'[a] = seats[a]
      BY <1>0, <1>8, <2>0, <2>2
    <3>2. /\ pc[closing[a]] = "closing" /\ seats[a] = None
          /\ \A x \in Attacher : Asks(x, a) => pc[x] \notin Opening
      BY <1>0, <3>1 DEF Closings
    <3> QED BY <1>2, <1>3, <1>5, <3>1, <3>2
  <2> QED BY <2>1, <2>2
<1>16. Drains'
  <2>1. ASSUME NEW x \in Attacher, rt[x].st = "closing"  PROVE rt'[x].st = "closing"
    BY <1>9, <2>1 DEF Closed
  <2>2. ASSUME NEW x \in Closer, pc'[x] = "closing"
        PROVE  on'[x] \in Attacher /\ rt'[on'[x]].st = "closing"
    BY <1>0, <1>3, <1>9, <1>10, <2>1, <2>2 DEF Drains
  <2> QED BY <1>0, <1>3, <2>1, <2>2 DEF Drains
<1>17. \A q \in Attacher :
         /\ rt'[q].id = rt[q].id /\ rt'[q].thread = rt[q].thread /\ rt'[q].config = rt[q].config
         /\ rt'[q].st = "none" <=> rt[q].st = "none"
         /\ Live(q)' <=> Live(q)
         /\ q # s => rt'[q].st = rt[q].st
  BY <1>9 DEF Closed, Live
<1>18. Runtimes'
  <2> SUFFICES ASSUME NEW q \in Attacher
               PROVE  /\ pc'[q] \in Before \cup Opening => rt'[q].st = "none"
                      /\ rt'[q].st # "none" =>
                           rt'[q].id \in Attacher /\ \A j \in Key : Asks(q, j)' => Asks(rt[q].id, j)'
                      /\ Live(q)' => rt'[q].thread # None
                      /\ rt'[q].st # "none" /\ rt'[q].thread # None =>
                           /\ rt'[q].thread \in Attacher
                           /\ \A j \in Key : Asks(q, j)' => Asks(rt[q].thread, j)'
    BY DEF Runtimes
  <2>2. /\ pc[q] \in Before \cup Opening => rt[q].st = "none"
        /\ rt[q].st # "none" => rt[q].id \in Attacher /\ \A j \in Key : Asks(q, j) => Asks(rt[q].id, j)
        /\ Live(q) => rt[q].thread # None
        /\ rt[q].st # "none" /\ rt[q].thread # None =>
             rt[q].thread \in Attacher /\ \A j \in Key : Asks(q, j) => Asks(rt[q].thread, j)
    BY <1>0 DEF Runtimes
  <2>3. /\ rt[q].id \in Attacher => \A j \in Key : Asks(rt[q].id, j)' <=> Asks(rt'[q].id, j)
        /\ rt[q].thread \in Attacher => \A j \in Key : Asks(rt[q].thread, j)' <=> Asks(rt'[q].thread, j)
    BY <1>5, <1>17
  <2> QED BY <1>3, <1>5, <1>17, <2>2, <2>3
<1>19. Held'
  <2> SUFFICES ASSUME NEW j \in Key, seats'[j] # None
               PROVE  /\ Asks(seats[j], j)' /\ rt'[seats'[j]].st # "none"
                      /\ sessions[rt'[seats'[j]].id] = seats'[j]
                      /\ Live(seats[j])' \/ Over'
                      /\ rt'[seats'[j]].st = "closing" => Over' \/ Taken(j)'
    BY <1>2 DEF Held
  <2>1. seats[j] \in Attacher /\ seats'[j] = seats[j] /\ ~(j \in Agent /\ seats[j] = s)
    BY <1>0, <1>8
  <2>2. /\ Asks(seats[j], j) /\ rt[seats[j]].st # "none" /\ sessions[rt[seats[j]].id] = seats[j]
        /\ Live(seats[j])
        /\ rt[seats[j]].st = "closing" => Taken(j)
    BY <1>0, <1>4, <2>1, Kinds DEF Held
  <2>3. /\ Asks(seats[j], j)' /\ rt'[seats'[j]].st # "none" /\ sessions[rt'[seats'[j]].id] = seats'[j]
    BY <1>5, <1>17, <2>1, <2>2
  <2>4. Live(seats[j])'
    <3>1. Live(seats[j])' <=> rt'[seats'[j]].st \in {"open", "closing"}
      BY <2>1 DEF Live
    <3>2. rt'[seats[j]].st \in {"open", "closing"}
      BY <1>9, <2>1, <2>2 DEF Live, Closed
    <3> QED BY <2>1, <3>1, <3>2
  <2>5. CASE seats[j] = s
    <3>1. j = k
      BY <1>6, <1>7, <2>1, <2>5
    <3> QED BY <1>3, <1>9, <2>1, <2>3, <2>4, <2>5, <3>1 DEF Taken
  <2>6. CASE seats[j] # s
    <3>1. Taken(j) => Taken(j)'
      <4>1. \A x \in Closer : pc[x] = "closing" => x # d
        BY <1>2
      <4> QED BY <1>3, <2>1, <4>1 DEF Taken
    <3> QED BY <1>17, <2>1, <2>2, <2>3, <2>4, <2>6, <3>1
  <2> QED BY <2>5, <2>6
<1>20. Given'
  <2> SUFFICES ASSUME NEW x \in Attacher
               PROVE  /\ pc'[x] = "attached" =>
                           /\ seatOf[x] \in Attacher /\ rt'[seatOf[x]].st # "none"
                           /\ sessions[rt'[seatOf[x]].id] = seatOf[x] /\ Suited(x, seatOf[x])'
                      /\ pc'[x] \in {"queued", "running"} =>
                           on'[x] \in Attacher /\ rt'[on'[x]].st # "none" /\ Suited(x, on[x])'
    BY <1>2 DEF Given
  <2>1. \A y \in Attacher : Suited(x, y) <=> x \in Review \/ rt'[y].config = arg'[x].config
    BY <1>2, <1>17 DEF Suited
  <2>2. pc'[x] = pc[x] /\ on'[x] = on[x]
    BY <1>3
  <2> QED BY <1>0, <1>2, <1>17, <2>1, <2>2 DEF Given, Suited
<1>21. Sole'
  <2>1. ASSUME NEW q \in Attacher, Serving(q)'  PROVE Serving(q) /\ q # s
    BY <1>2, <1>10, <1>17, <2>1 DEF Serving
  <2>2. ASSUME NEW q \in Attacher, NEW j \in Key, Serving(q)', Asks(q, j)'
        PROVE  seats'[j] = q
    BY <1>0, <1>5, <1>8, <1>11, <2>1, <2>2 DEF Sole
  <2> QED BY <1>0, <1>5, <2>1, <2>2 DEF Sole
<1>22. Records'
  <2>1. \A x : Good(x) => Good(x)'
    BY <1>5, GoodStays
  <2> QED BY <1>0, <1>2, <1>5, <2>1 DEF Records, GoodFile
<1> QED BY <1>12, <1>13, <1>14, <1>15, <1>16, <1>18, <1>19, <1>20, <1>21, <1>22 DEF Lined, Bound

LEMMA ArrivesKeeps ==
  ASSUME SeatsInv, NEW c \in Attacher, Arrives(c)
  PROVE  Lined' /\ Bound' /\ Records'
<1>0. /\ Asked /\ Openers /\ Waiters /\ Closings /\ Drains /\ Runtimes /\ Held /\ Given /\ Sole
      /\ Records /\ pc \in [Call -> PC] /\ seats \in [Key -> Attacher \cup {None}]
      /\ attaching \in [Key -> Attacher \cup {None}] /\ closing \in [Agent -> Closer \cup {None}]
      /\ arg \in [Attacher -> Arg \cup {None}]
  BY DEF SeatsInv, Lined, Bound, TypeOK
<1>1. /\ pc[c] = "new" /\ \A e \in Shutdown : pc[e] = "new"
      /\ pc' = [pc EXCEPT ![c] = "attach"]
      /\ \E a \in ArgsOf(c) : arg' = [arg EXCEPT ![c] = a]
      /\ UNCHANGED <<named, on, seatOf, adopt, seats, attaching, closing, rt, sessions, file, snap,
                     stray>>
  BY DEF Arrives, Arriving, maps, delegator
<1>2. /\ \A x \in Attacher : x # c => pc'[x] = pc[x] /\ arg'[x] = arg[x]
      /\ \A x \in Closer \cup Event \cup Shutdown : pc'[x] = pc[x] /\ x # c
      /\ pc'[c] = "attach" /\ arg'[c] \in ArgsOf(c)
  <2>1. c \in Call
    BY Kinds
  <2> QED BY <1>0, <1>1, <2>1, Kinds
<1>3. /\ \A x \in Attacher : \A k : x # c => (Asks(x, k)' <=> Asks(x, k))
      /\ \A k : ~Asks(c, k)
  BY <1>1, <1>2 DEF Asks
<1>4. \A x \in Attacher : \A k : Asks(x, k) => Asks(x, k)'
  BY <1>3
<1>5. ~Off /\ (Over => Over')
  BY <1>1, <1>2 DEF Off, Over
<1>6. /\ \A x \in Attacher : pc'[x] \in Opening <=> pc[x] \in Opening
      /\ \A x \in Attacher : pc[x] \in Opening => x # c
  BY <1>1, <1>2 DEF Opening
<1>7. Asked'
  <2>1. \A x \in Attacher : ArgsOf(x)' = ArgsOf(x)
    BY DEF ArgsOf
  <2> QED BY <1>0, <1>2, <2>1 DEF Asked
<1>8. Openers'
  <2>1. ASSUME NEW k \in Key, attaching'[k] # None
        PROVE  pc'[attaching'[k]] \in Opening /\ Asks(attaching[k], k)'
    <3>1. attaching'[k] = attaching[k] /\ attaching[k] \in Attacher
      BY <1>0, <1>1, <2>1
    <3>2. pc[attaching[k]] \in Opening /\ Asks(attaching[k], k)
      BY <1>0, <2>1, <3>1 DEF Openers
    <3> QED BY <1>3, <1>6, <3>1, <3>2
  <2>2. ASSUME NEW x \in Attacher, NEW k \in Key, pc'[x] \in Opening, Asks(x, k)'
        PROVE  /\ seats'[k] = None /\ (attaching'[k] = x \/ Late(k)')
               /\ \A d \in Attacher : pc'[d] \in Opening /\ Asks(d, k)' => d = x
    <3>1. /\ pc[x] \in Opening /\ Asks(x, k)
          /\ seats[k] = None /\ attaching[k] = x
          /\ \A d \in Attacher : pc[d] \in Opening /\ Asks(d, k) => d = x
      BY <1>0, <1>3, <1>5, <1>6, <2>2 DEF Openers, Late
    <3> QED BY <1>1, <1>3, <1>6, <3>1
  <2> QED BY <2>1, <2>2 DEF Openers
<1>9. Waiters'
  <2>1. ASSUME NEW x \in Attacher, pc'[x] = "waitAttach"
        PROVE  /\ on[x] \in Attacher /\ pc'[on[x]] \in Opening
               /\ \A k \in Key : Asks(x, k)' => Asks(on[x], k)'
    <3>1. x # c /\ pc[x] = "waitAttach"
      BY <1>2, <2>1
    <3>2. /\ on[x] \in Attacher /\ pc[on[x]] \in Opening
          /\ \A k \in Key : Asks(x, k) => Asks(on[x], k)
      BY <1>0, <3>1 DEF Waiters
    <3>3. \A k : Asks(on'[x], k) => Asks(on[x], k)'
      BY <1>1, <1>4, <3>2
    <3> QED BY <1>1, <1>3, <1>6, <3>1, <3>2, <3>3
  <2>2. ASSUME NEW x \in Attacher, pc'[x] = "waitClose"
        PROVE  x \in Run /\ on[x] \in Closer /\ \A k \in Agent : Asks(x, k)' => closing[k] = on[x]
    <3>1. x # c /\ pc[x] = "waitClose"
      BY <1>2, <2>2
    <3> QED BY <1>0, <1>3, <3>1 DEF Waiters
  <2> QED BY <1>1, <2>1, <2>2 DEF Waiters
<1>10. Closings'
  <2> SUFFICES ASSUME NEW a \in Agent, closing'[a] # None
               PROVE  /\ pc'[closing'[a]] = "closing" /\ seats'[a] = None
                      /\ \A x \in Attacher : Asks(x, a)' => pc'[x] \notin Opening
    BY DEF Closings
  <2>1. closing'[a] = closing[a] /\ closing[a] \in Closer
    BY <1>0, <1>1
  <2> QED BY <1>0, <1>1, <1>2, <1>3, <1>6, <2>1 DEF Closings
<1>11. Drains'
  <2>1. \A x \in Attacher \cup Closer : pc'[x] \in {"closingOld", "closing"} => pc'[x] = pc[x]
    BY <1>2
  <2> QED BY <1>0, <1>1, <2>1 DEF Drains
<1>12. Runtimes'
  <2> SUFFICES ASSUME NEW r \in Attacher
               PROVE  /\ pc'[r] \in Before \cup Opening => rt[r].st = "none"
                      /\ rt[r].st # "none" =>
                           rt[r].id \in Attacher /\ \A k \in Key : Asks(r, k)' => Asks(rt[r].id, k)'
                      /\ Live(r)' => rt[r].thread # None
                      /\ rt[r].st # "none" /\ rt[r].thread # None =>
                           /\ rt[r].thread \in Attacher
                           /\ \A k \in Key : Asks(r, k)' => Asks(rt[r].thread, k)'
    BY <1>1 DEF Runtimes
  <2>1. /\ pc[r] \in Before \cup Opening => rt[r].st = "none"
        /\ rt[r].st # "none" => rt[r].id \in Attacher /\ \A k \in Key : Asks(r, k) => Asks(rt[r].id, k)
        /\ Live(r) => rt[r].thread # None
        /\ rt[r].st # "none" /\ rt[r].thread # None =>
             rt[r].thread \in Attacher /\ \A k \in Key : Asks(r, k) => Asks(rt[r].thread, k)
    BY <1>0 DEF Runtimes
  <2>2. Live(r)' <=> Live(r)
    BY <1>1 DEF Live
  <2>3. CASE r = c
    <3>1. rt[r].st = "none"
      BY <1>1, <2>1, <2>3 DEF Before
    <3> QED BY <2>2, <3>1 DEF Live
  <2>4. CASE r # c
    <3>1. pc'[r] = pc[r] /\ \A k : Asks(r, k)' <=> Asks(r, k)
      BY <1>2, <1>3, <2>4
    <3>2. /\ rt[r].id \in Attacher => \A k \in Key : Asks(rt'[r].id, k) => Asks(rt[r].id, k)'
          /\ rt[r].thread \in Attacher =>
               \A k \in Key : Asks(rt'[r].thread, k) => Asks(rt[r].thread, k)'
      BY <1>1, <1>4
    <3> QED BY <1>1, <2>1, <2>2, <3>1, <3>2
  <2> QED BY <2>3, <2>4
<1>13. Held'
  <2> SUFFICES ASSUME NEW k \in Key, seats[k] # None
               PROVE  /\ Asks(seats[k], k)' /\ rt[seats[k]].st # "none"
                      /\ sessions[rt[seats[k]].id] = seats[k]
                      /\ Live(seats[k])' \/ Over'
                      /\ rt[seats[k]].st = "closing" => Over' \/ Taken(k)'
    BY <1>1 DEF Held
  <2>1. seats[k] \in Attacher
    BY <1>0
  <2>2. Taken(k) => Taken(k)'
    BY <1>1, <1>2 DEF Taken
  <2>3. Live(seats[k])' <=> Live(seats[k])
    BY <1>1 DEF Live
  <2>4. Asks(seats'[k], k) => Asks(seats[k], k)'
    BY <1>1, <1>4, <2>1
  <2> QED BY <1>0, <1>1, <1>5, <2>1, <2>2, <2>3, <2>4 DEF Held
<1>14. Given'
  <2> SUFFICES ASSUME NEW x \in Attacher
               PROVE  /\ pc'[x] = "attached" =>
                           /\ seatOf[x] \in Attacher /\ rt[seatOf[x]].st # "none"
                           /\ sessions[rt[seatOf[x]].id] = seatOf[x] /\ Suited(x, seatOf[x])'
                      /\ pc'[x] \in {"queued", "running"} =>
                           on[x] \in Attacher /\ rt[on[x]].st # "none" /\ Suited(x, on[x])'
    BY <1>1 DEF Given
  <2>1. pc'[x] \in {"attached", "queued", "running"} => x # c /\ pc'[x] = pc[x] /\ arg'[x] = arg[x]
    BY <1>2
  <2> QED BY <1>0, <1>1, <2>1 DEF Given, Suited
<1>15. Sole'
  <2>1. ASSUME NEW q \in Attacher, Serving(q)'  PROVE Serving(q) /\ q # c
    <3>1. rt[c].st = "none"
      BY <1>0, <1>1 DEF Runtimes, Before
    <3> QED BY <1>1, <2>1, <3>1 DEF Serving
  <2>2. ASSUME NEW q \in Attacher, NEW k \in Key, Serving(q)', Asks(q, k)'
        PROVE  seats'[k] = q
    BY <1>0, <1>1, <1>3, <1>5, <2>1, <2>2 DEF Sole, Retired
  <2> QED BY <1>0, <1>3, <2>1, <2>2 DEF Sole
<1>16. Records'
  <2>1. \A x : Good(x) => Good(x)'
    BY <1>4, GoodStays
  <2>2. \A x \in Attacher : adopt'[x] # None => Good(adopt[x])' /\ Asks(x, adopt'[x].key)
    BY <1>0, <1>1, <2>1 DEF Records
  <2>3. \A x \in Attacher : Asks(x, adopt'[x].key) => Asks(x, adopt[x].key)'
    BY <1>1, <1>4
  <2>4. GoodFile(file)'
    BY <1>0, <1>1, <2>1 DEF Records, GoodFile
  <2>5. \A o \in Other : snap'[o] # None => GoodFile(snap[o])'
    BY <1>0, <1>1, <2>1 DEF Records, GoodFile
  <2> QED BY <1>1, <2>2, <2>3, <2>4, <2>5 DEF Records
<1> QED BY <1>7, <1>8, <1>9, <1>10, <1>11, <1>12, <1>13, <1>14, <1>15, <1>16 DEF Lined, Bound

-----------------------------------------------------------------------------
(* A close settles.                                                        *)

\* The file keeps good records whatever good record is put in it.
LEMMA PutGood ==
  ASSUME NEW s \in Seq(Record), GoodFile(s), NEW x \in Record, Good(x)
  PROVE  GoodFile(Put(s, x))
<1>1. Distinct(s) /\ \A i \in 1..Len(s) : Good(s[i])
  BY DEF GoodFile, Distinct
<1>2. /\ Distinct(Put(s, x))
      /\ \A n \in 1..Len(Put(s, x)) : Put(s, x)[n] = x \/ \E m \in 1..Len(s) : Put(s, x)[n] = s[m]
  BY <1>1, PutIs
<1> QED BY <1>1, <1>2 DEF GoodFile, Distinct

LEMMA CloseFailsKeeps ==
  ASSUME SeatsInv, NEW r \in Attacher, CloseFails(r)
  PROVE  Lined' /\ Bound' /\ Records'
<1>0. /\ rt \in [Attacher -> Runtime] /\ Records /\ stray \subseteq Attacher
      /\ seats \in [Key -> Attacher \cup {None}]
  BY DEF SeatsInv, TypeOK
<1>1. /\ Drained(r) /\ Wake(r, FALSE) /\ rt' = [rt EXCEPT ![r].st = "open"]
      /\ stray' = stray \cup {r}
      /\ UNCHANGED <<arg, named, on, seatOf, adopt, sessions, file, snap>>
  BY DEF CloseFails
<1>2. /\ \A q \in Attacher : q # r => rt'[q] = rt[q]
      /\ rt'[r].id = rt[r].id /\ rt'[r].config = rt[r].config
      /\ rt'[r].thread = rt[r].thread /\ rt'[r].st = "open"
  <2>1. rt[r] \in Runtime
    BY <1>0
  <2> QED BY <1>0, <1>1, <2>1 DEF Runtime
<1>3. \A k \in Key : seats'[k] = seats[k]
  BY <1>1, WakeIs
<1>4. Lined' /\ Bound' /\ \A c \in Attacher : \A k : Asks(c, k)' <=> Asks(c, k)
  <2> HIDE DEF Lined, Bound, Asks
  <2>1. \A q \in Attacher : \A k \in Key : seats[k] = q /\ q # r /\ seats'[k] = None => q \in stray'
    BY <1>3, Kinds
  <2>2. FALSE \in BOOLEAN /\ stray \subseteq stray' /\ r \in stray'
    BY <1>1
  <2> QED BY <1>1, <1>2, <2>1, <2>2, WakeKeeps
<1>5. Records'
  <2>1. \A x : Good(x) => Good(x)'
    BY <1>4, GoodStays
  <2> QED BY <1>0, <1>1, <1>4, <2>1 DEF Records, GoodFile
<1> QED BY <1>4, <1>5

LEMMA CloseCompletesKeeps ==
  ASSUME SeatsInv, NEW r \in Attacher, CloseCompletes(r)
  PROVE  Lined' /\ Bound' /\ Records'
<1>0. /\ rt \in [Attacher -> Runtime] /\ Records /\ stray \subseteq Attacher /\ Asked /\ Runtimes
      /\ seats \in [Key -> Attacher \cup {None}] /\ file \in Seq(Record)
  BY DEF SeatsInv, TypeOK, Lined, Bound
<1>1. PICK kept :
        /\ kept \in {rt[r].thread, None}
        /\ rt' = [rt EXCEPT ![r].st = "closed", ![r].thread = kept]
        /\ file' = Put(file, [id |-> rt[r].id, key |-> arg[r].key, thread |-> kept])
  BY DEF CloseCompletes
<1>2. /\ Drained(r) /\ Wake(r, TRUE)
      /\ stray' = stray \cup {s \in Attacher : \E k \in Key :
                                seats[k] = s /\ seats'[k] = None /\ RuntimeOf(s) # r}
      /\ UNCHANGED <<arg, named, on, seatOf, adopt, sessions, snap>>
  BY DEF CloseCompletes
<1>3. /\ \A q \in Attacher : q # r => rt'[q] = rt[q]
      /\ rt'[r].id = rt[r].id /\ rt'[r].config = rt[r].config
      /\ rt'[r].thread \in {rt[r].thread, None} /\ rt'[r].st = "closed"
  <2>1. rt[r] \in Runtime
    BY <1>0
  <2> QED BY <1>0, <1>1, <2>1 DEF Runtime
<1>4. \A q \in Attacher : \A k \in Key : seats[k] = q /\ q # r /\ seats'[k] = None => q \in stray'
  <2> SUFFICES ASSUME NEW q \in Attacher, NEW k \in Key, seats[k] = q, q # r, seats'[k] = None
               PROVE  q \in stray'
    OBVIOUS
  <2>1. seats[k] # None
    BY Kinds
  <2>2. RuntimeOf(q) = q
    BY <2>1, HandleOf
  <2> QED BY <1>2, <2>2
<1>5. Lined' /\ Bound' /\ \A c \in Attacher : \A k : Asks(c, k)' <=> Asks(c, k)
  <2>1. TRUE \in BOOLEAN /\ stray \subseteq stray'
    BY <1>2
  <2> QED BY <1>2, <1>3, <1>4, <2>1, WakeKeeps
<1>6. Records'
  <2> DEFINE x == [id |-> rt[r].id, key |-> arg[r].key, thread |-> kept]
  <2>1. /\ rt[r].st = "closing" /\ rt[r].st # "none"
    BY <1>2 DEF Drained
  <2>2. /\ rt[r].id \in Attacher /\ \A k \in Key : Asks(r, k) => Asks(rt[r].id, k)
        /\ rt[r].thread # None =>
             rt[r].thread \in Attacher /\ \A k \in Key : Asks(r, k) => Asks(rt[r].thread, k)
        /\ pc[r] # "new"
    BY <1>0, <2>1 DEF Runtimes, Before
  <2>3. arg[r].key \in Key /\ Asks(r, arg[r].key)
    BY <1>0, <2>2, Asking
  <2>4. x \in Record /\ Good(x)
    BY <1>1, <2>2, <2>3 DEF Good, Record
  <2>5. GoodFile(file) /\ file' = Put(file, x)
    BY <1>0, <1>1 DEF Records
  <2> HIDE DEF x
  <2>6. GoodFile(Put(file, x))
    BY <1>0, <2>4, <2>5, PutGood
  <2>7. \A y : Good(y) => Good(y)'
    BY <1>5, GoodStays
  <2>8. GoodFile(file)'
    <3>1. \A i \in 1..Len(file') : Good(file'[i])
      BY <2>5, <2>6 DEF GoodFile
    <3>2. \A i \in 1..Len(file') : Good(file[i])'
      BY <2>7, <3>1
    <3> QED BY <2>5, <2>6, <3>2 DEF GoodFile
  <2>9. \A o \in Other : snap'[o] # None => GoodFile(snap[o])'
    BY <1>0, <1>2, <2>7 DEF Records, GoodFile
  <2>10. \A c \in Attacher : adopt'[c] # None => Good(adopt[c])' /\ Asks(c, adopt[c].key)'
    BY <1>0, <1>2, <1>5, <2>7 DEF Records
  <2> QED BY <2>8, <2>9, <2>10 DEF Records
<1> QED BY <1>5, <1>6

-----------------------------------------------------------------------------
(* Steps of one call, or of one event.                                     *)

LEMMA PassesOn ==
  ASSUME SeatsInv, NEW c \in Attacher, NEW p \in PC, p # "new", pc' = [pc EXCEPT ![c] = p],
         UNCHANGED <<arg, named, adopt, seats, attaching, closing, rt, sessions, file, snap, stray>>,
         on' = on \/ \E x : on' = [on EXCEPT ![c] = x],
         seatOf' = seatOf \/ \E x : seatOf' = [seatOf EXCEPT ![c] = x],
         Needs(c, pc[c], p, on'[c], seatOf'[c])
  PROVE  Lined' /\ Bound' /\ Records'
<1>0. /\ Records /\ on \in [Attacher \cup Closer -> Attacher \cup Closer \cup {None}]
      /\ seatOf \in [Attacher -> Attacher \cup {None}]
      /\ c \in Call /\ c \notin Closer /\ c \notin Event \cup Shutdown
  BY Kinds DEF SeatsInv, TypeOK
<1>1. \A x \in Attacher : adopt'[x] # None => Good(adopt'[x]) /\ Asks(x, adopt'[x].key)
  BY <1>0 DEF Records
<1>2. /\ \A x \in Attacher \cup Closer : x # c => on'[x] = on[x]
      /\ \A x \in Attacher : x # c => seatOf'[x] = seatOf[x]
  BY <1>0
<1> HIDE DEF Needs, SeatsInv, Lined, Bound, Records
<1> QED BY <1>0, <1>1, <1>2, Passes

LEMMA AwaitsKeep ==
  ASSUME SeatsInv, NEW c \in Attacher, AwaitAttaching(c) \/ AwaitClosing(c)
  PROVE  Lined' /\ Bound' /\ Records'
<1>0. /\ Asked /\ Openers /\ on \in [Attacher \cup Closer -> Attacher \cup Closer \cup {None}]
      /\ attaching \in [Key -> Attacher \cup {None}] /\ closing \in [Agent -> Closer \cup {None}]
  BY DEF SeatsInv, Lined, TypeOK
<1> DEFINE k == arg[c].key
<1>1. pc[c] = "attach" /\ c \in Attacher \cup Closer
  BY DEF AwaitAttaching, AwaitClosing
<1>2. k \in Key /\ (\A j : Asks(c, j) => j = k) /\ (c \in Run => k \in Agent)
  BY <1>0, <1>1, Asking
<1>3. CASE AwaitAttaching(c)
  <2>1. attaching[k] # None
    BY <1>3 DEF AwaitAttaching, Pending
  <2>2. /\ pc' = [pc EXCEPT ![c] = "waitAttach"] /\ on' = [on EXCEPT ![c] = attaching[k]]
        /\ UNCHANGED <<arg, named, seatOf, adopt, seats, attaching, closing, rt, sessions, file, snap,
                       stray>>
    BY <1>3 DEF AwaitAttaching, Await, maps, delegator, history
  <2>3. /\ attaching[k] \in Attacher /\ pc[attaching[k]] \in Opening /\ Asks(attaching[k], k)
        /\ on'[c] = attaching[k]
    BY <1>0, <1>1, <1>2, <2>1, <2>2 DEF Openers
  <2>4. Needs(c, pc[c], "waitAttach", on'[c], seatOf'[c])
    <3>1. \A j \in Key : Asks(c, j) => Asks(on'[c], j)
      BY <1>2, <2>3
    <3> QED BY <1>1, <2>3, <3>1 DEF Needs
  <2>5. "waitAttach" \in PC
    BY DEF PC
  <2> QED BY <2>2, <2>4, <2>5, PassesOn
<1>4. CASE AwaitClosing(c)
  <2>1. c \in Run /\ closing[k] # None
    BY <1>4 DEF AwaitClosing, Shutting
  <2>2. /\ pc' = [pc EXCEPT ![c] = "waitClose"] /\ on' = [on EXCEPT ![c] = closing[k]]
        /\ UNCHANGED <<arg, named, seatOf, adopt, seats, attaching, closing, rt, sessions, file, snap,
                       stray>>
    BY <1>4 DEF AwaitClosing, Await, maps, delegator, history
  <2>3. closing[k] \in Closer /\ on'[c] = closing[k]
    BY <1>0, <1>1, <1>2, <2>1, <2>2
  <2>4. Needs(c, pc[c], "waitClose", on'[c], seatOf'[c])
    <3>1. \A j \in Agent : Asks(c, j) => closing[j] = on'[c]
      BY <1>2, <2>3
    <3> QED BY <1>1, <2>1, <2>3, <3>1 DEF Needs
  <2>5. "waitClose" \in PC
    BY DEF PC
  <2> QED BY <2>2, <2>4, <2>5, PassesOn
<1> QED BY <1>3, <1>4

LEMMA ReuseKeeps ==
  ASSUME SeatsInv, NEW c \in Attacher, Reuse(c)
  PROVE  Lined' /\ Bound' /\ Records'
<1>0. Asked /\ Held /\ seatOf \in [Attacher -> Attacher \cup {None}]
  BY DEF SeatsInv, Lined, Bound, TypeOK
<1> DEFINE k == arg[c].key
<1>1. /\ pc[c] = "attach" /\ seats[k] # None
      /\ pc' = [pc EXCEPT ![c] = "attached"] /\ seatOf' = [seatOf EXCEPT ![c] = seats[k]]
      /\ UNCHANGED <<arg, named, on, adopt, seats, attaching, closing, rt, sessions, file, snap, stray>>
  BY DEF Reuse, Suits, maps, delegator, history
<1>2. k \in Key
  BY <1>0, <1>1, Asking
<1>3. /\ seats[k] \in Attacher /\ rt[seats[k]].st # "none" /\ sessions[rt[seats[k]].id] = seats[k]
      /\ seatOf'[c] = seats[k]
  BY <1>0, <1>1, <1>2, HandleOf DEF Held
<1>4. Suited(c, seats[k])
  BY DEF Reuse, Suits, Suited
<1>5. Needs(c, pc[c], "attached", on'[c], seatOf'[c])
  BY <1>1, <1>3, <1>4 DEF Needs
<1>6. "attached" \in PC
  BY DEF PC, Ready
<1> QED BY <1>1, <1>5, <1>6, PassesOn

\* resume() finds a record of the seat's own.
LEMMA StoredIs ==
  ASSUME SeatsInv, NEW k \in Key, NEW r \in Stored(k), r # None
  PROVE  r \in Record /\ Good(r) /\ r.key = k
<1>1. file \in Seq(Record) /\ GoodFile(file)
  BY DEF SeatsInv, TypeOK, Records
<1>2. PICK i \in 1..Len(file) : r = file[i] /\ file[i].key = k
  BY DEF Stored
<1> QED BY <1>1, <1>2, ElementOfSeq DEF GoodFile

LEMMA ReadsKeeps ==
  ASSUME SeatsInv, NEW c \in Attacher, ReadsAttachment(c)
  PROVE  Lined' /\ Bound' /\ Records'
<1>0. Asked /\ Records /\ adopt \in [Attacher -> Record \cup {None}]
  BY DEF SeatsInv, Lined, TypeOK
<1> DEFINE k == arg[c].key
<1>1. /\ pc[c] = "reading" /\ pc' = [pc EXCEPT ![c] = "opening"]
      /\ UNCHANGED <<arg, named, on, seatOf, seats, attaching, closing, rt, sessions, file, snap, stray>>
  BY DEF ReadsAttachment, maps, delegator, history
<1>2. PICK r \in Stored(k) : adopt' = [adopt EXCEPT ![c] = r]
  BY DEF ReadsAttachment
<1>3. k \in Key /\ Asks(c, k)
  BY <1>0, <1>1, Asking
<1>4. \A x \in Attacher : adopt'[x] # None => Good(adopt'[x]) /\ Asks(x, adopt'[x].key)
  <2> SUFFICES ASSUME NEW x \in Attacher, adopt'[x] # None
               PROVE  Good(adopt'[x]) /\ Asks(x, adopt'[x].key)
    OBVIOUS
  <2>1. CASE x = c
    <3>1. adopt'[x] = r /\ r # None
      BY <1>0, <1>2, <2>1
    <3>2. Good(r) /\ r.key = k
      BY <1>3, <3>1, StoredIs
    <3> QED BY <1>3, <2>1, <3>1, <3>2
  <2>2. CASE x # c
    <3>1. adopt'[x] = adopt[x]
      BY <1>0, <1>2, <2>2
    <3>2. Good(adopt[x]) /\ Asks(x, adopt[x].key)
      BY <1>0, <3>1 DEF Records
    <3> QED BY <3>1, <3>2
  <2> QED BY <2>1, <2>2
<1>5. Needs(c, pc[c], "opening", on'[c], seatOf'[c])
  BY <1>1 DEF Needs
<1>6. "opening" \in PC /\ c \in Call /\ c \notin Closer /\ c \notin Event \cup Shutdown
  BY Kinds DEF PC, Opening
<1>7. /\ \A x \in Attacher \cup Closer : x # c => on'[x] = on[x]
      /\ \A x \in Attacher : x # c => seatOf'[x] = seatOf[x]
  BY <1>1
<1> HIDE DEF Needs, SeatsInv, Lined, Bound, Records, k
<1> QED BY <1>1, <1>4, <1>5, <1>6, <1>7, Passes

LEMMA TurnsKeep ==
  ASSUME SeatsInv, NEW c \in Attacher, Turns(c)
  PROVE  Lined' /\ Bound' /\ Records'
<1>0. Given /\ on \in [Attacher \cup Closer -> Attacher \cup Closer \cup {None}]
  BY DEF SeatsInv, Bound, TypeOK
<1>1. UNCHANGED <<arg, named, seatOf, adopt, seats, attaching, closing, rt, sessions, file, snap, stray>>
  BY DEF Turns, Replays, Calls, TurnStarts, TurnRefused, TurnCompletes, TurnFails, maps, delegator,
         history
<1>2. CASE Calls(c)
  <2>1. /\ pc[c] = "attached" /\ pc' = [pc EXCEPT ![c] = "queued"]
        /\ on' = [on EXCEPT ![c] = RuntimeOf(seatOf[c])]
    BY <1>2 DEF Calls
  <2>2. /\ seatOf[c] \in Attacher /\ rt[seatOf[c]].st # "none" /\ Suited(c, seatOf[c])
        /\ on'[c] = seatOf[c]
    BY <1>0, <2>1 DEF Given, RuntimeOf
  <2>3. Needs(c, pc[c], "queued", on'[c], seatOf'[c])
    BY <2>1, <2>2 DEF Needs
  <2>4. "queued" \in PC
    BY DEF PC
  <2> QED BY <1>1, <2>1, <2>3, <2>4, PassesOn
<1>3. CASE TurnStarts(c)
  <2>1. pc[c] = "queued" /\ pc' = [pc EXCEPT ![c] = "running"] /\ on' = on
    BY <1>3 DEF TurnStarts
  <2>2. on'[c] \in Attacher /\ rt[on'[c]].st # "none" /\ Suited(c, on'[c])
    BY <1>0, <2>1 DEF Given
  <2>3. Needs(c, pc[c], "running", on'[c], seatOf'[c])
    BY <2>1, <2>2 DEF Needs
  <2>4. "running" \in PC
    BY DEF PC
  <2> QED BY <1>1, <2>1, <2>3, <2>4, PassesOn
<1>4. CASE Replays(c) \/ TurnRefused(c) \/ TurnCompletes(c) \/ TurnFails(c)
  <2>1. PICK p \in {"done", "failed"} :
          pc[c] \in {"attached", "queued", "running"} /\ pc' = [pc EXCEPT ![c] = p] /\ on' = on
    BY <1>4 DEF Replays, TurnRefused, TurnCompletes, TurnFails
  <2>2. Needs(c, pc[c], p, on'[c], seatOf'[c])
    BY <2>1 DEF Needs
  <2>3. p \in PC /\ p # "new"
    BY DEF PC
  <2> QED BY <1>1, <2>1, <2>2, <2>3, PassesOn
<1> QED BY <1>2, <1>3, <1>4 DEF Turns

\* Steps of codex_close, session.deleted and dispose() that touch no seat.
LEMMA EndsKeep ==
  ASSUME SeatsInv, NEW e \in Ender,
         \/ e \in Closer /\ NothingToClose(e)
         \/ e \in Event /\ (Deleted(e) \/ DeletedDone(e))
         \/ e \in Shutdown /\ (Disposes(e) \/ DisposeDone(e))
  PROVE  Lined' /\ Bound' /\ Records'
<1>0. Records
  BY DEF SeatsInv
<1>1. UNCHANGED <<arg, named, on, seatOf, adopt, seats, attaching, closing, rt, sessions, file, snap,
                  stray>>
  BY DEF NothingToClose, Deleted, DeletedDone, Disposes, DisposeDone, maps, delegator, history
<1>2. PICK p \in {"failed", "eventTools", "disposeTools", "done"} :
        /\ pc' = [pc EXCEPT ![e] = p]
        /\ e \in Closer => pc[e] = "new" /\ p = "failed"
        /\ pc[e] \in {"closeAll", "done"} => p \in {"closeAll", "done"}
  BY Kinds DEF NothingToClose, Deleted, DeletedDone, Disposes, DisposeDone, Moves, Arriving
<1>3. \A x \in Attacher : adopt'[x] # None => Good(adopt'[x]) /\ Asks(x, adopt'[x].key)
  BY <1>0, <1>1 DEF Records
<1>4. e \in Call /\ e \notin Attacher /\ p \in PC /\ p # "new"
  BY SeatsAssumption DEF PC, Settling, Call
<1>5. /\ \A x \in Attacher \cup Closer : x # e => on'[x] = on[x]
      /\ \A x \in Attacher : x # e => seatOf'[x] = seatOf[x]
  BY <1>1
<1> HIDE DEF Needs, SeatsInv, Lined, Bound, Records
<1> QED BY <1>1, <1>2, <1>3, <1>4, <1>5, Passes

\* A seat in the map has no opener, and no call waits for it to open.
LEMMA SettledSeat ==
  ASSUME SeatsInv, NEW k \in Tool, seats[k] # None, NEW c \in Attacher, Asks(c, k)
  PROVE  pc[c] \notin {"waitAttach", "waitClose"} \cup Opening
<1>0. Asked /\ Openers /\ Waiters /\ k \in Key /\ k \notin Agent
  BY Kinds DEF SeatsInv, Lined
<1>1. pc[c] \notin Opening
  BY <1>0 DEF Openers
<1>2. pc[c] # "waitAttach"
  <2> SUFFICES ASSUME pc[c] = "waitAttach"  PROVE FALSE
    OBVIOUS
  <2>1. on[c] \in Attacher /\ pc[on[c]] \in Opening /\ Asks(on[c], k)
    BY <1>0 DEF Waiters
  <2> QED BY <1>0, <2>1 DEF Openers
<1>3. pc[c] # "waitClose"
  <2> SUFFICES ASSUME pc[c] = "waitClose"  PROVE FALSE
    OBVIOUS
  <2>1. c \in Run /\ pc[c] # "new"
    BY <1>0 DEF Waiters
  <2>2. arg[c].key \in Agent /\ k = arg[c].key
    BY <1>0, <2>1, Asking
  <2> QED BY <1>0, <2>2
<1> QED BY <1>1, <1>2, <1>3

\* Closing the runtimes of the seats of K closes those seats, and no other.
LEMMA CutsClean ==
  ASSUME SeatsInv, NEW K \in SUBSET Key
  PROVE  /\ RuntimesOf(K) \in SUBSET Attacher
         /\ \A k \in Key \ K : seats[k] # None => seats[k] \notin RuntimesOf(K)
         /\ \A k \in K : seats[k] # None /\ rt[seats[k]].st = "open" => seats[k] \in RuntimesOf(K)
<1>1. /\ RuntimesOf(K) \in SUBSET Attacher
      /\ \A r : r \in RuntimesOf(K) <=> r # None /\ Live(r) /\ \E k \in K : seats[k] = r
  BY RuntimesAre
<1>2. \A k \in Key : seats[k] # None => \A j \in Key : seats[j] = seats[k] => j = k
  BY HandleOf
<1> QED BY <1>1, <1>2 DEF Live

LEMMA DeletesKeep ==
  ASSUME SeatsInv, NEW e \in Event, DeletesTools(e) \/ DeletesProvider(e)
  PROVE  Lined' /\ Bound' /\ Records'
<1>0. TypeOK /\ FALSE \in BOOLEAN /\ e \in Event \cup Shutdown
  BY DEF SeatsInv
<1>1. PICK K \in {Tool, Agent}, p \in {"eventProvider", "eventSeats"} :
        /\ pc' = [pc EXCEPT ![e] = p] /\ pc[e] \notin {"closeAll", "done"}
        /\ rt' = Shut(RuntimesOf(K), FALSE)
        /\ seats' = [k \in Key |-> IF k \in K THEN None ELSE seats[k]]
        /\ UNCHANGED <<arg, named, on, seatOf, adopt, attaching, closing, sessions, file, snap, stray>>
  BY DEF DeletesTools, DeletesProvider, Moves, history
<1>2. K \in SUBSET Key /\ p \in PC /\ p # "new"
  BY Kinds DEF PC, Settling, Ending
<1>3. /\ RuntimesOf(K) \in SUBSET Attacher
      /\ \A k \in Key \ K : seats[k] # None => seats[k] \notin RuntimesOf(K)
      /\ \A k \in K : seats[k] # None /\ rt[seats[k]].st = "open" => seats[k] \in RuntimesOf(K)
  BY <1>2, CutsClean
<1>4. Closed(RuntimesOf(K))
  BY <1>0, <1>1, ShutIs
<1>5. \A k \in Key : seats'[k] = IF k \in K THEN None ELSE seats[k]
  BY <1>1
<1> DEFINE R == RuntimesOf(K)
<1> HIDE DEF R, SeatsInv, Lined, Bound, Records, Closed
<1>6. /\ R \in SUBSET Attacher /\ Closed(R)
      /\ \A k \in Key \ K : seats[k] # None /\ seats[k] \in R => Over'
      /\ \A k \in K : seats[k] # None /\ rt[seats[k]].st = "open" => seats[k] \in R \/ Retired(k)'
  BY <1>3, <1>4 DEF R
<1> QED BY <1>0, <1>1, <1>2, <1>5, <1>6, Clears

LEMMA DisposesToolsKeeps ==
  ASSUME SeatsInv, NEW e \in Shutdown, DisposesTools(e)
  PROVE  Lined' /\ Bound' /\ Records'
<1>0. e \in Event \cup Shutdown /\ e \in Call /\ pc \in [Call -> PC]
  BY Kinds DEF SeatsInv, TypeOK
<1>1. /\ pc' = [pc EXCEPT ![e] = "disposeProvider"] /\ pc[e] \notin {"closeAll", "done"}
      /\ \A c \in Attacher : pc[c] # "attach"
      /\ seats' = [k \in Key |-> IF k \in Tool THEN None ELSE seats[k]]
      /\ attaching' = [k \in Key |-> IF k \in Tool THEN None ELSE attaching[k]]
      /\ UNCHANGED <<arg, named, on, seatOf, adopt, closing, rt, sessions, file, snap, stray>>
  BY DEF DisposesTools, Moves, Woken, delegator, history
<1>2. "disposeProvider" \in PC /\ Tool \in SUBSET Key /\ {} \in SUBSET Attacher
  BY Kinds DEF PC, Settling
<1>3. Closed({})
  BY <1>1 DEF Closed
<1>4. /\ \A k \in Key : seats'[k] = IF k \in Tool THEN None ELSE seats[k]
      /\ \A k \in Key : attaching'[k] = IF k \in Tool THEN None ELSE attaching[k]
  BY <1>1
<1>5. ASSUME NEW k \in Tool, seats[k] # None  PROVE Retired(k)'
  <2>1. /\ \A c \in Attacher : pc'[c] = pc[c]
        /\ pc'[e] # "new"
    BY <1>0, <1>1, Kinds
  <2>2. ASSUME NEW c \in Attacher, Asks(c, k)'  PROVE pc'[c] \notin Before \cup Opening
    <3>1. Asks(c, k) /\ pc[c] # "new"
      BY <1>1, <2>1, <2>2 DEF Asks
    <3>2. pc[c] \notin {"waitAttach", "waitClose"} \cup Opening
      BY <1>5, <3>1, SettledSeat
    <3> QED BY <1>1, <2>1, <3>1, <3>2 DEF Before
  <2> QED BY <2>1, <2>2 DEF Retired, Off
<1> HIDE DEF SeatsInv, Lined, Bound, Records, Closed
<1> QED BY <1>0, <1>1, <1>2, <1>3, <1>4, <1>5, Clears

LEMMA DisposesProviderKeeps ==
  ASSUME SeatsInv, NEW e \in Shutdown, DisposesProvider(e)
  PROVE  Lined' /\ Bound' /\ Records'
<1>0. TypeOK /\ Managed \in BOOLEAN /\ e \in Event \cup Shutdown
  BY SeatsAssumption DEF SeatsInv
<1>1. /\ pc' = [pc EXCEPT ![e] = "disposeSeats"] /\ pc[e] \notin {"closeAll", "done"}
      /\ \A c \in Attacher : pc[c] # "attach"
      /\ rt' = Shut(RuntimesOf(Agent), Managed)
      /\ seats' = [k \in Key |-> IF k \in Agent THEN None ELSE seats[k]]
      /\ attaching' = [k \in Key |-> IF k \in Agent THEN None ELSE attaching[k]]
      /\ UNCHANGED <<arg, named, on, seatOf, adopt, closing, sessions, file, snap, stray>>
  BY DEF DisposesProvider, Moves, Woken, history
<1>2. "disposeSeats" \in PC /\ Agent \in SUBSET Key
  BY Kinds DEF PC, Ending
<1>3. /\ RuntimesOf(Agent) \in SUBSET Attacher
      /\ \A k \in Key \ Agent : seats[k] # None => seats[k] \notin RuntimesOf(Agent)
      /\ \A k \in Agent : seats[k] # None /\ rt[seats[k]].st = "open" => seats[k] \in RuntimesOf(Agent)
  BY <1>2, CutsClean
<1>4. Closed(RuntimesOf(Agent))
  BY <1>0, <1>1, ShutIs
<1>5. /\ \A k \in Key : seats'[k] = IF k \in Agent THEN None ELSE seats[k]
      /\ \A k \in Key : attaching'[k] = IF k \in Agent THEN None ELSE attaching[k]
  BY <1>1
<1> DEFINE R == RuntimesOf(Agent)
<1> HIDE DEF R, SeatsInv, Lined, Bound, Records, Closed
<1>6. /\ R \in SUBSET Attacher /\ Closed(R)
      /\ \A k \in Key \ Agent : seats[k] # None /\ seats[k] \in R => Over'
      /\ \A k \in Agent : seats[k] # None /\ rt[seats[k]].st = "open" => seats[k] \in R \/ Retired(k)'
  BY <1>3, <1>4 DEF R
<1> QED BY <1>0, <1>1, <1>2, <1>5, <1>6, Clears

LEMMA ClosesAllKeeps ==
  ASSUME SeatsInv, NEW e \in Shutdown, ClosesAll(e)
  PROVE  Lined' /\ Bound' /\ Records'
<1>0. /\ TypeOK /\ Managed \in BOOLEAN /\ e \in Event \cup Shutdown /\ e \in Call
      /\ pc \in [Call -> PC] /\ sessions \in [Attacher -> Attacher \cup {None}]
  BY SeatsAssumption, Kinds DEF SeatsInv, TypeOK
<1> DEFINE R == {r \in Registered : Live(r)}
<1>1. /\ pc' = [pc EXCEPT ![e] = "closeAll"] /\ pc[e] \notin {"closeAll", "done"}
      /\ rt' = Shut(R, Managed)
      /\ UNCHANGED <<arg, named, on, seatOf, adopt, seats, attaching, closing, sessions, file, snap,
                     stray>>
  BY DEF ClosesAll, Moves, maps, history
<1>2. "closeAll" \in PC /\ {} \in SUBSET Key
  BY DEF PC, Ending
<1>3. R \in SUBSET Attacher
  BY <1>0 DEF Registered
<1> HIDE DEF R
<1>4. Closed(R)
  BY <1>0, <1>1, ShutIs
<1>5. Over'
  BY <1>0, <1>1 DEF Over
<1>6. \A k \in Key : seats'[k] = IF k \in {} THEN None ELSE seats[k]
  BY <1>1
<1> HIDE DEF SeatsInv, Lined, Bound, Records, Closed, Over
<1> QED BY <1>0, <1>1, <1>2, <1>3, <1>4, <1>5, <1>6, Clears

-----------------------------------------------------------------------------
(* Another process writes the file.                                        *)

LEMMA OthersKeep ==
  ASSUME SeatsInv, NEW o \in Other, OtherReads(o) \/ OtherRenames(o)
  PROVE  Lined' /\ Bound' /\ Records'
<1>0. /\ Asked /\ Openers /\ Waiters /\ Closings /\ Drains /\ Runtimes /\ Held /\ Given /\ Sole
      /\ Records /\ file \in Seq(Record) /\ snap \in [Other -> Seq(Record) \cup {None}]
  BY DEF SeatsInv, Lined, Bound, TypeOK
<1>1. UNCHANGED <<arg, named, pc, on, seatOf, adopt, seats, attaching, closing, rt, sessions, stray>>
  BY DEF OtherReads, OtherRenames, maps, delegator, history
<1>2. Lined'
  <2>1. Asked'
    BY <1>0, <1>1 DEF Asked, ArgsOf
  <2>2. Openers'
    BY <1>0, <1>1 DEF Openers, Asks, Late, Off
  <2>3. Waiters'
    BY <1>0, <1>1 DEF Waiters, Asks
  <2>4. Closings'
    BY <1>0, <1>1 DEF Closings, Asks
  <2> QED BY <2>1, <2>2, <2>3, <2>4 DEF Lined
<1>3. Bound'
  <2>1. Drains'
    BY <1>0, <1>1 DEF Drains
  <2>2. Runtimes'
    BY <1>0, <1>1 DEF Runtimes, Asks, Live
  <2>3. Held'
    BY <1>0, <1>1 DEF Held, Asks, Live, Over, Taken
  <2>4. Given'
    BY <1>0, <1>1 DEF Given, Suited
  <2>5. Sole'
    BY <1>0, <1>1 DEF Sole, Serving, Asks, Retired, Off
  <2> QED BY <2>1, <2>2, <2>3, <2>4, <2>5 DEF Bound
<1>4. Records'
  <2>0. \A x : Good(x) => Good(x)'
    <3>1. \A c \in Attacher : \A k \in Key : Asks(c, k) => Asks(c, k)'
      BY <1>1 DEF Asks
    <3> QED BY <3>1, GoodStays
  <2>1. \A c \in Attacher : adopt'[c] # None => Good(adopt[c])' /\ Asks(c, adopt[c].key)'
    BY <1>0, <1>1, <2>0 DEF Records, Asks
  <2>2. CASE OtherReads(o)
    <3>1. snap' = [snap EXCEPT ![o] = file] /\ file' = file
      BY <2>2 DEF OtherReads, delegator
    <3>2. GoodFile(file)'
      BY <1>0, <2>0, <3>1 DEF Records, GoodFile
    <3>3. \A x \in Other : snap'[x] # None => GoodFile(snap[x])'
      <4> SUFFICES ASSUME NEW x \in Other, snap'[x] # None  PROVE GoodFile(snap[x])'
        OBVIOUS
      <4>1. snap'[x] = IF x = o THEN file ELSE snap[x]
        BY <1>0, <3>1
      <4>2. GoodFile(snap'[x])
        BY <1>0, <4>1 DEF Records
      <4> QED BY <2>0, <4>2 DEF GoodFile
    <3> QED BY <2>1, <3>2, <3>3 DEF Records
  <2>3. CASE OtherRenames(o)
    <3> DEFINE r == [id |-> o, key |-> o, thread |-> None]
    <3>1. /\ snap[o] # None /\ file' = Put(snap[o], r)
          /\ snap' = [snap EXCEPT ![o] = None]
      BY <2>3 DEF OtherRenames
    <3>2. /\ snap[o] \in Seq(Record) /\ GoodFile(snap[o])
      BY <1>0, <3>1 DEF Records
    <3>3. r \in Record /\ Good(r)
      BY Kinds DEF Record, Good
    <3> HIDE DEF r
    <3>4. GoodFile(file')
      BY <3>1, <3>2, <3>3, PutGood
    <3>5. GoodFile(file)'
      BY <2>0, <3>4 DEF GoodFile
    <3>6. \A x \in Other : snap'[x] # None => GoodFile(snap[x])'
      <4> SUFFICES ASSUME NEW x \in Other, snap'[x] # None  PROVE GoodFile(snap[x])'
        OBVIOUS
      <4>1. snap'[x] = snap[x]
        BY <1>0, <3>1
      <4>2. GoodFile(snap'[x])
        BY <1>0, <4>1 DEF Records
      <4> QED BY <2>0, <4>2 DEF GoodFile
    <3> QED BY <2>1, <3>5, <3>6 DEF Records
  <2> QED BY <2>2, <2>3
<1> QED BY <1>2, <1>3, <1>4

-----------------------------------------------------------------------------
(* Types.                                                                  *)

LEMMA AttachesTypes ==
  ASSUME SeatsInv, NEW c \in Attacher, Attaches(c)
  PROVE  TypeOK'
<1>0. /\ TypeOK /\ Asked /\ Given /\ Records /\ c \in Call /\ c \in Attacher \cup Closer
      /\ (pc[c] # "new" => arg[c].key \in Key /\ arg[c].config \in Config)
      /\ {"waitAttach", "waitClose", "attach", "attached", "reading", "closingOld", "opening",
          "failed"} \subseteq PC
      /\ Agent \subseteq Key
  <2>1. Asked
    BY DEF SeatsInv, Lined
  <2> QED BY <2>1, Asking, Kinds DEF SeatsInv, Lined, Bound, PC, Opening, Ready
<1>1. CASE AwaitAttaching(c)
  BY <1>0, <1>1 DEF TypeOK, AwaitAttaching, Await, maps, delegator, enders, history
<1>2. CASE AwaitClosing(c)
  <2>1. arg[c].key \in Agent
    BY <1>0, <1>2, Asking DEF AwaitClosing, Shutting
  <2> QED BY <1>0, <1>2, <2>1 DEF TypeOK, AwaitClosing, Await, maps, delegator, enders, history
<1>3. CASE Reuse(c)
  BY <1>0, <1>3 DEF TypeOK, Reuse, maps, delegator, enders, history
<1>4. CASE Open(c)
  <2>1. /\ pc[c] = "attach" /\ rt' = Shut(ToClose(c), c \in Run /\ Managed)
        /\ (c \in Run /\ Managed) \in BOOLEAN
    BY <1>4 DEF Open
  <2>2. rt' \in [Attacher -> Runtime]
    BY <1>0, <2>1, ShutIs
  <2>3. ToClose(c) \subseteq Attacher
    BY DEF ToClose
  <2>4. pc' \in [Call -> PC] /\ on' \in [Attacher \cup Closer -> Attacher \cup Closer \cup {None}]
    BY <1>0, <1>4, <2>3 DEF TypeOK, Open
  <2>5. seats' \in [Key -> Attacher \cup {None}] /\ attaching' \in [Key -> Attacher \cup {None}]
    BY <1>0, <1>4 DEF TypeOK, Open
  <2>6. UNCHANGED <<arg, named, seatOf, adopt, closing, seat, sessions, thread, file, snap, waits, ends,
                    stray, answered, retries>>
    BY <1>4 DEF Open, enders, history
  <2> QED BY <1>0, <2>2, <2>4, <2>5, <2>6 DEF TypeOK
<1>5. CASE ReadsAttachment(c)
  <2>1. pc[c] = "reading" /\ arg[c].key \in Key
    BY <1>0, <1>5 DEF ReadsAttachment
  <2>2. \A r \in Stored(arg[c].key) : r \in Record \cup {None}
    BY <2>1, StoredIs
  <2>3. adopt' \in [Attacher -> Record \cup {None}]
    BY <1>0, <1>5, <2>2 DEF TypeOK, ReadsAttachment
  <2> QED BY <1>0, <1>5, <2>3 DEF TypeOK, ReadsAttachment, maps, delegator, enders, history
<1>6. CASE Opens(c)
  <2>1. PICK k \in Key, id \in Attacher, t \in Attacher :
             /\ k = arg[c].key /\ Asks(c, k) /\ Asks(id, k) /\ Asks(t, k)
             /\ pc[c] = "opening" /\ Settles(c, TRUE)
             /\ \A x \in Attacher : pc[x] \notin Ready
             /\ rt' = [rt EXCEPT ![c].st = "open", ![c].id = id, ![c].thread = t,
                                 ![c].config = arg[c].config]
             /\ sessions' = [sessions EXCEPT ![id] = c]
             /\ file' = Put(file, [id |-> id, key |-> k, thread |-> t])
             /\ seatOf' = [seatOf EXCEPT ![c] = c]
             /\ seats' = [seats EXCEPT ![k] = c]
             /\ UNCHANGED <<arg, named, on, adopt, closing, snap, history>>
    BY <1>6, OpensIs
  <2>2. pc' \in [Call -> PC] /\ attaching' \in [Key -> Attacher \cup {None}]
    <3>1. Settles(c, TRUE)
      BY <2>1
    <3> QED BY <1>0, <3>1 DEF Settles, TypeOK
  <2>3. rt' \in [Attacher -> Runtime]
    <3> DEFINE x == [rt[c] EXCEPT !.st = "open", !.id = id, !.thread = t, !.config = arg[c].config]
    <3>1. rt \in [Attacher -> Runtime] /\ rt[c] \in Runtime /\ arg[c].config \in Config
      BY <1>0, <2>1 DEF TypeOK
    <3>2. rt' = [rt EXCEPT ![c] = x]
      BY <2>1, <3>1
    <3>3. x \in Runtime
      BY <3>1 DEF Runtime
    <3> HIDE DEF x
    <3> QED BY <3>1, <3>2, <3>3
  <2>4. file' \in Seq(Record) /\ Len(file') <= MaxRecords
    <3> DEFINE r == [id |-> id, key |-> k, thread |-> t]
    <3>1. r \in Record /\ file \in Seq(Record) /\ Distinct(file) /\ file' = Put(file, r)
      BY <1>0, <2>1 DEF Record, TypeOK, Records, GoodFile, Distinct
    <3> HIDE DEF r
    <3> QED BY <3>1, PutIs
  <2>5. /\ thread' \in [Attacher -> {"none", "live", "deleted"}]
        /\ seat' \in [Attacher -> [continuing : BOOLEAN, last : Message \cup {None}]]
        /\ UNCHANGED <<waits, ends>>
    <3>1. Resumes(c) \in BOOLEAN
      BY DEF Resumes
    <3> QED BY <1>0, <1>6, <3>1 DEF TypeOK, Opens, enders
  <2>6. /\ sessions' \in [Attacher -> Attacher \cup {None}]
        /\ seatOf' \in [Attacher -> Attacher \cup {None}]
        /\ seats' \in [Key -> Attacher \cup {None}]
    BY <1>0, <2>1 DEF TypeOK
  <2> QED BY <1>0, <2>1, <2>2, <2>3, <2>4, <2>5, <2>6 DEF TypeOK, history
<1>7. CASE OpenFails(c)
  <2>1. pc' \in [Call -> PC] /\ attaching' \in [Key -> Attacher \cup {None}]
    BY <1>0, <1>7 DEF OpenFails, Settles, TypeOK
  <2> QED BY <1>0, <1>7, <2>1 DEF TypeOK, OpenFails, delegator, enders, history
<1> QED BY <1>1, <1>2, <1>3, <1>4, <1>5, <1>6, <1>7 DEF Attaches

LEMMA TurnsTypes ==
  ASSUME SeatsInv, NEW c \in Attacher, Arrives(c) \/ Turns(c)
  PROVE  TypeOK'
<1>0. /\ TypeOK /\ Asked /\ Given /\ c \in Call /\ c \in Attacher \cup Closer
      /\ {"attach", "queued", "running", "done", "failed"} \subseteq PC
  BY Kinds DEF SeatsInv, Lined, Bound, PC, Ready
<1>1. CASE Arrives(c)
  <2>1. PICK a \in ArgsOf(c) :
          /\ arg' = [arg EXCEPT ![c] = a]
          /\ retries' = IF a.msg # None /\ <<a.key, a.msg>> \in answered THEN retries \cup {c} ELSE retries
    BY <1>1 DEF Arrives
  <2>2. a \in Arg /\ (a.msg # None => c \in Run)
    BY Kinds DEF ArgsOf, Arg
  <2>3. arg' \in [Attacher -> Arg \cup {None}] /\ retries' \subseteq Run
    BY <1>0, <2>1, <2>2 DEF TypeOK
  <2> QED BY <1>0, <1>1, <2>3 DEF TypeOK, Arrives, maps, delegator, enders
<1>2. CASE Replays(c)
  BY <1>0, <1>2 DEF TypeOK, Replays, maps, delegator, enders, history
<1>3. CASE Calls(c)
  <2>1. RuntimeOf(seatOf[c]) \in Attacher
    BY <1>0, <1>3 DEF Given, Calls, RuntimeOf
  <2> QED BY <1>0, <1>3, <2>1 DEF TypeOK, Calls, maps, delegator, enders, history
<1>4. CASE TurnStarts(c)
  BY <1>0, <1>4 DEF TypeOK, TurnStarts, maps, delegator, enders, history
<1>5. CASE TurnRefused(c)
  BY <1>0, <1>5 DEF TypeOK, TurnRefused, maps, delegator, enders, history
<1>6. CASE TurnCompletes(c)
  <2>1. arg[c].key \in Key /\ arg[c].msg \in Message \cup {None}
    BY <1>0, <1>6, Asking DEF TurnCompletes
  <2>2. /\ seat' \in [Attacher -> [continuing : BOOLEAN, last : Message \cup {None}]]
        /\ answered' \subseteq Key \X (Message \cup {None})
    <3>1. CASE c \in Run
      <4>1. /\ seat' = [seat EXCEPT ![seatOf[c]] = [continuing |-> TRUE, last |-> arg[c].msg]]
            /\ answered' = answered \cup {<<arg[c].key, arg[c].msg>>}
        BY <1>6, <3>1 DEF TurnCompletes
      <4>2. [continuing |-> TRUE, last |-> arg[c].msg] \in [continuing : BOOLEAN, last : Message \cup {None}]
        BY <2>1
      <4>3. seat' \in [Attacher -> [continuing : BOOLEAN, last : Message \cup {None}]]
        BY <1>0, <4>1, <4>2 DEF TypeOK
      <4> QED BY <1>0, <2>1, <4>1, <4>3 DEF TypeOK
    <3>2. CASE c \notin Run
      BY <1>0, <1>6, <3>2 DEF TypeOK, TurnCompletes
    <3> QED BY <3>1, <3>2
  <2> QED BY <1>0, <1>6, <2>2 DEF TypeOK, TurnCompletes, maps, delegator, enders
<1>7. CASE TurnFails(c)
  BY <1>0, <1>7 DEF TypeOK, TurnFails, maps, delegator, enders, history
<1> QED BY <1>1, <1>2, <1>3, <1>4, <1>5, <1>6, <1>7 DEF Turns

LEMMA SettledTypes ==
  ASSUME SeatsInv, NEW r \in Attacher, Settled(r)
  PROVE  TypeOK'
<1>0. /\ TypeOK /\ Asked /\ Runtimes /\ Records
      /\ {"reading", "failed", "done", "attach"} \subseteq PC
  BY DEF SeatsInv, Lined, Bound, PC, Opening, Ready
<1>1. ASSUME NEW ok \in BOOLEAN, Wake(r, ok)
      PROVE  /\ pc' \in [Call -> PC] /\ attaching' \in [Key -> Attacher \cup {None}]
             /\ closing' \in [Agent -> Closer \cup {None}] /\ seats' \in [Key -> Attacher \cup {None}]
  BY <1>0, <1>1 DEF Wake, Reopened, Forgotten, TypeOK
<1>2. CASE CloseCompletes(r)
  <2>1. PICK kept :
          /\ kept \in {rt[r].thread, None}
          /\ rt' = [rt EXCEPT ![r].st = "closed", ![r].thread = kept]
          /\ file' = Put(file, [id |-> rt[r].id, key |-> arg[r].key, thread |-> kept])
          /\ thread' \in [Attacher -> {"none", "live", "deleted"}]
    BY <1>0, <1>2 DEF CloseCompletes, TypeOK
  <2>2. rt[r].st = "closing" /\ pc[r] # "new" /\ rt[r].id \in Attacher /\ rt[r] \in Runtime
    <3>1. rt[r].st = "closing"
      BY <1>2 DEF CloseCompletes, Drained
    <3> QED BY <1>0, <3>1 DEF Runtimes, Before, TypeOK
  <2>3. rt' \in [Attacher -> Runtime]
    BY <1>0, <2>1, <2>2 DEF TypeOK, Runtime
  <2>4. file' \in Seq(Record) /\ Len(file') <= MaxRecords
    <3> DEFINE x == [id |-> rt[r].id, key |-> arg[r].key, thread |-> kept]
    <3>1. arg[r].key \in Key /\ kept \in Attacher \cup {None}
      BY <1>0, <2>1, <2>2, Asking DEF Runtime
    <3>2. x \in Record /\ file \in Seq(Record) /\ Distinct(file) /\ file' = Put(file, x)
      BY <1>0, <2>1, <2>2, <3>1 DEF Record, TypeOK, Records, GoodFile, Distinct
    <3> HIDE DEF x
    <3> QED BY <3>2, PutIs
  <2>5. /\ stray' \subseteq Attacher
        /\ UNCHANGED <<arg, named, on, seatOf, adopt, seat, sessions, snap, waits, ends, answered, retries>>
    BY <1>0, <1>2 DEF CloseCompletes, TypeOK, enders
  <2>6. TRUE \in BOOLEAN /\ Wake(r, TRUE)
    BY <1>2 DEF CloseCompletes
  <2> QED BY <1>0, <1>1, <2>1, <2>3, <2>4, <2>5, <2>6 DEF TypeOK
<1>3. CASE CloseFails(r)
  <2>1. rt' \in [Attacher -> Runtime]
    <3>1. rt[r] \in Runtime /\ rt' = [rt EXCEPT ![r].st = "open"]
      BY <1>0, <1>3 DEF CloseFails, TypeOK
    <3> QED BY <1>0, <3>1 DEF TypeOK, Runtime
  <2>2. /\ stray' \subseteq Attacher
        /\ UNCHANGED <<arg, named, on, seatOf, adopt, seat, sessions, thread, file, snap, waits, ends,
                       answered, retries>>
    BY <1>0, <1>3 DEF CloseFails, TypeOK, enders
  <2>3. FALSE \in BOOLEAN /\ Wake(r, FALSE)
    BY <1>3 DEF CloseFails
  <2> QED BY <1>0, <1>1, <2>1, <2>2, <2>3 DEF TypeOK
<1> QED BY <1>2, <1>3 DEF Settled

LEMMA EndsTypes ==
  ASSUME SeatsInv, NEW e \in Ender,
         \/ e \in Closer /\ (Closes(e) \/ NothingToClose(e))
         \/ e \in Event /\ (Deleted(e) \/ Deletes(e))
         \/ e \in Shutdown /\ (Disposes(e) \/ DisposeGoesOn(e))
  PROVE  TypeOK'
<1>0. /\ TypeOK /\ e \in Call /\ FALSE \in BOOLEAN /\ Managed \in BOOLEAN
      /\ {"closing", "failed", "eventTools", "eventProvider", "eventSeats", "disposeTools",
          "disposeProvider", "disposeSeats", "closeAll", "done"} \subseteq PC
  BY SeatsAssumption DEF SeatsInv, PC, Settling, Ending, Call
<1>1. CASE e \in Closer /\ Closes(e)
  <2>1. PICK k \in Tool, s \in Attacher, cleanup \in BOOLEAN :
          LET mine == {a \in Agent : seats[a] # None /\ rt[seats[a]].id = rt[s].id} IN
          /\ s \in Resolved(k)
          /\ named' = [named EXCEPT ![e] = k]
          /\ on' = [on EXCEPT ![e] = RuntimeOf(s)]
          /\ rt' = Shut({RuntimeOf(s)}, cleanup)
          /\ seats' = Dropped(mine)
          /\ closing' = [a \in Agent |-> IF a \in mine THEN e ELSE closing[a]]
    BY <1>1 DEF Closes
  <2>2. RuntimeOf(s) \in Attacher
    <3>1. PICK h \in Key : seats[h] = s
      BY <2>1, Kinds DEF Resolved
    <3> QED BY <3>1, Kinds, HandleOf
  <2>3. rt' \in [Attacher -> Runtime]
    BY <1>0, <2>1, ShutIs
  <2>4. seats' \in [Key -> Attacher \cup {None}] /\ closing' \in [Agent -> Closer \cup {None}]
    BY <1>0, <1>1, <2>1 DEF TypeOK, Dropped
  <2>5. /\ pc' \in [Call -> PC] /\ named' \in [Closer -> Tool \cup {None}]
        /\ on' \in [Attacher \cup Closer -> Attacher \cup Closer \cup {None}]
    BY <1>0, <1>1, <2>1, <2>2 DEF TypeOK, Closes
  <2>6. UNCHANGED <<arg, seatOf, adopt, attaching, seat, sessions, thread, file, snap, waits, ends, stray,
                    answered, retries>>
    BY <1>1 DEF Closes, enders, history
  <2> QED BY <1>0, <2>3, <2>4, <2>5, <2>6 DEF TypeOK
<1>2. CASE e \notin Closer \/ ~Closes(e)
  <2>1. UNCHANGED <<arg, named, on, seatOf, adopt, closing, seat, sessions, thread, file, snap, stray,
                    answered, retries>>
    BY <1>2 DEF NothingToClose, Deleted, Deletes, DeletesTools, DeletesProvider, DeletedDone, Disposes,
         DisposeGoesOn, DisposesTools, DisposesProvider, ClosesAll, DisposeDone, maps, delegator, history
  <2>2. pc' \in [Call -> PC]
    <3>1. \E p \in PC : pc' = [pc EXCEPT ![e] = p]
      BY <1>0, <1>2 DEF NothingToClose, Deleted, Deletes, DeletesTools, DeletesProvider, DeletedDone,
           Disposes, DisposeGoesOn, DisposesTools, DisposesProvider, ClosesAll, DisposeDone, Moves
    <3> QED BY <1>0, <3>1 DEF TypeOK
  <2>3. seats' \in [Key -> Attacher \cup {None}] /\ attaching' \in [Key -> Attacher \cup {None}]
    BY <1>0, <1>2 DEF TypeOK, NothingToClose, Deleted, Deletes, DeletesTools, DeletesProvider, DeletedDone,
         Disposes, DisposeGoesOn, DisposesTools, DisposesProvider, ClosesAll, DisposeDone, maps
  <2>4. rt' \in [Attacher -> Runtime]
    <3>1. \/ rt' = rt
          \/ \E R, cleanup : cleanup \in BOOLEAN /\ rt' = Shut(R, cleanup)
      BY <1>0, <1>2 DEF NothingToClose, Deleted, Deletes, DeletesTools, DeletesProvider, DeletedDone,
           Disposes, DisposeGoesOn, DisposesTools, DisposesProvider, ClosesAll, DisposeDone, delegator
    <3> QED BY <1>0, <3>1, ShutIs DEF TypeOK
  <2>5. waits' \in [Event \cup Shutdown -> SUBSET (Attacher \cup Closer)]
    <3>1. \A K \in {Tool, Agent} : Pendings(K) \subseteq Attacher
      BY <1>0, Kinds DEF Pendings, TypeOK
    <3>2. {closing[a] : a \in Agent} \ {None} \subseteq Closer
      BY <1>0 DEF TypeOK
    <3>3. \/ waits' = waits
          \/ \E K \in {Tool, Agent} : waits' = [waits EXCEPT ![e] = Pendings(K)]
          \/ waits' = [waits EXCEPT ![e] = Pendings(Agent) \cup ({closing[a] : a \in Agent} \ {None})]
      BY <1>2 DEF NothingToClose, Deleted, Deletes, DeletesTools, DeletesProvider, DeletedDone,
           Disposes, DisposeGoesOn, DisposesTools, DisposesProvider, ClosesAll, DisposeDone, enders
    <3> HIDE DEF Pendings
    <3> QED BY <1>0, <3>1, <3>2, <3>3 DEF TypeOK
  <2>6. ends' \in [Event \cup Shutdown -> SUBSET Attacher]
    <3>1. \A K : RuntimesOf(K) \subseteq Attacher
      BY DEF RuntimesOf
    <3>2. {r \in Registered : Live(r)} \subseteq Attacher
      BY <1>0 DEF Registered, TypeOK
    <3>3. \/ ends' = ends
          \/ \E R \in SUBSET Attacher : ends' = [ends EXCEPT ![e] = R] \/ ends' = [ends EXCEPT ![e] = @ \cup R]
      BY <1>2, <3>1, <3>2 DEF NothingToClose, Deleted, Deletes, DeletesTools, DeletesProvider, DeletedDone,
           Disposes, DisposeGoesOn, DisposesTools, DisposesProvider, ClosesAll, DisposeDone, enders
    <3>4. ends \in [Event \cup Shutdown -> SUBSET Attacher]
      BY <1>0 DEF TypeOK
    <3> QED BY <3>3, <3>4
  <2> QED BY <1>0, <2>1, <2>2, <2>3, <2>4, <2>5, <2>6 DEF TypeOK
<1> QED BY <1>1, <1>2

LEMMA OthersTypes ==
  ASSUME SeatsInv, NEW o \in Other, OtherReads(o) \/ OtherRenames(o)
  PROVE  TypeOK'
<1>0. TypeOK /\ Records
  BY DEF SeatsInv
<1>1. CASE OtherReads(o)
  BY <1>0, <1>1 DEF TypeOK, OtherReads, maps, delegator, enders, history
<1>2. CASE OtherRenames(o)
  <2> DEFINE r == [id |-> o, key |-> o, thread |-> None]
  <2>1. /\ snap[o] \in Seq(Record) /\ Distinct(snap[o]) /\ r \in Record
        /\ file' = Put(snap[o], r) /\ snap' = [snap EXCEPT ![o] = None]
        /\ UNCHANGED <<arg, named, pc, on, seatOf, adopt, seats, attaching, closing, seat, rt, sessions,
                       thread, waits, ends, stray, answered, retries>>
    BY <1>0, <1>2, Kinds DEF TypeOK, OtherRenames, Records, GoodFile, Distinct, Record, maps, enders, history
  <2> HIDE DEF r
  <2>2. file' \in Seq(Record) /\ Len(file') <= MaxRecords
    BY <2>1, PutIs
  <2> QED BY <1>0, <2>1, <2>2 DEF TypeOK
<1> QED BY <1>1, <1>2

-----------------------------------------------------------------------------
(* The theorems.                                                           *)

LEMMA InitHolds == Init => SeatsInv
<1> SUFFICES ASSUME Init  PROVE SeatsInv
  OBVIOUS
<1>1. /\ \A c \in Call : pc[c] = "new"
      /\ \A k \in Key : seats[k] = None /\ attaching[k] = None
      /\ \A a \in Agent : closing[a] = None
      /\ \A c \in Attacher : rt[c].st = "none" /\ rt[c].id = None /\ adopt[c] = None
      /\ file = <<>> /\ \A o \in Other : snap[o] = None
      /\ Attacher \subseteq Call /\ Closer \subseteq Call
  BY Kinds DEF Init
<1>2. TypeOK
  <2>1. "new" \in PC /\ file = <<>> /\ file \in Seq(Record) /\ Len(file) <= MaxRecords
    BY <1>1, Kinds DEF PC
  <2>2. /\ arg \in [Attacher -> Arg \cup {None}] /\ named \in [Closer -> Tool \cup {None}]
        /\ pc \in [Call -> PC] /\ seatOf \in [Attacher -> Attacher \cup {None}]
        /\ on \in [Attacher \cup Closer -> Attacher \cup Closer \cup {None}]
        /\ adopt \in [Attacher -> Record \cup {None}]
    BY <2>1 DEF Init
  <2>3. /\ seats \in [Key -> Attacher \cup {None}]
        /\ attaching \in [Key -> Attacher \cup {None}]
        /\ closing \in [Agent -> Closer \cup {None}]
        /\ sessions \in [Attacher -> Attacher \cup {None}]
        /\ thread \in [Attacher -> {"none", "live", "deleted"}]
        /\ snap \in [Other -> Seq(Record) \cup {None}]
    BY DEF Init
  <2>4. rt \in [Attacher -> Runtime]
    BY DEF Init, Runtime
  <2>5. seat \in [Attacher -> [continuing : BOOLEAN, last : Message \cup {None}]]
    BY DEF Init
  <2>6. /\ waits \in [Event \cup Shutdown -> SUBSET (Attacher \cup Closer)]
        /\ ends \in [Event \cup Shutdown -> SUBSET Attacher]
        /\ stray \subseteq Attacher /\ retries \subseteq Run
        /\ answered \subseteq Key \X (Message \cup {None})
    BY DEF Init
  <2> QED BY <2>1, <2>2, <2>3, <2>4, <2>5, <2>6 DEF TypeOK
<1>3. Lined
  BY <1>1 DEF Lined, Asked, Openers, Waiters, Closings, Opening
<1>4. Bound
  BY <1>1 DEF Bound, Drains, Runtimes, Held, Given, Sole, Serving, Live
<1>5. Records
  BY <1>1 DEF Records, GoodFile
<1> QED BY <1>2, <1>3, <1>4, <1>5 DEF SeatsInv

LEMMA NextKeeps == SeatsInv /\ Next => SeatsInv'
<1> SUFFICES ASSUME SeatsInv, Next  PROVE SeatsInv'
  OBVIOUS
<1>1. ASSUME NEW c \in Attacher, Arrives(c)  PROVE SeatsInv'
  BY <1>1, ArrivesKeeps, TurnsTypes DEF SeatsInv
<1>2. ASSUME NEW c \in Attacher, Attaches(c)  PROVE SeatsInv'
  <2>1. Lined' /\ Bound' /\ Records'
    BY <1>2, AwaitsKeep, ReuseKeeps, OpenKeeps, ReadsKeeps, OpensKeeps, OpenFailsKeeps DEF Attaches
  <2>2. TypeOK'
    BY <1>2, AttachesTypes
  <2> QED BY <2>1, <2>2 DEF SeatsInv
<1>3. ASSUME NEW c \in Attacher, Turns(c)  PROVE SeatsInv'
  BY <1>3, TurnsKeep, TurnsTypes DEF SeatsInv
<1>4. ASSUME NEW r \in Attacher, Settled(r)  PROVE SeatsInv'
  <2>1. Lined' /\ Bound' /\ Records'
    BY <1>4, CloseCompletesKeeps, CloseFailsKeeps DEF Settled
  <2>2. TypeOK'
    BY <1>4, SettledTypes
  <2> QED BY <2>1, <2>2 DEF SeatsInv
<1>5. ASSUME NEW e \in Ender,
             \/ e \in Closer /\ (Closes(e) \/ NothingToClose(e))
             \/ e \in Event /\ (Deleted(e) \/ Deletes(e))
             \/ e \in Shutdown /\ (Disposes(e) \/ DisposeGoesOn(e))
      PROVE  SeatsInv'
  <2>1. Lined' /\ Bound' /\ Records'
    <3>1. CASE e \in Closer /\ Closes(e)
      BY <3>1, ClosesKeeps
    <3>2. CASE e \in Event /\ (DeletesTools(e) \/ DeletesProvider(e))
      BY <3>2, DeletesKeep
    <3>3. CASE e \in Shutdown /\ (DisposesTools(e) \/ DisposesProvider(e) \/ ClosesAll(e))
      BY <3>3, DisposesToolsKeeps, DisposesProviderKeeps, ClosesAllKeeps
    <3>4. CASE \/ e \in Closer /\ NothingToClose(e)
               \/ e \in Event /\ (Deleted(e) \/ DeletedDone(e))
               \/ e \in Shutdown /\ (Disposes(e) \/ DisposeDone(e))
      BY <3>4, EndsKeep
    <3> QED BY <1>5, <3>1, <3>2, <3>3, <3>4 DEF Deletes, DisposeGoesOn
  <2>2. TypeOK'
    BY <1>5, EndsTypes
  <2> QED BY <2>1, <2>2 DEF SeatsInv
<1>6. ASSUME NEW o \in Other, OtherReads(o) \/ OtherRenames(o)  PROVE SeatsInv'
  BY <1>6, OthersKeep, OthersTypes DEF SeatsInv
<1>7. Closer \subseteq Ender /\ Event \subseteq Ender /\ Shutdown \subseteq Ender
  BY DEF Ender
<1> QED BY <1>1, <1>2, <1>3, <1>4, <1>5, <1>6, <1>7 DEF Next

LEMMA StutterKeeps == SeatsInv /\ UNCHANGED vars => SeatsInv'
<1> SUFFICES ASSUME SeatsInv, UNCHANGED vars  PROVE SeatsInv'
  OBVIOUS
<1>0. /\ Asked /\ Openers /\ Waiters /\ Closings /\ Drains /\ Runtimes /\ Held /\ Given /\ Sole
      /\ Records /\ TypeOK
  BY DEF SeatsInv, Lined, Bound
<1>1. TypeOK'
  BY <1>0 DEF TypeOK, vars
<1>2. Lined'
  <2>1. Asked' /\ Waiters' /\ Closings'
    BY <1>0 DEF vars, Asked, ArgsOf, Waiters, Closings, Asks
  <2>2. Openers'
    BY <1>0 DEF vars, Openers, Asks, Late, Off
  <2> QED BY <2>1, <2>2 DEF Lined
<1>3. Bound'
  <2>1. Drains' /\ Runtimes' /\ Given'
    BY <1>0 DEF vars, Drains, Runtimes, Given, Suited, Asks, Live
  <2>2. Held'
    BY <1>0 DEF vars, Held, Asks, Live, Over, Taken
  <2>3. Sole'
    BY <1>0 DEF vars, Sole, Serving, Asks, Retired, Off
  <2> QED BY <2>1, <2>2, <2>3 DEF Bound
<1>4. Records'
  BY <1>0 DEF vars, Records, GoodFile, Good, Asks
<1> QED BY <1>1, <1>2, <1>3, <1>4 DEF SeatsInv

\* The inductive invariant holds in every state, whatever calls, closes, deletions,
\* disposals and writes of other processes interleave.
THEOREM SeatsInvariant == Spec => []SeatsInv
BY InitHolds, NextKeeps, StutterKeeps, PTL DEF Spec

\* Every variable keeps its type; the attachment file never holds more than MaxRecords.
THEOREM SeatsTypeCorrect == Spec => []TypeOK
<1>1. SeatsInv => TypeOK
  BY DEF SeatsInv
<1> QED BY <1>1, SeatsInvariant, PTL

\* One Codex thread never takes turns from two app-servers, but for runtimes left behind
\* by a failed close or by a codex_close of another seat: attach(), open() and resume()
\* never leave two open runtimes of one seat, and a thread stays with its seat.
THEOREM OneRuntimePerThread == Spec => []ThreadHasOneRuntime
<1>1. SeatsInv => ThreadHasOneRuntime
  <2> SUFFICES ASSUME SeatsInv, NEW r \in Attacher \ stray, NEW q \in Attacher \ stray,
                      r # q, rt[r].st = "open", rt[q].st = "open", rt[r].thread = rt[q].thread
               PROVE  FALSE
    BY DEF ThreadHasOneRuntime
  <2>1. Asked /\ Runtimes /\ Sole
    BY DEF SeatsInv, Lined, Bound
  <2>2. pc[r] # "new" /\ pc[q] # "new"
    BY <2>1 DEF Runtimes, Before
  <2>3. /\ arg[r].key \in Key /\ Asks(r, arg[r].key) /\ arg[q].key \in Key /\ Asks(q, arg[q].key)
    BY <2>1, <2>2, Asking
  <2>4. Asks(rt[r].thread, arg[r].key) /\ Asks(rt[q].thread, arg[q].key)
    BY <2>1, <2>3 DEF Runtimes, Live
  <2>5. arg[r].key = arg[q].key
    BY <2>4 DEF Asks
  <2> QED BY <2>1, <2>3, <2>5 DEF Sole, Serving
<1> QED BY <1>1, SeatsInvariant, PTL

\* A turn of run() or codex_delegate runs under the configuration its call asked for:
\* between attach() and the turn nobody gives the handle's id to another runtime.
THEOREM TurnsAreConfigured == Spec => []TurnUnderItsConfiguration
<1>1. SeatsInv => TurnUnderItsConfiguration
  BY SeatsAssumption, Kinds DEF SeatsInv, Bound, Given, Suited, TurnUnderItsConfiguration
<1> QED BY <1>1, SeatsInvariant, PTL

\* A handle in a map of the plugin reaches the runtime that its seat was opened with,
\* which is open or closing until dispose() has called closeAll().
THEOREM MapsAreLive == Spec => []MapsHoldLiveSeats
<1>1. SeatsInv => MapsHoldLiveSeats
  BY DEF SeatsInv, Bound, Held, MapsHoldLiveSeats
<1> QED BY <1>1, SeatsInvariant, PTL

\* No call awaits an opening, a close or a seat that has already settled: finally
\* blocks and closing entries go before those who wait look again.
THEOREM WaitsAreServed == Spec => []WaitsEnd
<1>1. SeatsInv => WaitsEnd
  <2> SUFFICES ASSUME SeatsInv  PROVE WaitsEnd
    OBVIOUS
  <2>1. Waiters /\ Drains /\ Closings /\ Asked
    BY DEF SeatsInv, Lined, Bound
  <2>2. ASSUME NEW c \in Attacher, pc[c] = "waitClose"  PROVE pc[on[c]] = "closing"
    <3>1. c \in Run /\ on[c] \in Closer /\ \A k \in Agent : Asks(c, k) => closing[k] = on[c]
      BY <2>1, <2>2 DEF Waiters
    <3>2. arg[c].key \in Agent /\ Asks(c, arg[c].key)
      BY <2>1, <2>2, <3>1, Asking
    <3> QED BY <2>1, <3>1, <3>2, Kinds DEF Closings
  <2> QED BY <2>1, <2>2 DEF WaitsEnd, Waiters, Drains
<1> QED BY <1>1, SeatsInvariant, PTL
=============================================================================
