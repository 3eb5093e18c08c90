------------------------------ MODULE FifoLane ------------------------------
(***************************************************************************)
(* What the lane of a Codex seat promises (codex-delegator README: "One    *)
(* seat accepts one turn at a time"): calls hold the seat one at a time,   *)
(* in the order in which they arrived, or are refused when it is theirs.   *)
(***************************************************************************)
EXTENDS Naturals

CONSTANTS Call, Null

VARIABLES
  rank,    \* place in the line of a waiting call, 0 for a call that is not waiting
  holder   \* the call that holds the seat, or Null

Waiting == {c \in Call : rank[c] # 0}
First(c) == c \in Waiting /\ \A d \in Waiting : rank[c] <= rank[d]

Init == rank = [c \in Call |-> 0] /\ holder = Null

\* c joins the end of the line.
Arrive(c) ==
  /\ c \notin Waiting /\ c # holder
  /\ rank'[c] \in Nat \ {0}
  /\ \A d \in Waiting : rank[d] < rank'[c]
  /\ rank' = [rank EXCEPT ![c] = rank'[c]]
  /\ UNCHANGED holder

\* The first call in line gets the free seat.
Grant(c) ==
  /\ holder = Null
  /\ First(c)
  /\ rank' = [rank EXCEPT ![c] = 0]
  /\ holder' = c

\* The first call in line is turned away from the free seat.
TurnAway(c) ==
  /\ holder = Null
  /\ First(c)
  /\ rank' = [rank EXCEPT ![c] = 0]
  /\ UNCHANGED holder

Leave ==
  /\ holder # Null
  /\ holder' = Null
  /\ UNCHANGED rank

\* The host process dies.
Abandon ==
  /\ rank' = [c \in Call |-> 0]
  /\ holder' = Null

Next ==
  \/ \E c \in Call : Arrive(c) \/ Grant(c) \/ TurnAway(c)
  \/ Leave
  \/ Abandon

Spec == Init /\ [][Next]_<<rank, holder>>
=============================================================================
