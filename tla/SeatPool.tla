------------------------------ MODULE SeatPool ------------------------------
(***************************************************************************)
(* What the admission store promises an account, without rows, fences,     *)
(* phases or times: a pool of seats that turns wait for, take once and     *)
(* leave for good, and that a soft drain narrows to one seat.              *)
(***************************************************************************)
EXTENDS Integers, FiniteSets

CONSTANTS Turns, Capacity

VARIABLES
  waiting,   \* turns in the queue
  seated,    \* turns that hold a seat
  done,      \* turns that are settled and hold none
  limit,     \* seats of the account
  draining   \* a soft drain is under way

vars == <<waiting, seated, done, limit, draining>>

Init ==
  /\ waiting = {} /\ seated = {} /\ done = {}
  /\ limit = Capacity /\ draining = FALSE

Submit(t) ==
  /\ t \notin waiting \cup seated \cup done
  /\ waiting' = waiting \cup {t}
  /\ UNCHANGED <<seated, done, limit, draining>>

\* Turns leave the queue without ever having had a seat.
GiveUp(S) ==
  /\ S \subseteq waiting
  /\ waiting' = waiting \ S
  /\ done' = done \cup S
  /\ UNCHANGED <<seated, limit, draining>>

\* A turn is seated; the turns in S time out at the same moment.
Seat(t, S) ==
  /\ ~draining /\ Cardinality(seated) < limit
  /\ t \in waiting /\ S \subseteq waiting \ {t}
  /\ waiting' = waiting \ (S \cup {t})
  /\ seated' = seated \cup {t}
  /\ done' = done \cup S
  /\ UNCHANGED <<limit, draining>>

\* A turn gives its seat back; the last one to leave ends a drain.
Leave(t) ==
  /\ t \in seated
  /\ seated' = seated \ {t}
  /\ done' = done \cup {t}
  /\ IF draining /\ seated = {t} THEN limit' = 1 /\ draining' = FALSE
                                 ELSE UNCHANGED <<limit, draining>>
  /\ UNCHANGED waiting

BeginDrain ==
  /\ IF seated = {} THEN limit' = 1 /\ draining' = FALSE
                    ELSE draining' = TRUE /\ UNCHANGED limit
  /\ UNCHANGED <<waiting, seated, done>>

Next ==
  \/ \E t \in Turns : Submit(t) \/ Leave(t)
  \/ \E S \in SUBSET waiting : GiveUp(S)
  \/ \E t \in waiting : \E S \in SUBSET (waiting \ {t}) : Seat(t, S)
  \/ BeginDrain

Spec == Init /\ [][Next]_vars
============================================================================
