--------------------------- MODULE ActiveRelease ---------------------------
(***************************************************************************)
(* What the lifecycle promises whoever calls it, without files, locks and  *)
(* processes that die at their work: releases that are complete or are not *)
(* there, one of them active and perhaps one to return to.  A call takes   *)
(* effect at one moment between its start and its end, and what it reports *)
(* was so at that moment; a call that fails may have taken effect.         *)
(***************************************************************************)
CONSTANTS
  Procs,       \* callers
  Releases,
  NoRelease,
  Generation,  \* the generation of the official artifacts a release is made of
  PinsOf       \* the generation a caller was built for

VARIABLES
  complete,    \* releases that can be started
  current,     \* the active release, or NoRelease
  previous,    \* the release a rollback returns to, if there is one
  calls,       \* what each caller asked for, and what the call is going to report
  apart        \* writers are kept apart: nothing is promised once they are not

vars == <<complete, current, previous, calls, apart>>

NoCall == [op |-> "none"]
NewCall(o, a) == [op |-> o, on |-> a, report |-> "none"]

Kept == {current} \cup previous
Pending(p, o) == calls[p].op = o /\ calls[p].report = "none"
Report(p, r) == calls' = [calls EXCEPT ![p].report = r]

Init ==
  /\ \/ current = NoRelease /\ previous = {}
     \/ /\ current \in complete
        /\ previous \in {{}} \cup {{a} : a \in {b \in complete : b # current /\ Generation[b] = Generation[current]}}
  /\ complete \subseteq Releases
  /\ calls = [p \in Procs |-> NoCall] /\ apart = TRUE

\* Only an activation names a release.
Begin(p) ==
  /\ calls[p] = NoCall
  /\ \/ \E a \in Releases : calls' = [calls EXCEPT ![p] = NewCall("activate", a)]
     \/ \E o \in {"prepare", "rollback", "cleanup", "purge"} :
          calls' = [calls EXCEPT ![p] = NewCall(o, NoRelease)]
  /\ UNCHANGED <<complete, current, previous>>

\* The call returns, is refused, or its caller dies.
End(p) ==
  /\ calls[p] # NoCall
  /\ calls' = [calls EXCEPT ![p] = NoCall]
  /\ UNCHANGED <<complete, current, previous>>

Fail(p) ==
  /\ calls[p] # NoCall /\ calls[p].report = "none"
  /\ Report(p, "failed")
  /\ UNCHANGED <<complete, current, previous>>

Publish(p, a) ==
  /\ Pending(p, "prepare") /\ Generation[a] = PinsOf[p] /\ a \notin complete
  /\ complete' = complete \cup {a}
  /\ UNCHANGED <<current, previous, calls>>

Prepared(p, a) ==
  /\ Pending(p, "prepare") /\ Generation[a] = PinsOf[p] /\ a \in complete
  /\ calls' = [calls EXCEPT ![p] = [op |-> "prepare", on |-> a, report |-> "ok"]]
  /\ UNCHANGED <<complete, current, previous>>

\* The release that was active becomes the one to return to if the generation stays.
Activate(p) ==
  LET a == calls[p].on IN
  /\ Pending(p, "activate") /\ Generation[a] = PinsOf[p] /\ a \in complete \ {current}
  /\ current' = a
  /\ previous' = {b \in {current} \ {NoRelease} : Generation[b] = Generation[a]}
  /\ Report(p, "ok") \/ Report(p, "failed")
  /\ UNCHANGED complete

ActiveAlready(p) ==
  /\ Pending(p, "activate") /\ calls[p].on = current
  /\ Report(p, "ok")
  /\ UNCHANGED <<complete, current, previous>>

Rollback(p) ==
  /\ Pending(p, "rollback")
  /\ \E b \in previous \cap complete :
       Generation[b] = PinsOf[p] /\ current' = b /\ previous' = {current}
  /\ Report(p, "ok") \/ Report(p, "failed")
  /\ UNCHANGED complete

Remove(p, a) ==
  /\ Pending(p, "purge") /\ a \in complete \ Kept
  /\ complete' = complete \ {a}
  /\ UNCHANGED <<current, previous, calls>>

\* After a purge there is only what can be started or returned to.
Cleaned(p) ==
  /\ Pending(p, "cleanup") \/ (Pending(p, "purge") /\ complete \subseteq Kept)
  /\ Report(p, "ok")
  /\ UNCHANGED <<complete, current, previous>>

Step(p) ==
  \/ Begin(p) \/ End(p) \/ Fail(p) \/ Activate(p) \/ ActiveAlready(p) \/ Rollback(p) \/ Cleaned(p)
  \/ \E a \in Releases : Publish(p, a) \/ Prepared(p, a) \/ Remove(p, a)

Next == (apart /\ apart' /\ \E p \in Procs : Step(p)) \/ ~apart'

Spec == Init /\ [][Next]_vars
=============================================================================
