---------------------------- MODULE KernelProxy ----------------------------
(***************************************************************************)
(* The prompts of one connector in OfficialKernelProxy (proxy.ts): claims, *)
(* forwarding, cancellation, backpressure and shutdown, between a client   *)
(* (Paseo) on stdin/stdout and the official kernel, a child process.       *)
(*                                                                         *)
(* The proxy is one event loop: a handler runs to its next await without   *)
(* interruption, and every action here is such a stretch of code.  The     *)
(* client may write in the call stack that answers it (proxy.ts:560), so a *)
(* client message can come between an answer and the handler it resumes;   *)
(* what it writes on the refusal of a turn is read after the handler.      *)
(*                                                                         *)
(* Abstractions: messages are their request ids.  The wait for admission   *)
(* (turn-coordinator.ts) is one step that ends with a lease or without;    *)
(* AdmissionSystem models what happens in it, and that it ends (WaitEnds). *)
(* Setup requests (session/new and others) and prompts without a session   *)
(* id, which have no claim, are left out.                                  *)
(***************************************************************************)
EXTENDS Naturals, FiniteSets

CONSTANTS
  Prompts,      \* request ids of session/prompt
  Sessions,
  SessionOf,    \* the session a prompt names
  NoPrompt,     \* a session without a claim
  MayFail       \* prompts whose store transactions around the write may fail

ASSUME SessionAssumption == SessionOf \in [Prompts -> Sessions]
ASSUME NoPromptAssumption == NoPrompt \notin Prompts
ASSUME FailAssumption == MayFail \subseteq Prompts

VARIABLES
  fenced,        \* is there an admission coordinator (proxy.ts:381)
  connection,    \* open, stopping, closed, or released: coordinator and store closed
  child,         \* the kernel: up, exited, or drained once the exit event was seen
  childPaused,   \* child.stdout is paused: the client does not read
  inputPaused,   \* stdin is paused: the kernel does not read
  step,          \* where the handler of a prompt is
  aborted,       \* aborted claims
  claims,        \* session -> the prompt that holds its claim
  pending,       \* prompts tracked as awaiting an answer
  timers,        \* sessions with a running cancel timer
  kernel,        \* what the kernel did with a prompt
  replies        \* how often a prompt was answered to the client

plumbing == <<childPaused, inputPaused>>
turnVars == <<step, aborted, claims, pending, timers, kernel, replies>>
vars == <<fenced, connection, child, plumbing, turnVars>>

Steps == {"new", "context", "queued", "sent", "resolved", "done"}

TypeOK ==
  /\ fenced \in BOOLEAN
  /\ connection \in {"open", "stopping", "closed", "released"}
  /\ child \in {"up", "exited", "drained"}
  /\ childPaused \in BOOLEAN /\ inputPaused \in BOOLEAN
  /\ step \in [Prompts -> Steps]
  /\ aborted \subseteq Prompts
  /\ claims \in [Sessions -> Prompts \cup {NoPrompt}]
  /\ pending \subseteq Prompts
  /\ timers \subseteq Sessions
  /\ kernel \in [Prompts -> {"none", "running", "answered", "read", "lost"}]
  /\ replies \in [Prompts -> 0..2]

Listening == connection \in {"open", "stopping"}
Of(s) == {p \in Prompts : SessionOf[p] = s}
Claimed == {p \in Prompts : claims[SessionOf[p]] = p}

----------------------------------------------------------------------------
(* The two writers. *)

\* #writeClient: dropped once the proxy stops; a full pipe pauses the kernel's
\* output, unless the kernel has exited.
WriteClient(p) ==
  IF connection # "open"
    THEN UNCHANGED <<replies, childPaused>>
    ELSE /\ replies' = [replies EXCEPT ![p] = @ + 1]
         /\ childPaused' \in IF child = "drained" THEN {childPaused} ELSE {childPaused, TRUE}

\* #writeChild: a full pipe pauses the client's input.
WriteChild(p) ==
  /\ kernel' = [kernel EXCEPT ![p] = IF child = "up" THEN "running" ELSE "lost"]
  /\ inputPaused' \in {inputPaused, TRUE}

\* Mutant: the claim of the session is dropped, whoever holds it now.
EndTurnUnchecked(p) ==
  /\ step' = [step EXCEPT ![p] = "done"]
  /\ claims' = [claims EXCEPT ![SessionOf[p]] = NoPrompt]
  /\ timers' = timers \ {SessionOf[p]}

\* The finally block of #handlePrompt: only the holder's own claim and timer go.
EndTurn(p) ==
  /\ step' = [step EXCEPT ![p] = "done"]
  /\ IF claims[SessionOf[p]] = p
       THEN /\ claims' = [claims EXCEPT ![SessionOf[p]] = NoPrompt]
            /\ timers' = timers \ {SessionOf[p]}
       ELSE UNCHANGED <<claims, timers>>

----------------------------------------------------------------------------
(* One prompt: #onClientMessage, #handlePrompt. *)

\* Mutant: a second prompt of the session takes the claim over.
ReceivePromptUnchecked(p) ==
  /\ Listening /\ ~inputPaused /\ step[p] = "new"
  /\ claims' = [claims EXCEPT ![SessionOf[p]] = p]
  /\ step' = [step EXCEPT ![p] = "context"]
  /\ UNCHANGED <<fenced, connection, child, plumbing, aborted, pending, timers, kernel, replies>>

\* A prompt arrives: its claim is taken, or the session has an active prompt.
ReceivePrompt(p) ==
  /\ Listening /\ ~inputPaused /\ step[p] = "new"
  /\ \/ /\ claims[SessionOf[p]] = NoPrompt
        /\ claims' = [claims EXCEPT ![SessionOf[p]] = p]
        /\ step' = [step EXCEPT ![p] = "context"]
        /\ UNCHANGED <<replies, childPaused>>
     \/ /\ claims[SessionOf[p]] # NoPrompt
        /\ step' = [step EXCEPT ![p] = "done"]
        /\ WriteClient(p)
        /\ UNCHANGED claims
  /\ UNCHANGED <<fenced, connection, child, inputPaused, aborted, pending, timers, kernel>>

\* The prompt ends without a write: its context fails, its claim is aborted, or
\* admission ends without a lease.  The client is told, if it still listens.
EndUnsent(p) ==
  /\ step[p] \in {"context", "queued"}
  /\ EndTurn(p)
  /\ WriteClient(p)
  /\ UNCHANGED <<fenced, connection, child, inputPaused, aborted, pending, kernel>>

\* injectPrompt is done, and the prompt waits for admission.
Enqueue(p) ==
  /\ fenced /\ connection # "closed"
  /\ step[p] = "context" /\ p \notin aborted
  /\ step' = [step EXCEPT ![p] = "queued"]
  /\ UNCHANGED <<fenced, connection, child, plumbing, aborted, claims, pending, timers,
                 kernel, replies>>

\* #track and the write, at once without admission, with a lease otherwise.
Forward(p) ==
  /\ step[p] = IF fenced THEN "queued" ELSE "context"
  /\ connection = "open" /\ p \notin aborted
  /\ pending' = pending \cup {p}
  /\ WriteChild(p)
  /\ step' = [step EXCEPT ![p] = "sent"]
  /\ UNCHANGED <<fenced, connection, child, childPaused, aborted, claims, timers, replies>>

\* The prompt is tracked, but the boundary before the write throws: the record is
\* refused, the kernel is gone, or the proxy stops (writeChild).
ForwardRefused(p) ==
  /\ step[p] = IF fenced THEN "queued" ELSE "context"
  /\ Listening /\ p \notin aborted
  /\ \/ connection = "stopping"
     \/ fenced /\ (p \in MayFail \/ child # "up")
  /\ pending' = pending \cup {p}
  /\ EndTurn(p)
  /\ WriteClient(p)
  /\ UNCHANGED <<fenced, connection, child, inputPaused, aborted, kernel>>

\* The prompt is written, then markActive throws (afterPromptWrite).
ForwardedUnfenced(p) ==
  /\ fenced /\ p \in MayFail
  /\ step[p] = "queued" /\ connection = "open" /\ p \notin aborted
  /\ pending' = pending \cup {p}
  /\ WriteChild(p)
  /\ EndTurn(p)
  /\ WriteClient(p)
  /\ UNCHANGED <<fenced, connection, child, aborted>>

\* Mutant: the handler answers again what the kernel's own answer has answered.
SettleAnswersAgain(p) ==
  /\ step[p] = "resolved"
  /\ EndTurn(p)
  /\ WriteClient(p)
  /\ UNCHANGED <<fenced, connection, child, inputPaused, aborted, pending, kernel>>

\* The handler resumes after the answer, or after finish resolved it.
Settle(p) ==
  /\ step[p] = "resolved"
  /\ EndTurn(p)
  /\ UNCHANGED <<fenced, connection, child, plumbing, aborted, pending, kernel, replies>>

\* #onChildMessage, an answer.  An unknown id is forwarded as it is; the answer of
\* a pending prompt first frees the session of its claim and its timer.
ReadAnswer(p) ==
  /\ Listening /\ ~childPaused /\ kernel[p] = "answered"
  /\ kernel' = [kernel EXCEPT ![p] = "read"]
  /\ IF p \in pending
       THEN /\ pending' = pending \ {p}
            /\ claims' = [claims EXCEPT ![SessionOf[p]] = NoPrompt]
            /\ timers' = timers \ {SessionOf[p]}
            /\ step' = [step EXCEPT ![p] = IF @ = "sent" THEN "resolved" ELSE @]
       ELSE UNCHANGED <<pending, claims, timers, step>>
  /\ WriteClient(p)
  /\ UNCHANGED <<fenced, connection, child, inputPaused, aborted>>

----------------------------------------------------------------------------
(* Cancellation. *)

\* Mutant: the timer is kept under the prompt's id instead of its session.
CancelById(s) ==
  /\ Listening /\ ~inputPaused
  /\ aborted' = aborted \cup (Of(s) \cap Claimed)
  /\ timers' = timers \cup (Of(s) \cap pending)
  /\ inputPaused' \in {inputPaused, TRUE}
  /\ UNCHANGED <<fenced, connection, child, childPaused, step, claims, pending, kernel, replies>>

\* Mutant: only the claim is aborted, and the kernel is trusted to answer.
CancelWithoutTimer(s) ==
  /\ Listening /\ ~inputPaused
  /\ aborted' = aborted \cup (Of(s) \cap Claimed)
  /\ inputPaused' \in {inputPaused, TRUE}
  /\ UNCHANGED <<fenced, connection, child, childPaused, step, claims, pending, timers,
                 kernel, replies>>

\* session/cancel: the claim is aborted, a prompt that awaits its answer gets a
\* deadline, and the notification is forwarded.
Cancel(s) ==
  /\ Listening /\ ~inputPaused
  /\ aborted' = aborted \cup (Of(s) \cap Claimed)
  /\ timers' = IF Of(s) \cap pending # {} THEN timers \cup {s} ELSE timers
  /\ inputPaused' \in IF connection = "open" THEN {inputPaused, TRUE} ELSE {inputPaused}
  /\ UNCHANGED <<fenced, connection, child, childPaused, step, claims, pending, kernel, replies>>

----------------------------------------------------------------------------
(* Shutdown. *)

\* #shutdown: no more writes, the kernel's output flows again, the kernel gets
\* end-of-file and SIGTERM.
Stop ==
  /\ connection = "open"
  /\ connection' = "stopping"
  /\ childPaused' = FALSE
  /\ aborted' = aborted \cup Claimed
  /\ UNCHANGED <<fenced, child, inputPaused, step, claims, pending, timers, kernel, replies>>

\* The client ends its input, or a stream of any side fails.
EndInput == ~inputPaused /\ Stop
StreamError == Stop

\* The kernel did not acknowledge a cancellation in time.
CancelTimeout(s) == s \in timers /\ Stop

\* finish, on the child's close event: its output is read to the end.
Finish ==
  /\ Listening /\ child = "drained" /\ ~childPaused
  /\ \A p \in Prompts : kernel[p] # "answered"
  /\ connection' = "closed"
  /\ aborted' = aborted \cup Claimed
  /\ step' = [p \in Prompts |->
       IF p \in pending /\ step[p] = "sent" THEN "resolved" ELSE step[p]]
  /\ pending' = {} /\ timers' = {}
  /\ UNCHANGED <<fenced, child, plumbing, claims, kernel, replies>>

\* Every handler in flight has ended: coordinator and store are closed.
Release ==
  /\ connection = "closed"
  /\ \A p \in Prompts : step[p] \in {"new", "done"}
  /\ connection' = "released"
  /\ claims' = [s \in Sessions |-> NoPrompt]
  /\ UNCHANGED <<fenced, child, plumbing, step, aborted, pending, timers, kernel, replies>>

\* Mutant: the exit of the kernel does not resume its output.
ExitSeenPaused ==
  /\ child = "exited" /\ child' = "drained"
  /\ UNCHANGED <<fenced, connection, plumbing, turnVars>>

\* onExit: the rest of the output is read without regard to the client.
ExitSeen ==
  /\ Listening /\ child = "exited"
  /\ child' = "drained" /\ childPaused' = FALSE
  /\ UNCHANGED <<fenced, connection, inputPaused, turnVars>>

----------------------------------------------------------------------------
(* The kernel and the two pipes (external). *)

KernelAnswers(p) ==
  /\ child = "up" /\ kernel[p] = "running"
  /\ kernel' = [kernel EXCEPT ![p] = "answered"]
  /\ UNCHANGED <<fenced, connection, child, plumbing, step, aborted, claims, pending, timers,
                 replies>>

\* Updates of the kernel fill the pipe to the client.
KernelStreams ==
  /\ connection = "open" /\ child # "drained" /\ ~childPaused
  /\ childPaused' = TRUE
  /\ UNCHANGED <<fenced, connection, child, inputPaused, turnVars>>

ClientReads ==
  /\ childPaused /\ Listening
  /\ childPaused' = FALSE
  /\ UNCHANGED <<fenced, connection, child, inputPaused, turnVars>>

KernelReads ==
  /\ inputPaused /\ connection = "open" /\ child = "up"
  /\ inputPaused' = FALSE
  /\ UNCHANGED <<fenced, connection, child, childPaused, turnVars>>

KernelExits ==
  /\ child = "up" /\ child' = "exited"
  /\ kernel' = [p \in Prompts |-> IF kernel[p] = "running" THEN "lost" ELSE kernel[p]]
  /\ UNCHANGED <<fenced, connection, plumbing, step, aborted, claims, pending, timers, replies>>

\* SIGTERM was ignored for two seconds: SIGKILL.
Kill == connection = "stopping" /\ KernelExits

----------------------------------------------------------------------------
Init ==
  /\ fenced \in BOOLEAN
  /\ connection = "open" /\ child = "up"
  /\ childPaused = FALSE /\ inputPaused = FALSE
  /\ step = [p \in Prompts |-> "new"]
  /\ aborted = {} /\ pending = {} /\ timers = {}
  /\ claims = [s \in Sessions |-> NoPrompt]
  /\ kernel = [p \in Prompts |-> "none"]
  /\ replies = [p \in Prompts |-> 0]

PromptNext ==
  \E p \in Prompts :
    \/ ReceivePrompt(p) \/ EndUnsent(p) \/ Enqueue(p) \/ Forward(p) \/ ForwardRefused(p)
    \/ ForwardedUnfenced(p) \/ ReadAnswer(p) \/ Settle(p)

ShutdownNext ==
  \/ \E s \in Sessions : Cancel(s) \/ CancelTimeout(s)
  \/ EndInput \/ StreamError \/ ExitSeen \/ Finish \/ Release

KernelNext ==
  \/ \E p \in Prompts : KernelAnswers(p)
  \/ KernelStreams \/ ClientReads \/ KernelReads \/ KernelExits \/ Kill

Next == PromptNext \/ ShutdownNext \/ KernelNext

Spec == Init /\ [][Next]_vars

\* What runs whatever client and kernel do: handlers whose await is over, the two
\* timers, the events of a child that has exited.  An aborted claim ends the wait
\* for the context (raceClaim), a deadline the wait for admission.
Fairness ==
  /\ \A p \in Prompts :
       /\ WF_vars(p \in aborted /\ EndUnsent(p))
       /\ WF_vars(step[p] = "queued" /\ (EndUnsent(p) \/ Forward(p) \/ ForwardRefused(p)))
       /\ WF_vars(connection # "open" /\ ReadAnswer(p))
       /\ WF_vars(child = "drained" /\ ReadAnswer(p))
       /\ WF_vars(Settle(p))
  /\ \A s \in Sessions : WF_vars(CancelTimeout(s))
  /\ WF_vars(Kill) /\ WF_vars(ExitSeen) /\ WF_vars(Finish) /\ WF_vars(Release)

FairSpec == Spec /\ Fairness

----------------------------------------------------------------------------
(* Properties.  A prompt is sound when no store transaction of its session    *)
(* fails around a write; what a failed one leaves behind is OnePromptAtATime. *)

Sound == {p \in Prompts : Of(SessionOf[p]) \cap MayFail = {}}
AtKernel == {p \in Prompts : kernel[p] \in {"running", "answered"}}

\* Whoever cancels or stops finds every unfinished turn: its session's claim names
\* it until its answer is read, also when turns of the session follow each other
\* faster than their handlers end.
TurnHoldsClaim ==
  \A p \in Sound :
    step[p] \in {"context", "queued", "sent"} /\ connection # "released"
      => claims[SessionOf[p]] = p

\* The client hears of the end of a turn once, and not before the kernel is done
\* with it, so it never starts the next turn of a session on top of the last.
AnsweredWhenDone ==
  \A p \in Sound :
    /\ replies[p] <= 1
    /\ replies[p] = 1 => p \notin AtKernel

\* A session has one prompt at the kernel at a time.
OneTurnPerSession ==
  \A p, q \in AtKernel \cap Sound : SessionOf[p] = SessionOf[q] => p = q

AwaitsCancel(s) == \E p \in Of(s) : step[p] = "sent" /\ p \in aborted

\* The deadline of a session runs while a cancelled turn of it waits for the kernel, and
\* then only: it is not lost to a turn that ended before, nor does it outlive its turn
\* to stop the connector under the next one (#cancelTimers).
CancelDeadlines ==
  connection = "open" =>
    \A s \in Sessions : Of(s) \subseteq Sound =>
      /\ AwaitsCancel(s) => s \in timers
      /\ child = "up" /\ s \in timers => AwaitsCancel(s)

\* A prompt the client was told has ended is not forwarded any more, so that the client
\* may send it again, also when store transactions fail (#handlePrompt).
RefusedNeverForwarded ==
  [][\A p \in Prompts : replies[p] > 0 /\ kernel[p] = "none" => kernel'[p] = "none"]_vars

\* A turn that was cancelled ends, also when the kernel never answers: the
\* cancel timer stops the connector.
CancelEnds == \A p \in Sound : p \in aborted ~> step[p] = "done"

\* Once the proxy stops or the kernel has exited, everything is closed in the end,
\* also when the client never reads what fills its pipe.
ShutdownEnds == connection # "open" \/ child # "up" ~> connection = "released"

\* proxy.ts:358: a session with an active prompt takes no other one.
OnePromptAtATime ==
  \A p, q \in AtKernel : SessionOf[p] = SessionOf[q] => p = q
============================================================================
