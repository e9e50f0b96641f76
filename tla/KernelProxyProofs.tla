------------------------- MODULE KernelProxyProofs -------------------------
(***************************************************************************)
(* Theorems of KernelProxy: its types and the three safety properties of a *)
(* prompt whose session's store does not fail, for every set of prompts    *)
(* and sessions.                                                           *)
(***************************************************************************)
EXTENDS KernelProxy, TLAPS

\* What holds of every prompt.  A prompt that was not forwarded has no work and no
\* reply; until its answer is read it has at most the reply of its handler.  The
\* proxy listens until the kernel's output is read to the end.
LoopInv ==
  /\ TypeOK
  /\ ~Listening => child = "drained"
  /\ \A p \in Prompts :
       /\ step[p] \in {"new", "context", "queued"} => kernel[p] = "none" /\ replies[p] = 0
       /\ kernel[p] \in {"none", "running", "answered"} => replies[p] <= 1
       /\ kernel[p] = "running" => child = "up"
       /\ kernel[p] = "answered" => Listening

\* What holds of a sound prompt: the kernel works only for a handler that waits, a
\* handler that waits is tracked and holds the claim of its session.
TurnInv(p) ==
  /\ p \in AtKernel => step[p] = "sent"
  /\ step[p] = "sent" => replies[p] = 0 /\ (Listening => p \in pending)
  /\ step[p] \in {"context", "queued", "sent"} /\ connection # "released"
       => claims[SessionOf[p]] = p
  /\ replies[p] <= 1

SoundInv == LoopInv /\ \A p \in Sound : TurnInv(p)

LEMMA InitSoundInv == Init => SoundInv
<1> SUFFICES ASSUME Init PROVE SoundInv
  OBVIOUS
<1>1. TypeOK
  <2>1. 0 \in 0..2
    OBVIOUS
  <2>2. QED
    BY <2>1, Zenon DEF Init, TypeOK, Steps
<1>2. LoopInv
  BY <1>1 DEF Init, LoopInv, Listening
<1>3. ASSUME NEW p \in Prompts PROVE TurnInv(p)
  BY <1>3 DEF Init, TurnInv, AtKernel
<1>4. QED
  BY <1>2, <1>3 DEF SoundInv, Sound

----------------------------------------------------------------------------
(* Every step keeps LoopInv. *)

\* The writer of the client changes the replies to one prompt and the pause only.
LEMMA WriteClientStep ==
  ASSUME TypeOK, NEW p \in Prompts, WriteClient(p)
  PROVE  /\ childPaused' \in BOOLEAN
         /\ \/ replies' = replies
            \/ replies' = [replies EXCEPT ![p] = replies[p] + 1]
BY DEF TypeOK, WriteClient

\* A write to the kernel gives it the prompt, or loses the prompt with the kernel.
LEMMA WriteChildStep ==
  ASSUME TypeOK, NEW p \in Prompts, WriteChild(p)
  PROVE  /\ inputPaused' \in BOOLEAN
         /\ \/ child = "up" /\ kernel' = [kernel EXCEPT ![p] = "running"]
            \/ kernel' = [kernel EXCEPT ![p] = "lost"]
BY DEF TypeOK, WriteChild

\* The end of a handler frees the session's claim when it is its own.
LEMMA EndTurnStep ==
  ASSUME TypeOK, NEW p \in Prompts, EndTurn(p)
  PROVE  /\ step' = [step EXCEPT ![p] = "done"]
         /\ timers' \subseteq Sessions
         /\ claims' \in [Sessions -> Prompts \cup {NoPrompt}]
         /\ \A q \in Prompts : q # p /\ claims[SessionOf[q]] = q
                                 => claims'[SessionOf[q]] = q
BY SessionAssumption DEF TypeOK, EndTurn

\* Every action keeps LoopInv.
LEMMA LoopStep == LoopInv /\ [Next]_vars => LoopInv'
<1> SUFFICES ASSUME LoopInv, [Next]_vars PROVE LoopInv'
  OBVIOUS
<1> USE SessionAssumption DEF LoopInv, Listening
<1>1. ASSUME NEW p \in Prompts, ReceivePrompt(p) PROVE LoopInv'
  BY <1>1, WriteClientStep DEF ReceivePrompt, TypeOK, Steps
<1>2. ASSUME NEW p \in Prompts, EndUnsent(p) PROVE LoopInv'
  BY <1>2, WriteClientStep, EndTurnStep DEF EndUnsent, TypeOK, Steps
<1>3. ASSUME NEW p \in Prompts, Enqueue(p) PROVE LoopInv'
  BY <1>3 DEF Enqueue, TypeOK, Steps, plumbing
<1>4. ASSUME NEW p \in Prompts, Forward(p) PROVE LoopInv'
  BY <1>4 DEF Forward, WriteChild, TypeOK, Steps
<1>5. ASSUME NEW p \in Prompts, ForwardRefused(p) PROVE LoopInv'
  BY <1>5, WriteClientStep, EndTurnStep DEF ForwardRefused, TypeOK, Steps
<1>6. ASSUME NEW p \in Prompts, ForwardedUnfenced(p) PROVE LoopInv'
  BY <1>6, WriteClientStep, WriteChildStep, EndTurnStep DEF ForwardedUnfenced, TypeOK, Steps
<1>7. ASSUME NEW p \in Prompts, ReadAnswer(p) PROVE LoopInv'
  BY <1>7, WriteClientStep DEF ReadAnswer, TypeOK, Steps
<1>8. ASSUME NEW p \in Prompts, Settle(p) PROVE LoopInv'
  BY <1>8, EndTurnStep DEF Settle, TypeOK, Steps, plumbing
<1>9. ASSUME NEW s \in Sessions, Cancel(s) PROVE LoopInv'
  BY <1>9 DEF Cancel, TypeOK, Steps, Of, Claimed
<1>10. ASSUME Stop PROVE LoopInv'
  BY <1>10 DEF Stop, TypeOK, Steps, Claimed
<1>11. ASSUME ExitSeen PROVE LoopInv'
  BY <1>11 DEF ExitSeen, TypeOK, Steps, turnVars
<1>12. ASSUME Finish PROVE LoopInv'
  BY <1>12 DEF Finish, TypeOK, Steps, Claimed, plumbing
<1>13. ASSUME Release PROVE LoopInv'
  BY <1>13 DEF Release, TypeOK, Steps, plumbing
<1>14. ASSUME NEW p \in Prompts, KernelAnswers(p) PROVE LoopInv'
  BY <1>14 DEF KernelAnswers, TypeOK, Steps, plumbing
<1>15. ASSUME KernelExits PROVE LoopInv'
  BY <1>15 DEF KernelExits, TypeOK, Steps, plumbing
<1>16. ASSUME KernelStreams \/ ClientReads \/ KernelReads PROVE LoopInv'
  BY <1>16 DEF KernelStreams, ClientReads, KernelReads, TypeOK, Steps, turnVars
<1>17. CASE UNCHANGED vars
  BY <1>17 DEF vars, turnVars, plumbing, TypeOK, Steps
<1>18. QED
  BY <1>1, <1>2, <1>3, <1>4, <1>5, <1>6, <1>7, <1>8, <1>9, <1>10, <1>11, <1>12, <1>13, <1>14,
     <1>15, <1>16, <1>17
  DEF Next, PromptNext, ShutdownNext, KernelNext, CancelTimeout, EndInput, StreamError, Kill

----------------------------------------------------------------------------
(* Every step keeps the invariant of the sound prompts. *)

\* The prompts of a sound prompt's session are sound.
LEMMA SoundSession ==
  ASSUME NEW p \in Sound, NEW q \in Prompts, SessionOf[p] = SessionOf[q]
  PROVE  q \in Sound
BY DEF Sound, Of

\* A handler that is not at the kernel does not answer twice, and its end does not
\* disturb the others.
LEMMA UnsentStep ==
  ASSUME SoundInv, NEW q \in Prompts, step[q] \in {"context", "queued"},
         EndTurn(q), WriteClient(q), UNCHANGED <<connection, kernel>>,
         pending \subseteq pending', NEW p \in Sound
  PROVE  TurnInv(p)'
<1>1. p \in Prompts /\ TurnInv(p) /\ TypeOK
  BY DEF Sound, SoundInv, LoopInv
<1>2. CASE p = q
  BY <1>1, <1>2, WriteClientStep, EndTurnStep
  DEF SoundInv, LoopInv, TurnInv, AtKernel, TypeOK, Listening
<1>3. CASE p # q
  BY <1>1, <1>3, WriteClientStep, EndTurnStep DEF TurnInv, AtKernel, TypeOK, Listening
<1>4. QED
  BY <1>2, <1>3

\* Every action keeps the invariant of every sound prompt.
LEMMA TurnStep == SoundInv /\ [Next]_vars => \A p \in Sound : TurnInv(p)'
<1> SUFFICES ASSUME SoundInv, [Next]_vars, NEW p \in Sound PROVE TurnInv(p)'
  OBVIOUS
<1>0. p \in Prompts /\ TurnInv(p) /\ LoopInv /\ TypeOK
  BY DEF Sound, SoundInv, LoopInv
<1>1. ASSUME NEW q \in Prompts, ReceivePrompt(q) PROVE TurnInv(p)'
  <2>1. CASE p = q
    BY <1>0, <1>1, <2>1, WriteClientStep, SessionAssumption
    DEF ReceivePrompt, LoopInv, TurnInv, AtKernel, TypeOK, Listening
  <2>2. CASE p # q
    <3>1. claims[SessionOf[p]] = p => claims'[SessionOf[p]] = p
      BY <1>0, <1>1, <2>2, SessionAssumption, NoPromptAssumption DEF ReceivePrompt, TypeOK
    <3>2. QED
      BY <1>0, <1>1, <2>2, <3>1, WriteClientStep DEF ReceivePrompt, TurnInv, AtKernel, TypeOK, Listening
  <2>3. QED
    BY <2>1, <2>2
<1>2. ASSUME NEW q \in Prompts, EndUnsent(q) PROVE TurnInv(p)'
  BY <1>2, UnsentStep DEF EndUnsent
<1>3. ASSUME NEW q \in Prompts, Enqueue(q) PROVE TurnInv(p)'
  BY <1>0, <1>3 DEF Enqueue, LoopInv, TurnInv, AtKernel, TypeOK, Listening
<1>4. ASSUME NEW q \in Prompts, Forward(q) PROVE TurnInv(p)'
  BY <1>0, <1>4 DEF Forward, WriteChild, LoopInv, TurnInv, AtKernel, TypeOK, Listening
<1>5. ASSUME NEW q \in Prompts, ForwardRefused(q) PROVE TurnInv(p)'
  BY <1>5, UnsentStep DEF ForwardRefused
<1>6. ASSUME NEW q \in Prompts, ForwardedUnfenced(q) PROVE TurnInv(p)'
  <2>1. p # q /\ SessionOf[p] # SessionOf[q]
    BY <1>0, <1>6 DEF ForwardedUnfenced, Sound, Of
  <2>2. QED
    BY <1>0, <1>6, <2>1, WriteClientStep, EndTurnStep
    DEF ForwardedUnfenced, WriteChild, TurnInv, AtKernel, TypeOK, Listening
<1>7. ASSUME NEW q \in Prompts, ReadAnswer(q) PROVE TurnInv(p)'
  <2>1. CASE p = q
    BY <1>0, <1>7, <2>1, WriteClientStep
    DEF ReadAnswer, TurnInv, AtKernel, TypeOK, Listening
  <2>2. CASE p # q /\ SessionOf[p] = SessionOf[q]
    <3>1. claims[SessionOf[q]] = q
      <4>1. q \in Sound /\ TurnInv(q)
        BY <2>2, SoundSession DEF SoundInv
      <4>2. QED
        BY <1>7, <4>1 DEF ReadAnswer, TurnInv, AtKernel, Listening
    <3>2. step[p] \notin {"context", "queued", "sent"}
      BY <1>0, <1>7, <2>2, <3>1 DEF ReadAnswer, TurnInv, Listening
    <3>3. step'[p] = step[p] /\ kernel'[p] = kernel[p] /\ replies'[p] = replies[p]
      BY <1>0, <1>7, <2>2, WriteClientStep DEF ReadAnswer, TypeOK
    <3>4. QED
      BY <1>0, <3>2, <3>3 DEF TurnInv, AtKernel
  <2>3. CASE SessionOf[p] # SessionOf[q]
    <3>1. replies'[p] = replies[p]
      BY <1>0, <1>7, <2>3, WriteClientStep DEF ReadAnswer, TypeOK
    <3>2. step'[p] = step[p] /\ kernel'[p] = kernel[p]
      BY <1>0, <1>7, <2>3 DEF ReadAnswer, TypeOK
    <3>3. claims'[SessionOf[p]] = claims[SessionOf[p]]
      BY <1>0, <1>7, <2>3, SessionAssumption DEF ReadAnswer, TypeOK
    <3>4. connection' = connection /\ (p \in pending => p \in pending')
      BY <1>0, <1>7, <2>3 DEF ReadAnswer
    <3>5. QED
      BY <1>0, <3>1, <3>2, <3>3, <3>4 DEF TurnInv, AtKernel, Listening
  <2>4. QED
    BY <2>1, <2>2, <2>3
<1>8. ASSUME NEW q \in Prompts, Settle(q) PROVE TurnInv(p)'
  BY <1>0, <1>8, EndTurnStep DEF Settle, TurnInv, AtKernel, TypeOK, Listening, plumbing
<1>9. ASSUME NEW s \in Sessions, Cancel(s) PROVE TurnInv(p)'
  BY <1>0, <1>9 DEF Cancel, TurnInv, AtKernel, Listening
<1>10. ASSUME Stop PROVE TurnInv(p)'
  BY <1>0, <1>10 DEF Stop, TurnInv, AtKernel, Listening
<1>11. ASSUME ExitSeen PROVE TurnInv(p)'
  BY <1>0, <1>11 DEF ExitSeen, TurnInv, AtKernel, Listening, turnVars
<1>12. ASSUME Finish PROVE TurnInv(p)'
  BY <1>0, <1>12 DEF Finish, LoopInv, TurnInv, AtKernel, Listening, TypeOK, plumbing
<1>13. ASSUME Release PROVE TurnInv(p)'
  BY <1>0, <1>13 DEF Release, LoopInv, TurnInv, AtKernel, Listening, TypeOK, plumbing
<1>14. ASSUME NEW q \in Prompts, KernelAnswers(q) PROVE TurnInv(p)'
  BY <1>0, <1>14 DEF KernelAnswers, TurnInv, AtKernel, TypeOK, Listening, plumbing
<1>15. ASSUME KernelExits PROVE TurnInv(p)'
  BY <1>0, <1>15 DEF KernelExits, TurnInv, AtKernel, TypeOK, Listening, plumbing
<1>16. ASSUME KernelStreams \/ ClientReads \/ KernelReads PROVE TurnInv(p)'
  BY <1>0, <1>16 DEF KernelStreams, ClientReads, KernelReads, TurnInv, AtKernel, Listening, turnVars
<1>17. CASE UNCHANGED vars
  BY <1>0, <1>17 DEF vars, turnVars, TurnInv, AtKernel, Listening
<1>18. QED
  BY <1>1, <1>2, <1>3, <1>4, <1>5, <1>6, <1>7, <1>8, <1>9, <1>10, <1>11, <1>12, <1>13, <1>14,
     <1>15, <1>16, <1>17
  DEF Next, PromptNext, ShutdownNext, KernelNext, CancelTimeout, EndInput, StreamError, Kill

LEMMA SoundAlways == Spec => []SoundInv
<1>1. SoundInv /\ [Next]_vars => SoundInv'
  BY LoopStep, TurnStep DEF SoundInv, Sound, Of
<1>2. QED
  BY InitSoundInv, <1>1, PTL DEF Spec

----------------------------------------------------------------------------
\* The types of the proxy (proxy.ts:63-87): no prompt gets a third reply, even
\* when its store transactions fail around the write.
THEOREM ProxyTypeCorrect == Spec => []TypeOK
<1>1. SoundInv => TypeOK
  BY DEF SoundInv, LoopInv
<1>2. QED
  BY SoundAlways, <1>1, PTL

\* The claim of a session names its unfinished turn until the answer is read
\* (proxy.ts:360, 449, 564), whatever order handlers and answers come in.
THEOREM TurnAlwaysHoldsClaim == Spec => []TurnHoldsClaim
<1>1. SoundInv => TurnHoldsClaim
  BY DEF SoundInv, TurnInv, TurnHoldsClaim
<1>2. QED
  BY SoundAlways, <1>1, PTL

\* A turn is answered once, and not while the kernel works on it (proxy.ts:425-446,
\* 629).
THEOREM AlwaysAnsweredWhenDone == Spec => []AnsweredWhenDone
<1>1. SoundInv => AnsweredWhenDone
  BY DEF SoundInv, TurnInv, AnsweredWhenDone
<1>2. QED
  BY SoundAlways, <1>1, PTL

\* A session has one turn at the kernel (proxy.ts:358), also while an answered
\* turn's handler and the next turn overlap.
THEOREM AlwaysOneTurnPerSession == Spec => []OneTurnPerSession
<1>1. SoundInv => OneTurnPerSession
  <2> SUFFICES ASSUME SoundInv, NEW p \in AtKernel \cap Sound, NEW q \in AtKernel \cap Sound,
                      SessionOf[p] = SessionOf[q]
               PROVE  p = q
    BY DEF OneTurnPerSession
  <2>1. connection # "released"
    BY DEF SoundInv, LoopInv, AtKernel, Listening
  <2>2. QED
    BY <2>1 DEF SoundInv, TurnInv
<1>2. QED
  BY SoundAlways, <1>1, PTL

----------------------------------------------------------------------------
(* The deadlines of cancelled turns.                                        *)

\* While the kernel is there, what is tracked waits for it.
DeadlineInv ==
  connection = "open" =>
    \A s \in Sessions : Of(s) \subseteq Sound =>
      /\ AwaitsCancel(s) => s \in timers
      /\ child = "up" => /\ \A p \in Of(s) \cap pending : step[p] = "sent"
                         /\ s \in timers => AwaitsCancel(s)

\* The end of a handler that does not wait for the kernel: a deadline of its session
\* belongs to another turn, which holds the claim.
LEMMA HandlerEnds ==
  ASSUME SoundInv, DeadlineInv, NEW q \in Prompts, step[q] \in {"context", "queued", "resolved"}, EndTurn(q),
         UNCHANGED <<connection, child, aborted, pending>>
  PROVE  DeadlineInv'
<1> SUFFICES ASSUME connection = "open", NEW s \in Sessions, Of(s) \subseteq Sound
             PROVE  /\ AwaitsCancel(s)' => s \in timers'
                    /\ child = "up" => /\ \A p \in Of(s) \cap pending : step'[p] = "sent"
                                       /\ s \in timers' => AwaitsCancel(s)'
  BY DEF DeadlineInv, Sound, Of
<1>0. TypeOK /\ \A p \in Of(s) : p \in Prompts /\ SessionOf[p] = s /\ TurnInv(p)
  BY DEF SoundInv, LoopInv, Of
<1>1. \A p \in Prompts : step'[p] = IF p = q THEN "done" ELSE step[p]
  BY <1>0 DEF EndTurn, TypeOK
<1>2. AwaitsCancel(s)' <=> AwaitsCancel(s)
  BY <1>0, <1>1 DEF AwaitsCancel, Of
<1>3. s \in timers' => s \in timers
  BY DEF EndTurn
<1>4. AwaitsCancel(s) /\ s \in timers => s \in timers'
  <2> SUFFICES ASSUME AwaitsCancel(s), s \in timers, s \notin timers' PROVE FALSE
    OBVIOUS
  <2>1. SessionOf[q] = s /\ claims[s] = q
    BY DEF EndTurn
  <2>2. PICK p \in Of(s) : step[p] = "sent"
    BY DEF AwaitsCancel
  <2>3. claims[s] = p
    BY <1>0, <2>2 DEF TurnInv
  <2>4. QED
    BY <2>1, <2>2, <2>3
<1>5. QED
  BY <1>0, <1>1, <1>2, <1>3, <1>4 DEF DeadlineInv, Of

LEMMA DeadlineStep == SoundInv /\ DeadlineInv /\ [Next]_vars => DeadlineInv'
<1> SUFFICES ASSUME SoundInv, DeadlineInv, [Next]_vars, connection' = "open", NEW s \in Sessions, Of(s) \subseteq Sound
             PROVE  /\ AwaitsCancel(s)' => s \in timers'
                    /\ child' = "up" => /\ \A p \in Of(s) \cap pending' : step'[p] = "sent"
                                        /\ s \in timers' => AwaitsCancel(s)'
  BY DEF DeadlineInv, Sound, Of
<1> DEFINE Goal == /\ AwaitsCancel(s)' => s \in timers'
                   /\ child' = "up" => /\ \A p \in Of(s) \cap pending' : step'[p] = "sent"
                                       /\ s \in timers' => AwaitsCancel(s)'
<1>0. TypeOK /\ \A p \in Of(s) : p \in Prompts /\ SessionOf[p] = s /\ TurnInv(p)
  BY DEF SoundInv, LoopInv, Of
\* Nothing that matters changes.
<1>1. ASSUME UNCHANGED <<connection, aborted, pending, timers>>, child' = "up" => child = "up",
             \A p \in Of(s) : step'[p] = "sent" <=> step[p] = "sent"
      PROVE  Goal
  BY <1>0, <1>1 DEF DeadlineInv, AwaitsCancel, Of
<1>2. ASSUME NEW q \in Prompts, ReceivePrompt(q) \/ Enqueue(q) PROVE Goal
  BY <1>0, <1>1, <1>2 DEF ReceivePrompt, Enqueue, TypeOK
<1>3. ASSUME NEW q \in Prompts, EndUnsent(q) \/ Settle(q) PROVE Goal
  <2>1. DeadlineInv'
    BY <1>3, HandlerEnds DEF EndUnsent, Settle
  <2>2. QED
    BY <2>1 DEF DeadlineInv, Sound, Of
<1>4. ASSUME NEW q \in Prompts, Forward(q) PROVE Goal
  <2>1. /\ UNCHANGED <<connection, child, aborted, timers>> /\ pending' = pending \cup {q} /\ q \notin aborted
        /\ connection = "open" /\ step[q] # "sent"
        /\ \A p \in Prompts : step'[p] = IF p = q THEN "sent" ELSE step[p]
    BY <1>0, <1>4 DEF Forward, TypeOK
  <2>2. AwaitsCancel(s)' <=> AwaitsCancel(s)
    BY <1>0, <2>1 DEF AwaitsCancel, Of
  <2>3. QED
    BY <1>0, <2>1, <2>2 DEF DeadlineInv, Of
\* Only when the kernel is gone, or in another session.
<1>5. ASSUME NEW q \in Prompts, ForwardRefused(q) \/ ForwardedUnfenced(q) PROVE Goal
  <2>1. /\ connection = "open" /\ UNCHANGED <<connection, child, aborted>> /\ pending' = pending \cup {q}
        /\ EndTurn(q) /\ step[q] # "sent" /\ (q \in MayFail \/ child # "up")
    BY <1>5 DEF ForwardRefused, ForwardedUnfenced, Listening
  <2>2. \A p \in Prompts : step'[p] = IF p = q THEN "done" ELSE step[p]
    BY <1>0, <2>1 DEF EndTurn, TypeOK
  <2>3. AwaitsCancel(s)' <=> AwaitsCancel(s)
    BY <1>0, <2>1, <2>2 DEF AwaitsCancel, Of
  <2>4. AwaitsCancel(s) => s \in timers'
    <3> SUFFICES ASSUME AwaitsCancel(s), s \notin timers' PROVE FALSE
      OBVIOUS
    <3>1. s \in timers
      BY <2>1 DEF DeadlineInv
    <3>2. SessionOf[q] = s /\ claims[s] = q
      BY <2>1, <3>1 DEF EndTurn
    <3>3. PICK p \in Of(s) : step[p] = "sent"
      BY DEF AwaitsCancel
    <3>4. claims[s] = p
      BY <1>0, <2>1, <3>3 DEF TurnInv
    <3>5. QED
      BY <2>1, <3>2, <3>3, <3>4
  <2>5. CASE child # "up"
    BY <2>1, <2>3, <2>4, <2>5
  <2>6. CASE child = "up"
    <3>1. SessionOf[q] # s
      BY <2>1, <2>6 DEF Of, Sound
    <3>2. timers' \subseteq timers
      BY <2>1 DEF EndTurn
    <3>3. QED
      BY <1>0, <2>1, <2>2, <2>3, <2>4, <2>6, <3>1, <3>2 DEF DeadlineInv, Of
  <2>7. QED
    BY <2>5, <2>6
<1>6. ASSUME NEW q \in Prompts, ReadAnswer(q) PROVE Goal
  <2>0. UNCHANGED <<connection, child, aborted>> /\ connection = "open"
    BY <1>6 DEF ReadAnswer
  <2>1. CASE q \notin pending
    BY <1>1, <1>6, <2>0, <2>1 DEF ReadAnswer
  <2>2. CASE q \in pending /\ SessionOf[q] # s
    <3>1. /\ pending' = pending \ {q} /\ (s \in timers' <=> s \in timers)
          /\ \A p \in Of(s) : step'[p] = step[p]
      BY <1>0, <1>6, <2>2 DEF ReadAnswer, TypeOK, Of
    <3>2. AwaitsCancel(s)' <=> AwaitsCancel(s)
      BY <1>0, <2>0, <3>1 DEF AwaitsCancel, Of
    <3>3. QED
      BY <2>0, <3>1, <3>2 DEF DeadlineInv, Of
  <2>3. CASE q \in pending /\ SessionOf[q] = s
    <3>1. q \in Of(s) /\ step[q] = "sent" /\ claims[s] = q
      BY <1>0, <1>6, <2>0, <2>3 DEF ReadAnswer, TurnInv, AtKernel, Of
    <3>2. /\ pending' = pending \ {q} /\ timers' = timers \ {s}
          /\ \A p \in Prompts : step'[p] = IF p = q THEN "resolved" ELSE step[p]
      BY <1>0, <1>6, <2>3, <3>1 DEF ReadAnswer, TypeOK
    <3>3. ~AwaitsCancel(s)'
      BY <1>0, <2>0, <3>1, <3>2 DEF AwaitsCancel, Of, TurnInv
    <3>4. \A p \in Of(s) \cap pending' : step'[p] = step[p]
      BY <1>0, <3>2
    <3>5. QED
      BY <2>0, <3>2, <3>3, <3>4 DEF DeadlineInv
  <2>4. QED
    BY <2>1, <2>2, <2>3
<1>7. ASSUME NEW z \in Sessions, Cancel(z) PROVE Goal
  <2>1. /\ UNCHANGED <<connection, child, pending, step, claims>> /\ connection = "open"
        /\ aborted' = aborted \cup (Of(z) \cap Claimed)
        /\ timers' = IF Of(z) \cap pending # {} THEN timers \cup {z} ELSE timers
    BY <1>7 DEF Cancel
  <2>2. CASE z # s
    <3>1. AwaitsCancel(s)' <=> AwaitsCancel(s)
      BY <1>0, <2>1, <2>2 DEF AwaitsCancel, Of
    <3>2. QED
      BY <2>1, <2>2, <3>1 DEF DeadlineInv, Of
  <2>3. CASE z = s
    <3>1. AwaitsCancel(s)' => s \in timers'
      <4> SUFFICES ASSUME AwaitsCancel(s)' PROVE s \in timers'
        OBVIOUS
      <4>1. PICK p \in Of(s) : step[p] = "sent"
        BY <2>1 DEF AwaitsCancel, Of
      <4>2. p \in pending
        BY <1>0, <2>1, <4>1 DEF TurnInv, Listening
      <4>3. QED
        BY <2>1, <2>3, <4>1, <4>2
    <3>2. ASSUME NEW p \in Of(s), p \in pending, child = "up" PROVE step[p] = "sent" /\ AwaitsCancel(s)'
      <4>1. step[p] = "sent"
        BY <2>1, <3>2 DEF DeadlineInv
      <4>2. p \in Claimed
        BY <1>0, <2>1, <4>1 DEF TurnInv, Claimed
      <4>3. QED
        BY <2>1, <2>3, <4>1, <4>2 DEF AwaitsCancel, Of
    <3>3. AwaitsCancel(s) => AwaitsCancel(s)'
      BY <2>1 DEF AwaitsCancel, Of
    <3>4. QED
      BY <2>1, <2>3, <3>1, <3>2, <3>3 DEF DeadlineInv
  <2>4. QED
    BY <2>2, <2>3
<1>8. CASE Stop \/ Finish \/ Release
  BY <1>8 DEF Stop, Finish, Release
<1>9. CASE ExitSeen \/ KernelExits \/ KernelStreams \/ ClientReads \/ KernelReads
  BY <1>1, <1>9 DEF ExitSeen, KernelExits, KernelStreams, ClientReads, KernelReads, turnVars
<1>10. ASSUME NEW q \in Prompts, KernelAnswers(q) PROVE Goal
  BY <1>1, <1>10 DEF KernelAnswers
<1>11. CASE UNCHANGED vars
  BY <1>1, <1>11 DEF vars, turnVars
<1>12. QED
  BY <1>2, <1>3, <1>4, <1>5, <1>6, <1>7, <1>8, <1>9, <1>10, <1>11
  DEF Next, PromptNext, ShutdownNext, KernelNext, CancelTimeout, EndInput, StreamError, Kill

\* A deadline runs for a session exactly while a cancelled turn of it waits for the
\* kernel (proxy.ts:449, 564): none is lost, and none stops the connector under the next turn.
THEOREM AlwaysCancelDeadlines == Spec => []CancelDeadlines
<1>1. Init => DeadlineInv
  BY DEF Init, DeadlineInv, AwaitsCancel, Of
<1>2. DeadlineInv => CancelDeadlines
  BY DEF DeadlineInv, CancelDeadlines
<1>3. QED
  BY SoundAlways, DeadlineStep, <1>1, <1>2, PTL DEF Spec

\* Once the client was told that a prompt ended, it is not forwarded any more, also when
\* transactions of the store fail around the write (proxy.ts:425-446).
THEOREM AlwaysRefusedNeverForwarded == Spec => RefusedNeverForwarded
<1>1. ASSUME LoopInv, [Next]_vars, NEW p \in Prompts, replies[p] > 0, kernel[p] = "none" PROVE kernel'[p] = "none"
  <2>1. kernel \in [Prompts -> {"none", "running", "answered", "read", "lost"}]
    BY <1>1 DEF LoopInv, TypeOK
  <2>2. ASSUME NEW q \in Prompts, Forward(q) \/ ForwardedUnfenced(q) PROVE kernel'[p] = "none"
    <3>1. p # q
      BY <1>1, <2>2 DEF LoopInv, Forward, ForwardedUnfenced
    <3>2. QED
      BY <1>1, <2>1, <2>2, <3>1 DEF Forward, ForwardedUnfenced, WriteChild
  <2>3. ASSUME NEW q \in Prompts, ReadAnswer(q) \/ KernelAnswers(q) PROVE kernel'[p] = "none"
    BY <1>1, <2>1, <2>3 DEF ReadAnswer, KernelAnswers
  <2>4. ASSUME NEW q \in Prompts, ReceivePrompt(q) \/ EndUnsent(q) \/ Enqueue(q) \/ ForwardRefused(q) \/ Settle(q)
        PROVE  kernel'[p] = "none"
    BY <1>1, <2>4 DEF ReceivePrompt, EndUnsent, Enqueue, ForwardRefused, Settle
  <2>5. ASSUME (\E s \in Sessions : Cancel(s)) \/ Stop \/ ExitSeen \/ Finish \/ Release PROVE kernel'[p] = "none"
    BY <1>1, <2>5 DEF Cancel, Stop, ExitSeen, Finish, Release, turnVars
  <2>6. ASSUME KernelStreams \/ ClientReads \/ KernelReads \/ KernelExits \/ UNCHANGED vars PROVE kernel'[p] = "none"
    BY <1>1, <2>1, <2>6 DEF KernelStreams, ClientReads, KernelReads, KernelExits, turnVars, vars
  <2>7. QED
    BY <1>1, <2>2, <2>3, <2>4, <2>5, <2>6
    DEF Next, PromptNext, ShutdownNext, KernelNext, CancelTimeout, EndInput, StreamError, Kill
<1>2. LoopInv /\ [Next]_vars => [\A p \in Prompts : replies[p] > 0 /\ kernel[p] = "none" => kernel'[p] = "none"]_vars
  BY <1>1
<1>3. SoundInv => LoopInv
  BY DEF SoundInv
<1>4. QED
  BY SoundAlways, <1>2, <1>3, PTL DEF Spec, RefusedNeverForwarded
============================================================================
