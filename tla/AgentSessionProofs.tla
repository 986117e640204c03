------------------------- MODULE AgentSessionProofs -------------------------
(***************************************************************************)
(* Proofs about AgentSession for any number of runs, every budget and      *)
(* every mixture of turns, with runs that overlap.                         *)
(***************************************************************************)
EXTENDS AgentSession, TLAPS

USE DEF queues, transcript, retries, findings, budgets, lifecycle, bounds, history, setup,
    InRun, Labels

-----------------------------------------------------------------------------
(* The agent's lock.  The induction needs the domain of pc, nothing else   *)
(* of the types.                                                           *)

Places == pc \in [Runs -> Labels]

\* The backoff that a cancellation can end belongs to a run that sleeps.
Asleep == backoff \in Runs => pc[backoff] = "sleeping"

\* Ending a backoff moves at most one run, and only out of its sleep.
LEMMA Woken ==
  ASSUME Asleep, EndBackoff
  PROVE  UNCHANGED pc \/ \E q \in Runs : pc[q] = "sleeping" /\ Goto(q, "judge")
BY DEF Asleep, EndBackoff, Goto

\* A step of a run that is not asleep leaves the latest backoff to its owner.
LEMMA AsleepKept ==
  ASSUME Places, Asleep, NEW r \in Runs, NEW label \in Labels, Goto(r, label),
         pc[r] # "sleeping", UNCHANGED backoff
  PROVE  Places' /\ Asleep'
BY DEF Places, Asleep, Goto

LEMMA AsleepStep ==
  ASSUME SessionAssumption, Places, Asleep, [Next]_vars
  PROVE  Places' /\ Asleep'
<1>1. CASE UNCHANGED <<pc, backoff>>
  BY <1>1 DEF Places, Asleep
<1>2. CASE Environment
  <2>1. CASE QueueUser \/ QueueCustom \/ RaiseDecision \/ AnswerDecision \/ WaitForIdle
    BY <2>1, <1>1 DEF QueueUser, QueueCustom, Queued, RaiseDecision, AnswerDecision,
       WaitForIdle
  <2>2. CASE AbortRetry \/ Abort
    BY <2>2 DEF AbortRetry, Abort, EndBackoff, Places, Asleep, SessionAssumption
  <2> QED
    BY <1>2, <2>1, <2>2 DEF Environment
<1>3. ASSUME NEW r \in Runs, Prompt(r) \/ TriggerTurn(r) PROVE Places' /\ Asleep'
  BY <1>3, AsleepKept DEF Prompt, TriggerTurn, StartRun
<1>4. ASSUME NEW r \in Runs, Step(r) PROVE Places' /\ Asleep'
  <2>1. CASE PrepareRetry(r)
    BY <2>1 DEF PrepareRetry, Goto, Places, Asleep
  <2>2. CASE BackoffEnds(r)
    BY <2>2 DEF BackoffEnds, Goto, Places, Asleep, SessionAssumption
  <2>3. CASE PreflightFails(r) \/ PreflightPasses(r) \/ LoopEnds(r) \/ NoRetry(r)
    BY <2>3, AsleepKept DEF PreflightFails, PreflightPasses, StartRun, LoopEnds, NoRetry
  <2>4. CASE PromptAgent(r) \/ ContinueAgent(r) \/ RecoverIncomplete(r)
    <3>1. /\ pc[r] # "sleeping" /\ UNCHANGED backoff
          /\ \E label \in {"finally", "attempt"} : Goto(r, label)
      BY <2>4 DEF PromptAgent, ContinueAgent, RecoverIncomplete, Leave, Reject, Acquire
    <3> QED
      BY <3>1, AsleepKept
  <2>5. CASE Inject(r) \/ Turn(r)
    <3>1. /\ pc[r] # "sleeping" /\ UNCHANGED backoff
          /\ UNCHANGED pc \/ Goto(r, "ended")
      BY <2>5 DEF Inject, Turn, MessageEnd
    <3> QED
      BY <3>1, <1>1, AsleepKept
  <2>6. CASE FinishRun(r) \/ Judge(r) \/ CompactionFails(r) \/ CompactionCommits(r)
    <3>1. /\ pc[r] # "sleeping" /\ UNCHANGED backoff
          /\ \E label \in Labels : Goto(r, label)
      BY <2>6 DEF FinishRun, Judge, CompactionFails, CompactionCommits, AfterCheck
    <3> QED
      BY <3>1, AsleepKept
  <2>7. CASE Decide(r) \/ Settle(r) \/ Settled(r)
    <3>1. /\ pc[r] # "sleeping" /\ UNCHANGED backoff
          /\ \E label \in Labels : Goto(r, label)
      BY <2>7 DEF Decide, Settle, Settled
    <3> QED
      BY <3>1, AsleepKept
  <2> QED
    BY <1>4, <2>1, <2>2, <2>3, <2>4, <2>5, <2>6, <2>7 DEF Step
<1> QED
  BY <1>1, <1>2, <1>3, <1>4 DEF Next, vars

LEMMA AlwaysAsleep == SessionAssumption => (Spec => []Asleep)
<1> SUFFICES ASSUME SessionAssumption PROVE Spec => []Asleep
  OBVIOUS
<1>1. Init => Places /\ Asleep
  BY DEF Init, Places, Asleep, SessionAssumption
<1>2. Places /\ Asleep /\ [Next]_vars => (Places /\ Asleep)'
  BY AsleepStep
<1> QED
  BY <1>1, <1>2, PTL DEF Spec

LockInv == Places /\ OneAttempt

\* Being given or refused the agent: one way in, and no way to two holders.
LEMMA LockTaken ==
  ASSUME SessionAssumption, LockInv, NEW r \in Runs,
         pc[r] \notin {"attempt", "ended"},
         \/ ~Busy /\ Acquire(r)
         \/ Leave(r)
         \/ \E why \in {"busy", "tail"} : Reject(r, why)
  PROVE  LockInv'
<1> USE DEF LockInv, Places, OneAttempt, SessionAssumption
<1>1. CASE ~Busy /\ Acquire(r)
  BY <1>1 DEF Busy, Acquire, Goto
<1>2. CASE Leave(r)
  BY <1>2 DEF Leave, Goto
<1>3. CASE \E why \in {"busy", "tail"} : Reject(r, why)
  BY <1>3 DEF Reject, Goto
<1> QED
  BY <1>1, <1>2, <1>3

\* A step of a run that is outside an attempt before and after it, and one
\* that only moves inside the attempt, keep the lock where it is.
LEMMA LockKept ==
  ASSUME LockInv, NEW r \in Runs, NEW label \in Labels, Goto(r, label),
         UNCHANGED activeRun,
         pc[r] \in {"attempt", "ended"} <=> label \in {"attempt", "ended"}
  PROVE  LockInv'
BY DEF LockInv, Places, OneAttempt, Goto

LEMMA LockStep ==
  ASSUME SessionAssumption, Asleep, LockInv, [Next]_vars
  PROVE  LockInv'
<1>1. CASE UNCHANGED <<pc, activeRun>>
  BY <1>1 DEF LockInv, Places, OneAttempt
<1>2. CASE Environment
  <2>1. CASE QueueUser \/ QueueCustom \/ RaiseDecision \/ AnswerDecision \/ WaitForIdle
    BY <2>1, <1>1 DEF QueueUser, QueueCustom, Queued, RaiseDecision, AnswerDecision,
                 WaitForIdle
  <2>2. CASE AbortRetry \/ Abort
    <3>1. UNCHANGED activeRun /\ EndBackoff
      BY <2>2 DEF AbortRetry, Abort
    <3> QED
      BY <3>1, <1>1, Woken, LockKept
  <2> QED
    BY <1>2, <2>1, <2>2 DEF Environment
<1>3. ASSUME NEW r \in Runs, Prompt(r) \/ TriggerTurn(r) PROVE LockInv'
  <2>1. CASE Prompt(r)
    BY <2>1, LockKept DEF Prompt
  <2>2. CASE TriggerTurn(r)
    BY <2>2, LockKept DEF TriggerTurn, StartRun
  <2> QED
    BY <1>3, <2>1, <2>2
<1>4. ASSUME NEW r \in Runs, Step(r) PROVE LockInv'
  <2>1. CASE PreflightFails(r)
    BY <2>1, LockKept DEF PreflightFails
  <2>2. CASE PreflightPasses(r)
    BY <2>2, LockKept DEF PreflightPasses, StartRun
  <2>3. CASE PromptAgent(r)
    BY <2>3, LockTaken DEF PromptAgent
  <2>4. CASE Inject(r)
    BY <2>4, <1>1 DEF Inject
  <2>5. CASE Turn(r)
    BY <2>5, <1>1, LockKept DEF Turn
  <2>6. CASE LoopEnds(r)
    BY <2>6, LockKept DEF LoopEnds
  <2>7. CASE FinishRun(r)
    <3>1. activeRun' = "nobody" /\ pc[r] = "ended"
      BY <2>7 DEF FinishRun
    <3>2. \E label \in {"finally", "post"} : Goto(r, label)
      BY <2>7 DEF FinishRun
    <3> QED
      BY <3>1, <3>2 DEF LockInv, Places, OneAttempt, Goto, SessionAssumption
  <2>8. CASE PrepareRetry(r) \/ NoRetry(r) \/ BackoffEnds(r)
    BY <2>8, LockKept DEF PrepareRetry, NoRetry, BackoffEnds
  <2>9. CASE Judge(r)
    <3>1. pc[r] = "judge" /\ UNCHANGED activeRun
      BY <2>9 DEF Judge
    <3>2. \E label \in {"finally", "repair", "makeRoom", "decide"} : Goto(r, label)
      BY <2>9 DEF Judge, AfterCheck
    <3> QED
      BY <3>1, <3>2, LockKept
  <2>10. CASE CompactionFails(r)
    BY <2>10, LockKept DEF CompactionFails, AfterCheck
  <2>11. CASE CompactionCommits(r)
    <3>1. pc[r] \in {"repair", "makeRoom"} /\ UNCHANGED activeRun
      BY <2>11 DEF CompactionCommits
    <3>2. \E label \in {"finally", "decide", "continue"} : Goto(r, label)
      BY <2>11 DEF CompactionCommits, AfterCheck
    <3> QED
      BY <3>1, <3>2, LockKept
  <2>12. CASE Decide(r)
    <3>1. pc[r] = "decide" /\ UNCHANGED activeRun
      BY <2>12 DEF Decide
    <3>2. \E label \in {"finally", "deliver", "recover"} : Goto(r, label)
      BY <2>12 DEF Decide
    <3> QED
      BY <3>1, <3>2, LockKept
  <2>13. CASE ContinueAgent(r)
    BY <2>13, LockTaken DEF ContinueAgent
  <2>14. CASE RecoverIncomplete(r)
    BY <2>14, LockTaken DEF RecoverIncomplete
  <2>15. CASE Settle(r)
    BY <2>15, LockKept DEF Settle
  <2>16. CASE Settled(r)
    BY <2>16, LockKept DEF Settled
  <2> QED
    BY <1>4, <2>1, <2>2, <2>3, <2>4, <2>5, <2>6, <2>7, <2>8, <2>9, <2>10, <2>11,
       <2>12, <2>13, <2>14, <2>15, <2>16 DEF Step
<1> QED
  BY <1>1, <1>2, <1>3, <1>4 DEF Next, vars

(* However prompts, triggered turns, retries and recoveries overlap, only  *)
(* one run of a session is ever inside an agent attempt.                   *)
THEOREM AgentNeverShared == SessionAssumption => (Spec => []OneAttempt)
<1> SUFFICES ASSUME SessionAssumption PROVE Spec => []OneAttempt
  OBVIOUS
<1>1. Init => LockInv
  BY DEF Init, LockInv, Places, OneAttempt, SessionAssumption
<1>2. LockInv /\ Asleep /\ [Next]_vars => LockInv'
  BY LockStep
<1>3. LockInv => OneAttempt
  BY DEF LockInv
<1> QED
  BY <1>1, <1>2, <1>3, AlwaysAsleep, PTL DEF Spec

-----------------------------------------------------------------------------
(* Cancellation. *)

\* Only the three calls of the agent take it, and each looks at the run's
\* own controller first.
LEMMA OnlyAcquireTakes ==
  ASSUME NEW r \in Runs, NEW q \in Runs, Step(q), r \in aborted,
         activeRun' = r, SessionAssumption
  PROVE  activeRun = r
<1>1. CASE PromptAgent(q)
  BY <1>1 DEF PromptAgent, Leave, Reject, Acquire, Stopped
<1>2. CASE ContinueAgent(q)
  BY <1>2 DEF ContinueAgent, Leave, Reject, Acquire, Stopped
<1>3. CASE RecoverIncomplete(q)
  BY <1>3 DEF RecoverIncomplete, Leave, Reject, Acquire, Stopped
<1>4. CASE FinishRun(q)
  BY <1>4 DEF FinishRun, SessionAssumption
<1>5. CASE \/ PreflightFails(q) \/ PreflightPasses(q) \/ Inject(q) \/ Turn(q)
           \/ LoopEnds(q) \/ PrepareRetry(q) \/ NoRetry(q) \/ BackoffEnds(q)
           \/ Judge(q)
  BY <1>5 DEF PreflightFails, PreflightPasses, StartRun, Inject, Turn, LoopEnds,
     PrepareRetry, NoRetry, BackoffEnds, Judge
<1>6. CASE \/ CompactionFails(q) \/ CompactionCommits(q) \/ Decide(q)
           \/ Settle(q) \/ Settled(q)
  BY <1>6 DEF CompactionFails, CompactionCommits, Decide, Settle, Settled
<1> QED
  BY <1>1, <1>2, <1>3, <1>4, <1>5, <1>6 DEF Step

\* A cancelled run never gets hold of the agent again, in whatever gap between
\* two attempts the cancellation falls.
THEOREM CancelledStaysCancelled == SessionAssumption => (Spec => CancellationSticks)
<1> SUFFICES ASSUME SessionAssumption PROVE Spec => CancellationSticks
  OBVIOUS
<1>1. [Next]_vars =>
        [\A r \in Runs : r \in aborted /\ activeRun' = r => activeRun = r]_vars
  <2> SUFFICES ASSUME Next, NEW r \in Runs, r \in aborted, activeRun' = r
               PROVE  activeRun = r
    OBVIOUS
  <2>1. CASE Environment
    BY <2>1 DEF Environment, QueueUser, QueueCustom, Queued, RaiseDecision,
       AnswerDecision, WaitForIdle, AbortRetry, Abort
  <2>2. ASSUME NEW q \in Runs, Prompt(q) \/ TriggerTurn(q) PROVE activeRun = r
    BY <2>2 DEF Prompt, TriggerTurn, StartRun
  <2>3. ASSUME NEW q \in Runs, Step(q) PROVE activeRun = r
    BY <2>3, OnlyAcquireTakes
  <2> QED
    BY <2>1, <2>2, <2>3 DEF Next
<1> QED
  BY <1>1, PTL DEF Spec, CancellationSticks

-----------------------------------------------------------------------------
(* Waiters.  The invariant is made inductive by its first half: as long as *)
(* the session calls itself active, some run has yet to reach Settle.      *)

Unsettled == InRun \cup {"finally"}

WakeInv ==
  /\ Places /\ isAgentRunActive \in BOOLEAN /\ waiting \in BOOLEAN
  /\ isAgentRunActive => \E r \in Runs : pc[r] \in Unsettled
  /\ WaitersHaveARun

\* A run that stays unsettled keeps the promise for everyone.
LEMMA WakeKept ==
  ASSUME WakeInv, NEW r \in Runs, NEW label \in Unsettled, Goto(r, label),
         UNCHANGED <<isAgentRunActive, waiting>>
  PROVE  WakeInv'
BY DEF WakeInv, Places, WaitersHaveARun, Unsettled, Goto

\* So does a new run, whether or not the session was active.
LEMMA WakeStart ==
  ASSUME WakeInv, NEW r \in Runs, StartRun(r)
  PROVE  WakeInv'
BY DEF WakeInv, Places, WaitersHaveARun, Unsettled, Goto, StartRun

LEMMA WakeEnvironment ==
  ASSUME Asleep, WakeInv, Environment
  PROVE  WakeInv'
<1>1. CASE QueueUser \/ QueueCustom \/ RaiseDecision \/ AnswerDecision
  BY <1>1 DEF QueueUser, QueueCustom, Queued, RaiseDecision, AnswerDecision,
     WakeInv, Places, WaitersHaveARun, Unsettled
<1>2. CASE WaitForIdle
  BY <1>2 DEF WaitForIdle, WakeInv, Places, WaitersHaveARun, Unsettled
<1>3. CASE AbortRetry \/ Abort
  <2>1. UNCHANGED <<isAgentRunActive, waiting>> /\ EndBackoff
    BY <1>3 DEF AbortRetry, Abort
  <2>2. CASE UNCHANGED pc
    BY <2>1, <2>2 DEF WakeInv, Places, WaitersHaveARun
  <2>3. ASSUME NEW q \in Runs, Goto(q, "judge") PROVE WakeInv'
    BY <2>1, <2>3, WakeKept DEF Unsettled
  <2> QED
    BY <2>1, <2>2, <2>3, Woken
<1> QED
  BY <1>1, <1>2, <1>3 DEF Environment

\* The steps of a run between its start and its finally block.
LEMMA WakeInside ==
  ASSUME WakeInv, NEW r \in Runs,
         \/ PromptAgent(r) \/ Inject(r) \/ Turn(r) \/ LoopEnds(r) \/ FinishRun(r)
         \/ PrepareRetry(r) \/ NoRetry(r) \/ BackoffEnds(r) \/ Judge(r)
         \/ CompactionFails(r) \/ CompactionCommits(r) \/ Decide(r)
         \/ ContinueAgent(r) \/ RecoverIncomplete(r)
  PROVE  WakeInv'
<1>1. UNCHANGED <<isAgentRunActive, waiting>>
  BY DEF PromptAgent, Inject, Turn, LoopEnds, FinishRun, PrepareRetry, NoRetry,
     BackoffEnds, Judge, CompactionFails, CompactionCommits, Decide,
     ContinueAgent, RecoverIncomplete
<1>2. CASE PromptAgent(r) \/ ContinueAgent(r) \/ RecoverIncomplete(r)
  <2>1. \E label \in {"finally", "attempt"} : Goto(r, label)
    BY <1>2 DEF PromptAgent, ContinueAgent, RecoverIncomplete, Leave, Reject,
       Acquire
  <2> QED
    BY <2>1, <1>1, WakeKept DEF Unsettled
<1>3. CASE Inject(r) \/ Turn(r)
  <2>1. UNCHANGED pc \/ Goto(r, "ended")
    BY <1>3 DEF Inject, Turn
  <2> QED
    BY <2>1, <1>1, WakeKept DEF WakeInv, Places, WaitersHaveARun, Unsettled
<1>4. CASE LoopEnds(r) \/ FinishRun(r) \/ PrepareRetry(r) \/ NoRetry(r) \/ BackoffEnds(r)
  <2>1. \E label \in Unsettled : Goto(r, label)
    BY <1>4 DEF LoopEnds, FinishRun, PrepareRetry, NoRetry, BackoffEnds, Unsettled
  <2> QED
    BY <2>1, <1>1, WakeKept
<1>5. CASE Judge(r) \/ CompactionFails(r) \/ CompactionCommits(r) \/ Decide(r)
  <2>1. \E label \in Unsettled : Goto(r, label)
    BY <1>5 DEF Judge, CompactionFails, CompactionCommits, Decide, AfterCheck, Unsettled
  <2> QED
    BY <2>1, <1>1, WakeKept
<1> QED
  BY <1>2, <1>3, <1>4, <1>5

\* Nobody who waits for an idle session is forgotten: while a waiter is pending
\* a run is under way that has still to wake the waiters.
THEOREM WaitersNeverStranded == SessionAssumption => (Spec => []WaitersHaveARun)
<1> SUFFICES ASSUME SessionAssumption PROVE Spec => []WaitersHaveARun
  OBVIOUS
<1>1. Init => WakeInv
  BY DEF Init, WakeInv, Places, WaitersHaveARun
<1>2. WakeInv /\ Asleep /\ [Next]_vars => WakeInv'
  <2> SUFFICES ASSUME WakeInv, Asleep, [Next]_vars PROVE WakeInv'
    OBVIOUS
  <2>1. CASE UNCHANGED vars
    BY <2>1 DEF vars, WakeInv, Places, WaitersHaveARun
  <2>2. ASSUME NEW r \in Runs, Prompt(r) \/ PreflightFails(r) PROVE WakeInv'
    <3>1. pc[r] \in {"none", "preflight"} /\ UNCHANGED <<isAgentRunActive, waiting>>
      BY <2>2 DEF Prompt, PreflightFails
    <3>2. \E label \in {"preflight", "done"} : Goto(r, label)
      BY <2>2 DEF Prompt, PreflightFails
    <3> QED
      BY <3>1, <3>2 DEF WakeInv, Places, WaitersHaveARun, Unsettled, Goto
  <2>3. ASSUME NEW r \in Runs, TriggerTurn(r) \/ PreflightPasses(r) PROVE WakeInv'
    BY <2>3, WakeStart DEF TriggerTurn, PreflightPasses
  <2>4. ASSUME NEW r \in Runs, Settle(r) PROVE WakeInv'
    BY <2>4 DEF Settle, Goto, WakeInv, Places, WaitersHaveARun, Unsettled
  <2>5. ASSUME NEW r \in Runs, Settled(r) PROVE WakeInv'
    BY <2>5 DEF Settled, WakeIdleWaiters, Goto, WakeInv, Places, WaitersHaveARun,
       Unsettled
  <2> QED
    BY <2>1, <2>2, <2>3, <2>4, <2>5, WakeInside, WakeEnvironment DEF Next, Step
<1>3. WakeInv => WaitersHaveARun
  BY DEF WakeInv
<1> QED
  BY <1>1, <1>2, <1>3, AlwaysAsleep, PTL DEF Spec

-----------------------------------------------------------------------------
(* Incomplete turns: recovery and diagnosis.  From here on no turn starts   *)
(* while a prompt is in its preflight (~ConcurrentPreflight): two runs that *)
(* overlap share one streak and one failure, and TLC finds both diagnosis   *)
(* properties and the bound violated by such a pair.                        *)

Present == Unsettled \cup {"preflight"}

Outcomes == {"resolved", "busy", "tail"}

\* What the induction needs of the types.
Typed ==
  /\ Places /\ msg \in [Runs -> Kinds] /\ outcome \in [Runs -> Outcomes]
  /\ liveTail \in Nat /\ savedTail \in Nat
  /\ incompleteTurnStreak \in Nat /\ recoveries \in Nat
  /\ runFailure \in BOOLEAN /\ unresolved \in BOOLEAN /\ pendingDecision \in BOOLEAN

\* Without overlapping preflights the session works for one run at a time,
\* and its controller is that run's.
Alone ==
  /\ \A r, q \in Runs : pc[r] \in Present /\ pc[q] \in Present => r = q
  /\ \A r \in Runs : pc[r] \in Unsettled => isAgentRunActive /\ controller = r

\* The run's last turn was incomplete, and nothing was asked of the model since.
EndedEmpty(r) ==
  /\ msg[r] \in Incomplete
  /\ \/ pc[r] \in InRun \ {"starting", "attempt"}
     \/ pc[r] = "attempt" /\ liveTail > 0

\* A recorded failure stands, and a run that reached its end with an empty
\* turn has a failure recorded or an excuse.
Diagnosed ==
  /\ runFailure => unresolved
  /\ \A r \in Runs :
       /\ EndedEmpty(r) => unresolved
       /\ pc[r] = "finally" /\ msg[r] \in Incomplete /\ outcome[r] = "resolved" =>
            runFailure \/ r \in aborted \cup held \/ pendingDecision

\* Every recovery was paid for with an empty turn, the last of which is still
\* to be answered where the run looks at it.
Paid ==
  /\ recoveries <= RecoveryAttempts
  /\ \A r \in Runs :
       /\ pc[r] \in InRun => recoveries <= incompleteTurnStreak
       /\ EndedEmpty(r) =>
            /\ recoveries < incompleteTurnStreak
            /\ incompleteTurnStreak > RecoveryAttempts => runFailure
       /\ pc[r] = "recover" => EndedEmpty(r) /\ ~runFailure

DiagnosisInv == Typed /\ Alone /\ Diagnosed /\ Paid

\* Where a run that is under way goes, nobody else is.
LEMMA MovedAlone ==
  ASSUME Typed, Alone, NEW r \in Runs, pc[r] \in Present,
         NEW label \in Labels, Goto(r, label),
         label \in Unsettled => pc[r] \in Unsettled,
         UNCHANGED <<isAgentRunActive, controller>>
  PROVE  /\ Places' /\ Alone' /\ pc'[r] = label
         /\ \A q \in Runs \ {r} : pc'[q] = pc[q] /\ pc[q] \notin Present
BY DEF Typed, Places, Alone, Goto, Present, Unsettled

\* A step of r that leaves alone what the diagnosis is made from.
LEMMA MovedQuietly ==
  ASSUME DiagnosisInv, NEW r \in Runs, pc[r] \in Present, NEW label \in Labels,
  Goto(r, label),
         label \in Unsettled => pc[r] \in Unsettled,
         label = "recover" => EndedEmpty(r) /\ ~runFailure,
         label \in InRun => pc[r] \in InRun \ {"starting"} /\ label \notin {"starting", "attempt"}
              /\ (pc[r] = "attempt" => liveTail > 0 \/ msg[r] \notin Incomplete),
         label = "finally" /\ msg[r] \in Incomplete /\ outcome'[r] = "resolved" =>
            runFailure \/ r \in aborted \/ r \in held' \/ pendingDecision,
         UNCHANGED <<isAgentRunActive, controller, msg, aborted, savedTail,
                     runFailure, unresolved,
            incompleteTurnStreak, recoveries, pendingDecision>>,
         outcome' \in [Runs -> Outcomes],
         liveTail' \in Nat
  PROVE  DiagnosisInv'
<1>1. Places' /\ Alone' /\ pc'[r] = label
      /\ \A q \in Runs \ {r} : pc'[q] = pc[q] /\ pc[q] \notin Present
  BY MovedAlone DEF DiagnosisInv
<1>2. Typed'
  BY <1>1 DEF DiagnosisInv, Typed
<1>3. EndedEmpty(r)' => EndedEmpty(r)
  BY <1>1 DEF EndedEmpty, DiagnosisInv, Typed
<1>4. \A q \in Runs \ {r} : ~ EndedEmpty(q)' /\ pc'[q] \notin Present
  BY <1>1 DEF EndedEmpty, Present, Unsettled
<1>5. Diagnosed'
  BY <1>1, <1>3, <1>4 DEF Diagnosed, DiagnosisInv, Present, Unsettled
<1>6. Paid'
  <2>1. Paid
    BY DEF DiagnosisInv
  <2>2. label = "recover" => EndedEmpty(r)'
    BY <1>1 DEF EndedEmpty
  <2> QED
  BY <1>1, <1>3, <1>4, <2>1, <2>2 DEF Paid, Present, Unsettled
<1> QED
  BY <1>1, <1>2, <1>5, <1>6 DEF DiagnosisInv

\* A run begins with nothing spent and nothing diagnosed.
LEMMA StartedAfresh ==
  ASSUME SessionAssumption, ~ConcurrentPreflight, DiagnosisInv, NEW r \in Runs,
         PreflightPasses(r) \/ TriggerTurn(r)
  PROVE  DiagnosisInv'
<1>1. StartRun(r)
  BY DEF PreflightPasses, TriggerTurn
<1>2. \A q \in Runs \ {r} : pc[q] \notin Present /\ pc'[q] = pc[q]
  <2>1. CASE PreflightPasses(r)
    BY <1>1, <2>1 DEF PreflightPasses, StartRun, Goto, DiagnosisInv, Typed,
       Places, Alone, Present
  <2>2. CASE TriggerTurn(r)
    BY <1>1, <2>2 DEF TriggerTurn, StartRun, Goto, DiagnosisInv, Typed, Places,
       Alone, Present
  <2> QED
    BY <2>1, <2>2
<1>3. pc'[r] = "starting"
  BY <1>1 DEF StartRun, Goto, DiagnosisInv, Typed, Places
<1>4. Typed'
  BY <1>1 DEF DiagnosisInv, Typed, Places, StartRun, Goto
<1>5. Alone'
  BY <1>1, <1>2, <1>3 DEF Alone, StartRun, Present, Unsettled
<1>6. \A q \in Runs : ~EndedEmpty(q)' /\ pc'[q] # "finally"
  BY <1>2, <1>3 DEF EndedEmpty, Present, Unsettled
<1>7. Diagnosed'
  BY <1>1, <1>6 DEF Diagnosed, StartRun
<1>8. Paid'
  BY <1>1, <1>2, <1>3, <1>6 DEF Paid, StartRun, RecoveryAttempts, Present, Unsettled
<1> QED
  BY <1>4, <1>5, <1>7, <1>8 DEF DiagnosisInv

\* What another actor does between the steps of a run.
LEMMA DiagnosisEnvironment ==
  ASSUME Asleep, DiagnosisInv, Environment
  PROVE  DiagnosisInv'
<1>1. CASE QueueUser \/ QueueCustom \/ RaiseDecision \/ WaitForIdle
  <2>1. /\ UNCHANGED <<pc, msg, outcome, isAgentRunActive, controller, aborted,
                       held, liveTail,
             savedTail, incompleteTurnStreak, runFailure, unresolved, recoveries>>
        /\ pendingDecision' \in {pendingDecision, TRUE}
    BY <1>1 DEF QueueUser, QueueCustom, Queued, RaiseDecision, WaitForIdle
  <2>2. Typed' /\ Alone'
    BY <2>1 DEF DiagnosisInv, Typed, Places, Alone
  <2>3. \A q \in Runs : EndedEmpty(q)' <=> EndedEmpty(q)
    BY <2>1 DEF EndedEmpty
  <2>4. Diagnosed'
    BY <2>1, <2>3 DEF DiagnosisInv, Diagnosed, Typed
  <2>5. Paid => Paid'
    BY <2>1, <2>3 DEF Paid
  <2> QED
    BY <2>2, <2>4, <2>5 DEF DiagnosisInv
<1>2. CASE AnswerDecision
  <2>1. /\ UNCHANGED <<pc, msg, outcome, isAgentRunActive, controller, aborted,
                       held, liveTail,
             savedTail, incompleteTurnStreak, runFailure, unresolved, recoveries>>
        /\ pendingDecision' = FALSE /\ \A r \in Runs : pc[r] # "finally"
    BY <1>2 DEF AnswerDecision
  <2>2. Typed' /\ Alone'
    BY <2>1 DEF DiagnosisInv, Typed, Places, Alone
  <2>3. \A q \in Runs : EndedEmpty(q)' <=> EndedEmpty(q)
    BY <2>1 DEF EndedEmpty
  <2>4. Diagnosed'
    BY <2>1, <2>3 DEF DiagnosisInv, Diagnosed, Typed
  <2>5. Paid => Paid'
    BY <2>1, <2>3 DEF Paid
  <2> QED
    BY <2>2, <2>4, <2>5 DEF DiagnosisInv
<1>3. CASE AbortRetry \/ Abort
  <2>1. /\ UNCHANGED <<msg, outcome, isAgentRunActive, controller, held, liveTail,
                       savedTail, incompleteTurnStreak, runFailure, unresolved,
                       recoveries, pendingDecision>>
        /\ aborted \subseteq aborted' /\ EndBackoff
    BY <1>3 DEF AbortRetry, Abort
  <2>2. \A q \in Runs : pc'[q] = pc[q] \/ (pc[q] = "sleeping" /\ pc'[q] = "judge")
    <3>1. CASE UNCHANGED pc
      BY <3>1
    <3>2. ASSUME NEW p \in Runs, pc[p] = "sleeping", Goto(p, "judge")
          PROVE  \A q \in Runs : pc'[q] = pc[q] \/ (pc[q] = "sleeping" /\ pc'[q] = "judge")
      BY <3>2 DEF Goto, DiagnosisInv, Typed, Places
    <3> QED
      BY <2>1, <3>1, <3>2, Woken
  <2>3. Typed'
    BY <2>1, Woken DEF DiagnosisInv, Typed, Places, Goto
  <2>4. Alone'
    BY <2>1, <2>2 DEF DiagnosisInv, Alone, Present, Unsettled
  <2>5. \A q \in Runs : EndedEmpty(q)' <=> EndedEmpty(q)
    BY <2>1, <2>2 DEF EndedEmpty
  <2>6. Diagnosed'
    BY <2>1, <2>2, <2>5 DEF DiagnosisInv, Diagnosed
  <2>7. Paid'
    BY <2>1, <2>2, <2>5 DEF DiagnosisInv, Paid
  <2> QED
    BY <2>3, <2>4, <2>6, <2>7 DEF DiagnosisInv
<1> QED
  BY <1>1, <1>2, <1>3 DEF Environment

\* The agent is given input, or refuses it.
LEMMA AttemptBegins ==
  ASSUME SessionAssumption, DiagnosisInv, NEW r \in Runs,
         PromptAgent(r) \/ ContinueAgent(r) \/ RecoverIncomplete(r)
  PROVE  DiagnosisInv'
<1>1. /\ pc[r] \in InRun
      /\ UNCHANGED <<isAgentRunActive, controller, msg, aborted, pendingDecision>>
  BY DEF PromptAgent, ContinueAgent, RecoverIncomplete, Unsettled
<1>2. CASE (Stopped(r) /\ Leave(r)) \/ \E why \in {"busy", "tail"} : Reject(r, why)
  <2>1. /\ Goto(r, "finally")
        /\ UNCHANGED <<savedTail, liveTail, runFailure, unresolved,
                       incompleteTurnStreak, recoveries>>
    BY <1>2 DEF Leave, Reject
  <2>2. outcome' \in [Runs -> Outcomes]
    BY <1>2 DEF Leave, Reject, DiagnosisInv, Typed, Outcomes
  <2>3. outcome'[r] = "resolved" => r \in aborted
    BY <1>2 DEF Leave, Reject, Stopped, DiagnosisInv, Typed
  <2>4. liveTail' \in Nat
    BY <2>1 DEF DiagnosisInv, Typed
  <2>5. "finally" \in Labels /\ "finally" \notin InRun /\ pc[r] \in Present /\ pc[r] \in Unsettled
    BY <1>1 DEF Present, Unsettled
  <2> QED
    BY <1>1, <2>1, <2>2, <2>3, <2>4, <2>5, MovedQuietly
<1>3. CASE Acquire(r)
  <2>1. Goto(r, "attempt") /\ UNCHANGED outcome
    BY <1>3 DEF Acquire
  <2>2. pc'[r] = "attempt" /\ Places' /\ Alone'
        /\ \A q \in Runs \ {r} : pc'[q] = pc[q] /\ pc[q] \notin Present
    BY <1>1, <2>1, MovedAlone DEF DiagnosisInv, Present, Unsettled
  <2>3. \/ UserMessage \/ CustomMessage
        \/ liveTail = 0 /\ UNCHANGED <<transcript, budgets, history>>
        \/ RecoverIncomplete(r) /\ pc[r] = "recover"
            /\ liveTail' = 0 /\ savedTail' = 0 /\ recoveries' = recoveries + 1
            /\ UNCHANGED <<budgets, reported, unresolved>>
    BY <1>3 DEF PromptAgent, ContinueAgent, RecoverIncomplete, DrainOne, Leave,
       Reject, Acquire, Goto, DiagnosisInv, Typed, Places
  <2>4. Typed'
    <3> Typed
      BY DEF DiagnosisInv
    <3>1. liveTail' \in Nat /\ savedTail' \in Nat
      BY <2>3 DEF UserMessage, CustomMessage, Typed
    <3>2. incompleteTurnStreak' \in Nat /\ recoveries' \in Nat
      BY <2>3 DEF UserMessage, CustomMessage, Typed
    <3>3. runFailure' \in BOOLEAN /\ unresolved' \in BOOLEAN
      BY <2>3 DEF UserMessage, CustomMessage, Typed
    <3> QED
      BY <1>1, <2>1, <2>2, <3>1, <3>2, <3>3 DEF Typed
  <2>5. liveTail' = 0
    BY <2>3 DEF UserMessage, CustomMessage
  <2>6. \A q \in Runs : ~EndedEmpty(q)' /\ pc'[q] # "finally"
    BY <2>2, <2>5 DEF EndedEmpty, Present, Unsettled
  <2>7. Diagnosed'
    BY <2>3, <2>6 DEF Diagnosed, UserMessage, CustomMessage, DiagnosisInv
  <2>8. Paid'
    <3>1. Paid /\ Typed
      BY DEF DiagnosisInv
    <3>2. /\ recoveries <= RecoveryAttempts /\ recoveries <= incompleteTurnStreak
          /\ pc[r] = "recover" => recoveries + 1 <= RecoveryAttempts
                                   /\ recoveries + 1 <= incompleteTurnStreak
      BY <1>1, <3>1 DEF Paid, Typed, RecoveryAttempts
    <3>3. recoveries' <= RecoveryAttempts /\ recoveries' <= incompleteTurnStreak'
      BY <3>1, <3>2, <2>3 DEF UserMessage, CustomMessage, Typed, RecoveryAttempts
    <3> QED
      BY <3>3, <2>2, <2>6 DEF Paid, Present, Unsettled
  <2> QED
    BY <2>2, <2>4, <2>7, <2>8 DEF DiagnosisInv
<1> QED
  BY <1>2, <1>3 DEF PromptAgent, ContinueAgent, RecoverIncomplete

\* A message drained in mid-attempt: the user's gives the budget back.
LEMMA DiagnosisInject ==
  ASSUME DiagnosisInv, NEW r \in Runs, Inject(r)
  PROVE  DiagnosisInv'
<1>1. /\ pc[r] = "attempt" /\ liveTail' = 0 /\ savedTail' = 0
      /\ UNCHANGED <<pc, msg, outcome, isAgentRunActive, controller, aborted,
                     pendingDecision>>
  BY DEF Inject, DrainOne, UserMessage, CustomMessage
<1>2. UserMessage \/ CustomMessage
  BY DEF Inject, DrainOne
<1>3. \A q \in Runs : ~EndedEmpty(q)' /\ pc'[q] \notin {"finally", "recover"} /\ pc'[q] = pc[q]
  BY <1>1 DEF EndedEmpty, DiagnosisInv, Alone, Present, Unsettled
<1>4. Alone'
  BY <1>1 DEF DiagnosisInv, Alone
<1>5. Typed'
  <2>1. incompleteTurnStreak' \in Nat /\ recoveries' \in Nat
    BY <1>2 DEF DiagnosisInv, Typed, UserMessage, CustomMessage
  <2>2. runFailure' \in BOOLEAN /\ unresolved' \in BOOLEAN
    BY <1>2 DEF DiagnosisInv, Typed, UserMessage, CustomMessage
  <2> QED
    BY <1>1, <2>1, <2>2 DEF DiagnosisInv, Typed, Places
<1>6. Diagnosed'
  BY <1>2, <1>3 DEF DiagnosisInv, Diagnosed, UserMessage, CustomMessage
<1>7. Paid => Paid'
  BY <1>2, <1>3 DEF Paid, UserMessage, CustomMessage, RecoveryAttempts
<1> QED
  BY <1>4, <1>5, <1>6, <1>7 DEF DiagnosisInv

\* A turn ends: only an empty one spends, only one with something to show
\* gives back.
LEMMA DiagnosisTurn ==
  ASSUME SessionAssumption, DiagnosisInv, NEW r \in Runs, Turn(r)
  PROVE  DiagnosisInv'
<1>1. PICK kind \in Answers : \E shown \in Showing(kind) :
        /\ MessageEnd(r, kind, shown)
        /\ UNCHANGED pc \/ Goto(r, "ended")
  BY DEF Turn
<1>s. PICK shown \in Showing(kind) : MessageEnd(r, kind, shown)
  BY <1>1
<1>2. /\ pc[r] = "attempt"
      /\ UNCHANGED <<outcome, isAgentRunActive, controller, aborted,
                     pendingDecision>>
  BY DEF Turn
<1>3. /\ kind \in Kinds /\ shown \in BOOLEAN
      /\ kind \in Incomplete => ~shown
      /\ kind \in {"ok", "bigStop", "tools"} => shown
  BY DEF SessionAssumption, Showing, Incomplete, Errors
<1>4. /\ pc'[r] \in {"attempt", "ended"} /\ Places'
      /\ \A q \in Runs \ {r} : pc'[q] = pc[q] /\ pc[q] \notin Present
  BY <1>1, <1>2 DEF Goto, DiagnosisInv, Typed, Places, Alone, Present, Unsettled
<1>5. Alone'
  BY <1>2, <1>4 DEF DiagnosisInv, Alone, Present, Unsettled
<1>6. msg' = [msg EXCEPT ![r] = kind] /\ msg'[r] = kind
  BY <1>s, <1>3 DEF MessageEnd, DiagnosisInv, Typed
<1>7. Typed'
  <2>1. liveTail' \in Nat /\ savedTail' \in Nat
    BY <1>s, <1>3 DEF MessageEnd, DiagnosisInv, Typed
  <2>2. incompleteTurnStreak' \in Nat /\ recoveries' \in Nat
    BY <1>s, <1>3 DEF MessageEnd, Classify, MadeProgress, DiagnosisInv, Typed
  <2>3. runFailure' \in BOOLEAN
    BY <1>s, <1>3 DEF MessageEnd, Classify, MadeProgress, DiagnosisInv, Typed
  <2>4. unresolved' \in BOOLEAN
    BY <1>s, <1>3 DEF MessageEnd, DiagnosisInv, Typed
  <2>5. msg' \in [Runs -> Kinds]
    BY <1>3, <1>6 DEF DiagnosisInv, Typed
  <2> QED
    BY <1>2, <1>4, <2>1, <2>2, <2>3, <2>4, <2>5 DEF DiagnosisInv, Typed
<1>8. \A q \in Runs \ {r} : ~EndedEmpty(q)' /\ pc'[q] # "finally" /\ pc'[q] \notin InRun
  BY <1>4 DEF EndedEmpty, Present, Unsettled
<1>9. EndedEmpty(r)' => kind \in Incomplete
  BY <1>6 DEF EndedEmpty
<1>10. Diagnosed'
  <2>1. kind \in Incomplete => unresolved'
    BY <1>s, <1>3 DEF MessageEnd
  <2>2. runFailure' => unresolved'
    BY <1>s, <1>3 DEF MessageEnd, Classify, MadeProgress, DiagnosisInv, Diagnosed
  <2> QED
    BY <1>4, <1>8, <1>9, <2>1, <2>2 DEF Diagnosed
<1>11. Paid'
  <2>1. Paid /\ Typed
    BY DEF DiagnosisInv
  <2>2. recoveries <= incompleteTurnStreak /\ recoveries <= RecoveryAttempts
    BY <2>1, <1>2 DEF Paid
  <2>3. recoveries' <= RecoveryAttempts /\ recoveries' <= incompleteTurnStreak'
    BY <1>s, <1>3, <2>1, <2>2 DEF MessageEnd, Classify, MadeProgress, Typed,
       RecoveryAttempts, Incomplete
  <2>4. kind \in Incomplete => /\ recoveries' < incompleteTurnStreak'
                               /\ incompleteTurnStreak' > RecoveryAttempts => runFailure'
    BY <1>s, <1>3, <2>1, <2>2 DEF MessageEnd, Classify, MadeProgress, Typed, RecoveryAttempts,
       Incomplete
  <2> QED
    BY <1>4, <1>8, <1>9, <2>3, <2>4 DEF Paid
<1> QED
  BY <1>5, <1>7, <1>10, <1>11 DEF DiagnosisInv

\* Between two attempts.
LEMMA DiagnosisBetween ==
  ASSUME SessionAssumption, DiagnosisInv, NEW r \in Runs,
         \/ PreflightFails(r) \/ LoopEnds(r) \/ FinishRun(r) \/ PrepareRetry(r) \/ NoRetry(r)
         \/ BackoffEnds(r) \/ Judge(r) \/ CompactionFails(r) \/ CompactionCommits(r)
  PROVE  DiagnosisInv'
<1>1. UNCHANGED <<isAgentRunActive, controller, msg, outcome, aborted, savedTail,
                  runFailure,
                  unresolved, incompleteTurnStreak, recoveries, pendingDecision>>
  BY DEF PreflightFails, LoopEnds, FinishRun, PrepareRetry, NoRetry, BackoffEnds,
     Judge,
     CompactionFails, CompactionCommits
<1>2. liveTail' \in Nat /\ outcome' \in [Runs -> Outcomes]
  BY DEF PreflightFails, LoopEnds, FinishRun, PrepareRetry, NoRetry, BackoffEnds,
     Judge,
     CompactionFails, CompactionCommits, DropTail, Rebuilt, DiagnosisInv, Typed
<1>3. CASE PreflightFails(r)
  <2>1. pc[r] = "preflight" /\ Goto(r, "done")
    BY <1>3 DEF PreflightFails
  <2> QED
    BY <1>1, <1>2, <2>1, MovedQuietly DEF Present, Unsettled
<1>4. ASSUME NEW label \in {"ended", "post", "sleeping", "judge", "repair", "makeRoom",
                            "decide", "continue"},
             Goto(r, label),
             pc[r] \in InRun \ {"starting"},
             pc[r] = "attempt" => liveTail > 0
      PROVE  DiagnosisInv'
  BY <1>1, <1>2, <1>4, MovedQuietly DEF Present, Unsettled
<1>5. ASSUME Goto(r, "finally"), pc[r] \in InRun,
             r \in aborted \/ r \in held' \/ pendingDecision
      PROVE  DiagnosisInv'
  BY <1>1, <1>2, <1>5, MovedQuietly DEF Present, Unsettled
<1>6. CASE LoopEnds(r) \/ PrepareRetry(r) \/ NoRetry(r) \/ BackoffEnds(r)
  BY <1>6, <1>4 DEF LoopEnds, PrepareRetry, NoRetry, BackoffEnds
<1>7. CASE FinishRun(r)
  BY <1>7, <1>4, <1>5 DEF FinishRun, Stopped
<1>8. CASE Judge(r)
  <2>1. pc[r] = "judge" /\ controller = r
    BY <1>8 DEF Judge, DiagnosisInv, Alone, Unsettled
  <2>2. \/ Cancelled /\ Goto(r, "finally")
        \/ r \in held' /\ Goto(r, "finally")
        \/ \E label \in {"repair", "makeRoom", "decide"} : Goto(r, label)
    BY <1>8 DEF Judge, AfterCheck
  <2> QED
    BY <2>1, <2>2, <1>4, <1>5 DEF Cancelled
<1>9. CASE CompactionFails(r) \/ CompactionCommits(r)
  <2>1. pc[r] \in {"repair", "makeRoom"}
    BY <1>9 DEF CompactionFails, CompactionCommits
  <2>2. \/ r \in held' /\ Goto(r, "finally")
        \/ \E label \in {"continue", "decide"} : Goto(r, label)
    BY <1>9 DEF CompactionFails, CompactionCommits, AfterCheck
  <2> QED
    BY <2>1, <2>2, <1>4, <1>5
<1> QED
  BY <1>3, <1>6, <1>7, <1>8, <1>9

\* What is done about the turn: where no recovery follows an empty one, a
\* failure is recorded, the run was cancelled, or a decision is pending.
LEMMA DiagnosisDecide ==
  ASSUME SessionAssumption, DiagnosisInv, NEW r \in Runs, Decide(r)
  PROVE  DiagnosisInv'
<1>1. /\ pc[r] = "decide" /\ controller = r
      /\ UNCHANGED <<isAgentRunActive, controller, msg, outcome, aborted, held,
                     liveTail, savedTail,
             unresolved, incompleteTurnStreak, recoveries, pendingDecision>>
  BY DEF Decide, DiagnosisInv, Alone, Unsettled
<1>2. CASE UNCHANGED runFailure /\ \E label \in {"deliver", "recover", "finally"} :
             /\ Goto(r, label)
             /\ label = "recover" => msg[r] \in Incomplete /\ ~runFailure
             /\ label = "finally" /\ msg[r] \in Incomplete =>
                  runFailure \/ r \in aborted \cup held \/ pendingDecision
  <2>1. EndedEmpty(r) <=> msg[r] \in Incomplete
    BY <1>1 DEF EndedEmpty
  <2>2. liveTail' \in Nat /\ outcome' \in [Runs -> Outcomes]
    BY <1>1 DEF DiagnosisInv, Typed
  <2> QED
    BY <1>1, <1>2, <2>1, <2>2, MovedQuietly DEF Present, Unsettled
<1>3. CASE /\ Goto(r, "finally") /\ msg[r] \in Incomplete
           /\ \/ runFailure' = FALSE /\ r \in aborted
              \/ runFailure' = TRUE
  <2>1. Places' /\ Alone' /\ pc'[r] = "finally"
        /\ \A q \in Runs \ {r} : pc'[q] = pc[q] /\ pc[q] \notin Present
    BY <1>1, <1>3, MovedAlone DEF DiagnosisInv, Present, Unsettled
  <2>2. Typed'
    BY <1>1, <1>3, <2>1 DEF DiagnosisInv, Typed
  <2>3. \A q \in Runs : ~EndedEmpty(q)' /\ pc'[q] \notin InRun
    BY <2>1 DEF EndedEmpty, Present, Unsettled
  <2>4. unresolved
    BY <1>1, <1>3 DEF DiagnosisInv, Diagnosed, EndedEmpty
  <2>5. Diagnosed'
    BY <1>1, <1>3, <2>1, <2>3, <2>4 DEF Diagnosed, Present, Unsettled
  <2>6. Paid => Paid'
    BY <1>1, <2>1, <2>3 DEF Paid
  <2> QED
    BY <2>1, <2>2, <2>5, <2>6 DEF DiagnosisInv
<1>4. CASE msg[r] \in Incomplete /\ Cancelled
  BY <1>1, <1>3, <1>4 DEF Decide, Cancelled
<1>5. CASE msg[r] \in Incomplete /\ ~Cancelled /\ RoomMissing(r)
  BY <1>1, <1>3, <1>5 DEF Decide, RecordFailure
<1>6. CASE ~(msg[r] \in Incomplete /\ (Cancelled \/ RoomMissing(r)))
  <2>1. UNCHANGED runFailure
        /\ Goto(r, IF Deliverable THEN "deliver"
                   ELSE IF msg[r] \in Incomplete /\ ~pendingDecision /\ ~runFailure
                        THEN "recover" ELSE "finally")
    BY <1>6 DEF Decide
  <2> QED
    BY <1>2, <2>1
<1> QED
  BY <1>4, <1>5, <1>6

\* The end of a run.
LEMMA DiagnosisSettled ==
  ASSUME SessionAssumption, DiagnosisInv, NEW r \in Runs, Settle(r) \/ Settled(r)
  PROVE  DiagnosisInv'
<1>1. CASE Settle(r)
  <2>1. /\ \A q \in Runs : pc'[q] \notin Present /\ ~EndedEmpty(q)'
        /\ Places'
    BY <1>1 DEF Settle, Goto, DiagnosisInv, Typed, Places, Alone, Present,
       Unsettled, EndedEmpty
  <2>2. Typed'
    BY <1>1, <2>1 DEF Settle, DiagnosisInv, Typed
  <2>3. Alone'
    BY <2>1 DEF Alone, Present
  <2>4. Diagnosed'
    BY <1>1, <2>1 DEF Settle, Diagnosed, Present, Unsettled
  <2>5. Paid => Paid'
    BY <1>1, <2>1 DEF Settle, Paid, Present, Unsettled
  <2> QED
    BY <2>2, <2>3, <2>4, <2>5 DEF DiagnosisInv
<1>2. CASE Settled(r)
  <2>1. /\ pc[r] = "emitting" /\ pc'[r] = "done" /\ Places'
        /\ \A q \in Runs \ {r} : pc'[q] = pc[q] /\ msg'[q] = msg[q] /\ outcome'[q] = outcome[q]
                                 /\ (q \in aborted' <=> q \in aborted)
                                 /\ (q \in held' <=> q \in held)
    BY <1>2 DEF Settled, Goto, DiagnosisInv, Typed, Places
  <2>2. UNCHANGED <<isAgentRunActive, controller, liveTail, savedTail,
                    runFailure, unresolved,
                    incompleteTurnStreak, recoveries, pendingDecision>>
    BY <1>2 DEF Settled
  <2>3. Typed'
    BY <1>2, <2>1, <2>2 DEF Settled, DiagnosisInv, Typed, Outcomes, Kinds
  <2>4. Alone'
    BY <2>1, <2>2 DEF DiagnosisInv, Alone, Present, Unsettled
  <2>5. \A q \in Runs : EndedEmpty(q)' <=> EndedEmpty(q)
    BY <2>1, <2>2 DEF EndedEmpty
  <2>6. Diagnosed'
    BY <2>1, <2>2, <2>5 DEF DiagnosisInv, Diagnosed
  <2>7. Paid => Paid'
    BY <2>1, <2>2, <2>5 DEF Paid
  <2> QED
    BY <2>3, <2>4, <2>6, <2>7 DEF DiagnosisInv
<1> QED
  BY <1>1, <1>2

\* The invariant behind the three theorems that follow.
LEMMA DiagnosisInductive ==
  ASSUME SessionAssumption, ~ConcurrentPreflight
  PROVE  /\ Init => DiagnosisInv
         /\ DiagnosisInv /\ Asleep /\ [Next]_vars => DiagnosisInv'
<1>1. Init => DiagnosisInv
  <2> SUFFICES ASSUME Init PROVE DiagnosisInv
    OBVIOUS
  <2>1. Typed
    BY DEF Init, Typed, Places, Outcomes, Kinds
  <2>2. \A r \in Runs : pc[r] = "none" /\ ~EndedEmpty(r)
    BY DEF Init, EndedEmpty
  <2>3. Alone /\ Diagnosed
    BY <2>2 DEF Init, Alone, Diagnosed, Present, Unsettled
  <2>4. Paid
    BY <2>2 DEF Init, Paid, RecoveryAttempts
  <2> QED
    BY <2>1, <2>3, <2>4 DEF DiagnosisInv
<1>2. ASSUME DiagnosisInv, Asleep, [Next]_vars PROVE DiagnosisInv'
  <2>1. CASE UNCHANGED vars
    <3>1. Typed' /\ Alone'
      BY <1>2, <2>1 DEF vars, DiagnosisInv, Typed, Places, Alone
    <3>2. \A q \in Runs : EndedEmpty(q)' <=> EndedEmpty(q)
      BY <2>1 DEF vars, EndedEmpty
    <3>3. Diagnosed' /\ (Paid => Paid')
      BY <1>2, <2>1, <3>2 DEF vars, DiagnosisInv, Diagnosed, Paid
    <3> QED
      BY <1>2, <3>1, <3>3 DEF DiagnosisInv
  <2>2. ASSUME NEW r \in Runs, Prompt(r) PROVE DiagnosisInv'
    <3>1. /\ \A q \in Runs \ {r} : pc[q] \notin Present /\ pc'[q] = pc[q]
          /\ pc'[r] = "preflight" /\ Places'
      BY <1>2, <2>2 DEF Prompt, Goto, DiagnosisInv, Typed, Places, Alone, Present
    <3>2. UNCHANGED <<msg, outcome, isAgentRunActive, controller, aborted,
                      liveTail, savedTail,
            runFailure, unresolved, incompleteTurnStreak, recoveries,
            pendingDecision>>
      BY <2>2 DEF Prompt
    <3>3. Typed' /\ Alone'
      BY <1>2, <3>1, <3>2 DEF DiagnosisInv, Typed, Alone, Present, Unsettled
    <3>4. \A q \in Runs : ~EndedEmpty(q)' /\ pc'[q] \notin Unsettled
      BY <3>1 DEF EndedEmpty, Present, Unsettled
    <3>5. Diagnosed' /\ (Paid => Paid')
      BY <1>2, <3>2, <3>4 DEF DiagnosisInv, Diagnosed, Paid, Unsettled
    <3> QED
      BY <1>2, <3>3, <3>5 DEF DiagnosisInv
  <2> QED
    BY <1>2, <2>1, <2>2, StartedAfresh, DiagnosisEnvironment, AttemptBegins,
       DiagnosisInject, DiagnosisTurn, DiagnosisBetween, DiagnosisDecide,
       DiagnosisSettled
       DEF Next, Step
<1> QED
  BY <1>1, <1>2

(* An empty turn is answered by one recovery prompt at most until a turn    *)
(* shows something, be it the text of one that failed, or the user speaks.  *)
THEOREM RecoveryOnce ==
  SessionAssumption /\ ~ConcurrentPreflight => (Spec => []RecoveriesBounded)
<1> SUFFICES ASSUME SessionAssumption, ~ConcurrentPreflight
             PROVE  Spec => []RecoveriesBounded
  OBVIOUS
<1>1. DiagnosisInv => RecoveriesBounded
  BY DEF DiagnosisInv, Paid, RecoveriesBounded
<1> QED
  BY <1>1, DiagnosisInductive, AlwaysAsleep, PTL DEF Spec

(* A failure is reported by its own run only, while it stands, and never    *)
(* for a run the user cancelled.                                            *)
THEOREM FailuresReportedStand ==
  SessionAssumption /\ ~ConcurrentPreflight => (Spec => NoFalseFailure)
<1> SUFFICES ASSUME SessionAssumption, ~ConcurrentPreflight PROVE Spec => NoFalseFailure
  OBVIOUS
<1>1. ASSUME DiagnosisInv, [Next]_vars
      PROVE  [\A r \in Runs : r \in reported' \ reported => unresolved /\ r \notin aborted]_vars
  <2> SUFFICES ASSUME Next, NEW r \in Runs, r \in reported' \ reported
               PROVE  unresolved /\ r \notin aborted
    BY <1>1
  <2>1. CASE Environment
    BY <2>1 DEF Environment, QueueUser, QueueCustom, Queued, RaiseDecision,
       AnswerDecision, WaitForIdle, AbortRetry, Abort
  <2>2. ASSUME NEW q \in Runs, Prompt(q) \/ TriggerTurn(q) PROVE FALSE
    BY <2>2 DEF Prompt, TriggerTurn, StartRun
  <2>3. ASSUME NEW q \in Runs, Settle(q) PROVE unresolved /\ r \notin aborted
    BY <1>1, <2>3 DEF Settle, RunFailed, Stopped, DiagnosisInv, Diagnosed
  <2>4. ASSUME NEW q \in Runs, Step(q), ~Settle(q) PROVE FALSE
    <3>1. UNCHANGED reported \/ reported' = reported \ {q}
      <4>1. CASE \/ PreflightFails(q) \/ PreflightPasses(q) \/ PromptAgent(q)
                 \/ Inject(q) \/ Turn(q) \/ LoopEnds(q) \/ FinishRun(q)
        BY <4>1 DEF PreflightFails, PreflightPasses, StartRun, PromptAgent,
           Leave, Reject,
           UserMessage, CustomMessage, Inject, DrainOne, Turn, MessageEnd,
           LoopEnds, FinishRun
      <4>2. CASE \/ PrepareRetry(q) \/ NoRetry(q) \/ BackoffEnds(q) \/ Judge(q)
                 \/ CompactionFails(q) \/ CompactionCommits(q) \/ Decide(q) \/ Settled(q)
        BY <4>2 DEF PrepareRetry, NoRetry, BackoffEnds, Judge, CompactionFails,
           CompactionCommits, Decide, Settled
      <4>3. CASE ContinueAgent(q) \/ RecoverIncomplete(q)
        BY <4>3 DEF ContinueAgent, RecoverIncomplete, Leave, Reject, DrainOne,
           UserMessage,
           CustomMessage
      <4> QED
        BY <2>4, <4>1, <4>2, <4>3 DEF Step
    <3> QED
      BY <3>1
  <2> QED
    BY <2>1, <2>2, <2>3, <2>4 DEF Next
<1> QED
  BY <1>1, DiagnosisInductive, AlwaysAsleep, PTL DEF Spec, NoFalseFailure

(* A run that settles on an empty turn reports it, unless it was cancelled, *)
(* its continuation was rejected, or a decision holds the recovery back: one *)
(* it found pending after the turn, or one that is pending still.           *)
THEOREM NoFailureIsSilent ==
  SessionAssumption /\ ~ConcurrentPreflight => (Spec => NoSilentFailure)
<1> SUFFICES ASSUME SessionAssumption, ~ConcurrentPreflight PROVE Spec => NoSilentFailure
  OBVIOUS
<1>1. ASSUME DiagnosisInv, Asleep, [Next]_vars
      PROVE  [\A r \in Runs :
                Settles(r) /\ msg[r] \in Incomplete /\ outcome[r] = "resolved" =>
                  r \in reported' \cup aborted \cup held \/ pendingDecision]_vars
  <2> SUFFICES ASSUME Next, NEW r \in Runs, Settles(r), msg[r] \in Incomplete,
                      outcome[r] = "resolved"
               PROVE  r \in reported' \cup aborted \cup held \/ pendingDecision
    BY <1>1
  <2>1. runFailure \/ r \in aborted \cup held \/ pendingDecision
    BY <1>1 DEF DiagnosisInv, Diagnosed, Settles
  <2>2. Settle(r)
    <3>1. pc[r] = "finally" /\ pc'[r] = "emitting" /\ Places
      BY <1>1 DEF Settles, DiagnosisInv, Typed
    <3>2. CASE Environment
      <4>1. pc'[r] = pc[r] \/ AbortRetry \/ Abort
        BY <3>2 DEF Environment, QueueUser, QueueCustom, Queued, RaiseDecision,
           AnswerDecision, WaitForIdle
      <4>2. ASSUME EndBackoff PROVE pc'[r] \in {pc[r], "judge"}
        BY <1>1, <3>1, <4>2, Woken DEF Goto, Places
      <4> QED
        BY <3>1, <4>1, <4>2 DEF AbortRetry, Abort
    <3>3. ASSUME NEW q \in Runs, Prompt(q) \/ TriggerTurn(q) \/ Step(q) PROVE Settle(r)
      <4>1. UNCHANGED pc \/ \E label \in Labels : Goto(q, label)
        <5>1. CASE \/ Prompt(q) \/ TriggerTurn(q) \/ PreflightFails(q) \/ PreflightPasses(q)
                   \/ Inject(q) \/ Turn(q) \/ LoopEnds(q) \/ FinishRun(q)
          BY <5>1 DEF Prompt, TriggerTurn, PreflightFails, PreflightPasses,
             StartRun,
             Inject, Turn, LoopEnds, FinishRun
        <5>2. CASE \/ PrepareRetry(q) \/ NoRetry(q) \/ BackoffEnds(q) \/ Judge(q)
                   \/ CompactionFails(q) \/ CompactionCommits(q) \/ Decide(q)
          BY <5>2 DEF PrepareRetry, NoRetry, BackoffEnds, Judge, CompactionFails,
             CompactionCommits, Decide, AfterCheck
        <5>3. CASE \/ PromptAgent(q) \/ ContinueAgent(q) \/ RecoverIncomplete(q)
                   \/ Settle(q) \/ Settled(q)
          BY <5>3 DEF PromptAgent, ContinueAgent, RecoverIncomplete, Leave,
             Reject, Acquire,
             Settle, Settled
        <5> QED
          BY <3>3, <5>1, <5>2, <5>3 DEF Step
      <4>2. q = r
        BY <3>1, <4>1 DEF Places, Goto
      <4>3. ~(Prompt(r) \/ TriggerTurn(r))
        BY <3>1 DEF Prompt, TriggerTurn
      <4>4. Settle(r) \/ pc[r] # "finally"
        BY <3>3, <4>2, <4>3 DEF Step, PreflightFails, PreflightPasses,
           PromptAgent, Inject, Turn,
           LoopEnds, FinishRun, PrepareRetry, NoRetry, BackoffEnds, Judge,
           CompactionFails,
           CompactionCommits, Decide, ContinueAgent, RecoverIncomplete, Settled
      <4> QED
        BY <3>1, <4>4
    <3> QED
      BY <3>2, <3>3 DEF Next
  <2> QED
    BY <2>1, <2>2 DEF Settle, RunFailed, Stopped
<1> QED
  BY <1>1, DiagnosisInductive, AlwaysAsleep, PTL DEF Spec, NoSilentFailure

=============================================================================
