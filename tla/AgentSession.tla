---------------------------- MODULE AgentSession ----------------------------
(***************************************************************************)
(* AgentSession._runAgentPrompt: what one session run does around the      *)
(* agent: agent attempts, automatic retry, compaction after an overflow,   *)
(* recovery of incomplete turns, delivery of queued input, cancellation    *)
(* and the settled notification                                            *)
(* (packages/coding-agent/src/core/agent-session.ts).                      *)
(*                                                                         *)
(* The agent (agent-core) is reduced to its lock, its queue, the kind of   *)
(* each assistant turn and the shape of its transcript: only the assistant *)
(* messages at its end matter.  A run is one call of _runAgentPrompt; two  *)
(* of them can be under way.  Listeners are awaited, so between any two    *)
(* actions of a run other actors act.                                      *)
(***************************************************************************)
EXTENDS Naturals, FiniteSets

CONSTANTS
  Runs,                 \* calls that may start a run
  MaxRetries,           \* settings.maxRetries
  MaxRateLimitRetries,  \* settings.rateLimitMaxRetries
  MaxInputs,            \* bound: messages queued while a run is active
  MaxToolTurns,         \* bound: turns that end in tool calls
  MaxDecisions,         \* bound: decisions raised
  IdleWaits,            \* bound: whether anyone calls waitForIdle
  Answers,              \* bound: kinds of turns the model answers with
  PartialText,          \* kinds of failed turns that may carry visible text
  ConcurrentPreflight   \* a turn may start while a prompt is in its preflight

\* INCOMPLETE_TURN_RECOVERY_ATTEMPTS
RecoveryAttempts == 1

Errors == {"transient", "rateLimit", "overflow", "fatal"}
Incomplete == {"empty", "emptyOverflow"}
Kinds == {"ok", "bigStop", "tools", "length", "aborted"} \cup Errors \cup Incomplete

ASSUME SessionAssumption ==
  /\ MaxRetries \in Nat /\ MaxRateLimitRetries \in Nat
  /\ MaxInputs \in Nat /\ MaxToolTurns \in Nat /\ MaxDecisions \in Nat
  /\ Answers \subseteq Kinds
  /\ PartialText \subseteq Errors \cup {"length", "aborted"}
  /\ ConcurrentPreflight \in BOOLEAN /\ IdleWaits \in BOOLEAN
  /\ "nobody" \notin Runs

VARIABLES
  pc,           \* where each run is
  fromUser,     \* runs started by a prompt (the others by a custom message)
  msg,          \* kind of the run's last assistant turn (_lastAssistantMessage)
  outcome,      \* how the run's promise ends: "resolved", or why it rejects
  isAgentRunActive,
  controller,   \* run whose controller is _agentRunAbortController
  aborted,      \* runs whose controller was aborted
  activeRun,    \* run that holds the agent, "nobody" when it is free
  userQueued, customQueued,  \* messages in the agent's queues, by author
  liveTail,     \* assistant messages at the end of agent.state.messages
  savedTail,    \* assistant messages at the end of the session's branch
  retryAttempt, rateLimitRetryAttempt,
  backoff,      \* run whose backoff _retryAbortController can end
  overflowRecoveryAttempted,
  incompleteTurnStreak, runFailure,
  compactionEnabled,         \* setting
  fits,         \* runs whose last turn left room: it was found not to overflow,
                \* or a compaction after it committed
  held,         \* runs that found a decision pending after their last turn
  pendingDecision,           \* hasPendingUserDecision
  waiting,      \* a waitForIdle call is pending
  inputs, toolTurns, decisions,            \* counters of the bounds
  reported,     \* runs whose agent_settled carried a failure
  unresolved,   \* an incomplete turn no completed turn or user input followed
  recoveries    \* recovery prompts since the last turn that showed something, or
                \* user input

queues == <<userQueued, customQueued>>
transcript == <<liveTail, savedTail>>
retries == <<retryAttempt, rateLimitRetryAttempt, backoff>>
findings == <<fits, held>>
budgets == <<overflowRecoveryAttempted, incompleteTurnStreak, runFailure>>
lifecycle == <<isAgentRunActive, controller, aborted>>
bounds == <<inputs, toolTurns, decisions>>
history == <<reported, unresolved, recoveries>>
setup == <<fromUser, compactionEnabled>>

vars == <<pc, msg, outcome, activeRun, findings, pendingDecision, waiting,
          lifecycle, queues, transcript, retries, budgets, bounds, history, setup>>

InRun == {"starting", "attempt", "ended", "post", "sleeping", "judge", "repair",
          "makeRoom", "decide", "continue", "deliver", "recover"}

Labels == InRun \cup {"none", "preflight", "finally", "emitting", "done"}

Init ==
  /\ pc = [r \in Runs |-> "none"]
  /\ msg = [r \in Runs |-> "ok"]
  /\ outcome = [r \in Runs |-> "resolved"]
  /\ fromUser = {} /\ compactionEnabled \in BOOLEAN
  /\ isAgentRunActive = FALSE /\ controller = "nobody" /\ aborted = {}
  /\ activeRun = "nobody" /\ userQueued = 0 /\ customQueued = 0
  /\ liveTail = 0 /\ savedTail = 0
  /\ retryAttempt = 0 /\ rateLimitRetryAttempt = 0 /\ backoff = "nobody"
  /\ overflowRecoveryAttempted = FALSE
  /\ incompleteTurnStreak = 0 /\ runFailure = FALSE
  /\ fits = {} /\ held = {} /\ pendingDecision = FALSE /\ waiting = FALSE
  /\ inputs = 0 /\ toolTurns = 0 /\ decisions = 0
  /\ reported = {} /\ unresolved = FALSE /\ recoveries = 0

Goto(r, label) == pc' = [pc EXCEPT ![r] = label]

\* A pending decision holds back every message no person wrote.
Deliverable == userQueued > 0 \/ (customQueued > 0 /\ ~pendingDecision)

\* this._agentRunAbortController?.signal.aborted
Cancelled == controller \in aborted

-----------------------------------------------------------------------------
(* Messages that enter the transcript.  Only a user message gives the      *)
(* budgets back.                                                           *)

UserMessage ==
  /\ liveTail' = 0 /\ savedTail' = 0
  /\ overflowRecoveryAttempted' = FALSE
  /\ incompleteTurnStreak' = 0 /\ runFailure' = FALSE
  /\ unresolved' = FALSE /\ recoveries' = 0
  /\ UNCHANGED reported

CustomMessage ==
  /\ liveTail' = 0 /\ savedTail' = 0
  /\ UNCHANGED <<budgets, history>>

\* A queued message becomes input of the agent run that drains it.
DrainOne ==
  \/ /\ userQueued > 0
     /\ userQueued' = userQueued - 1 /\ UNCHANGED customQueued
     /\ UserMessage
  \/ /\ customQueued > 0 /\ ~pendingDecision
     /\ customQueued' = customQueued - 1 /\ UNCHANGED userQueued
     /\ CustomMessage

-----------------------------------------------------------------------------
(* What other actors do. *)

\* prompt() with no active run starts its preflight, which awaits the input
\* hook, the authentication check and before_agent_start.
Prompt(r) ==
  /\ pc[r] = "none" /\ ~isAgentRunActive
  /\ ConcurrentPreflight \/ \A q \in Runs : pc[q] # "preflight"
  /\ Goto(r, "preflight")
  /\ fromUser' = fromUser \cup {r}
  /\ UNCHANGED <<msg, outcome, activeRun, findings, pendingDecision, waiting,
                 lifecycle, queues, transcript, retries, budgets, bounds, history,
                 compactionEnabled>>

PreflightFails(r) ==
  /\ pc[r] = "preflight"
  /\ Goto(r, "done")
  /\ UNCHANGED <<msg, outcome, activeRun, findings, pendingDecision, waiting,
                 lifecycle, queues, transcript, retries, budgets, bounds, history,
                 setup>>

\* The synchronous head of _runAgentPrompt: a new controller and new budgets.
StartRun(r) ==
  /\ Goto(r, "starting")
  /\ controller' = r /\ isAgentRunActive' = TRUE
  /\ incompleteTurnStreak' = 0 /\ runFailure' = FALSE
  /\ unresolved' = FALSE /\ recoveries' = 0
  /\ UNCHANGED <<msg, outcome, activeRun, findings, pendingDecision, waiting,
                 aborted, queues, transcript, retries, overflowRecoveryAttempted,
                 bounds, reported, setup>>

PreflightPasses(r) == pc[r] = "preflight" /\ StartRun(r)

\* sendCustomMessage with triggerTurn starts a run at once.
TriggerTurn(r) ==
  /\ pc[r] = "none" /\ ~isAgentRunActive /\ ~pendingDecision
  /\ ConcurrentPreflight \/ \A q \in Runs : pc[q] # "preflight"
  /\ StartRun(r)

Queued(user) ==
  /\ inputs < MaxInputs
  /\ inputs' = inputs + 1
  /\ IF user THEN userQueued' = userQueued + 1 /\ UNCHANGED customQueued
             ELSE customQueued' = customQueued + 1 /\ UNCHANGED userQueued
  /\ UNCHANGED <<pc, msg, outcome, activeRun, findings, pendingDecision, waiting,
                 lifecycle, transcript, retries, budgets, toolTurns, decisions,
                 history, setup>>

\* prompt() while a run is active: steer or follow-up.
QueueUser == isAgentRunActive /\ Queued(TRUE)

\* sendCustomMessage while a run is active, or an extension's prompt while a
\* decision is pending.
QueueCustom == (isAgentRunActive \/ pendingDecision) /\ Queued(FALSE)

RaiseDecision ==
  /\ isAgentRunActive /\ ~pendingDecision /\ decisions < MaxDecisions
  /\ decisions' = decisions + 1 /\ pendingDecision' = TRUE
  /\ UNCHANGED <<pc, msg, outcome, activeRun, findings, waiting, lifecycle, queues,
                 transcript, retries, budgets, inputs, toolTurns, history, setup>>

\* The finally block follows the end of a run's loop without an await.
AnswerDecision ==
  /\ pendingDecision /\ \A r \in Runs : pc[r] # "finally"
  /\ pendingDecision' = FALSE
  /\ UNCHANGED <<pc, msg, outcome, activeRun, findings, waiting, lifecycle, queues,
                 transcript, retries, budgets, bounds, history, setup>>

WaitForIdle ==
  /\ IdleWaits /\ isAgentRunActive /\ ~waiting
  /\ waiting' = TRUE
  /\ UNCHANGED <<pc, msg, outcome, activeRun, findings, pendingDecision, lifecycle,
                 queues, transcript, retries, budgets, bounds, history, setup>>

\* Ending the latest backoff forgets the attempts counted so far.  A run whose
\* controller a later backoff has replaced sleeps on.
EndBackoff ==
  IF backoff \in Runs
  THEN /\ pc' = [pc EXCEPT ![backoff] = "judge"]
       /\ retryAttempt' = 0 /\ rateLimitRetryAttempt' = 0 /\ backoff' = "nobody"
  ELSE UNCHANGED <<pc, retries>>

AbortRetry ==
  /\ backoff \in Runs
  /\ EndBackoff
  /\ UNCHANGED <<msg, outcome, activeRun, findings, pendingDecision, waiting,
                 lifecycle, queues, transcript, budgets, bounds, history, setup>>

\* _abortCurrentRun; the agent's own signal only changes which turns it ends with.
Abort ==
  /\ controller \in Runs \ aborted
  /\ aborted' = aborted \cup {controller}
  /\ EndBackoff
  /\ UNCHANGED <<msg, outcome, activeRun, findings, pendingDecision, waiting,
                 isAgentRunActive, controller, queues, transcript, budgets, bounds,
                 history, setup>>

-----------------------------------------------------------------------------
(* The agent attempts of a run. *)

\* Mutant: the run looks at the session's controller instead of its own.
StoppedShared(r) == Cancelled

\* runAbortController.signal.aborted, the controller of this very run.
Stopped(r) == r \in aborted

\* Mutant: the agent takes a second run.
BusyNever == FALSE

\* this.activeRun: the agent refuses a second prompt or continuation.
Busy == activeRun # "nobody"

\* A call of the agent that throws synchronously ends the run with its error.
Reject(r, why) ==
  /\ Goto(r, "finally")
  /\ outcome' = [outcome EXCEPT ![r] = why]
  /\ UNCHANGED <<activeRun, transcript, budgets, history, queues>>

Leave(r) ==
  /\ Goto(r, "finally")
  /\ UNCHANGED <<outcome, activeRun, transcript, budgets, history, queues>>

Acquire(r) ==
  /\ Goto(r, "attempt")
  /\ activeRun' = r
  /\ UNCHANGED outcome

PromptAgent(r) ==
  /\ pc[r] = "starting"
  /\ \/ Stopped(r) /\ Leave(r)
     \/ ~Stopped(r) /\ Busy /\ Reject(r, "busy")
     \/ /\ ~Stopped(r) /\ ~Busy
        /\ Acquire(r)
        /\ IF r \in fromUser THEN UserMessage ELSE CustomMessage
        /\ UNCHANGED queues
  /\ UNCHANGED <<msg, findings, pendingDecision, waiting, lifecycle, retries,
                 bounds, setup>>

\* The loop drains the queues at its turn boundaries.
Inject(r) ==
  /\ pc[r] = "attempt" /\ Deliverable
  /\ DrainOne
  /\ UNCHANGED <<pc, msg, outcome, activeRun, findings, pendingDecision, waiting,
                 lifecycle, retries, bounds, setup>>

\* Whether a turn shows visible text or a tool call.
Showing(kind) ==
  CASE kind \in {"ok", "bigStop", "tools"} -> {TRUE}
    [] kind \in PartialText -> BOOLEAN
    [] OTHER -> {FALSE}

\* Mutant: every turn that is not empty counts as progress.
MadeProgressAny(kind, shown) == kind \notin Incomplete

\* turnMadeProgress looks at the content only, not at the stop reason.
MadeProgress(kind, shown) == shown

\* _classifyAssistantTurn
Classify(kind, shown) ==
  /\ incompleteTurnStreak' = IF kind \in Incomplete THEN incompleteTurnStreak + 1
                             ELSE IF MadeProgress(kind, shown) THEN 0
                             ELSE incompleteTurnStreak
  /\ runFailure' =
       IF kind \in Incomplete
       THEN \/ incompleteTurnStreak + 1 > RecoveryAttempts
            \/ kind = "emptyOverflow" /\ ~compactionEnabled
       ELSE runFailure /\ ~MadeProgress(kind, shown)

\* Turns after which an overflow recovery stays spent.
KeepsOverflowFlag(kind) == kind \in Errors \cup {"length"}

\* message_end of an assistant turn: classification, persistence, budgets.
MessageEnd(r, kind, shown) ==
  /\ msg' = [msg EXCEPT ![r] = kind]
  /\ Classify(kind, shown)
  /\ overflowRecoveryAttempted' = (overflowRecoveryAttempted /\ KeepsOverflowFlag(kind))
  /\ IF kind \notin Errors THEN retryAttempt' = 0 /\ rateLimitRetryAttempt' = 0
                           ELSE UNCHANGED <<retryAttempt, rateLimitRetryAttempt>>
  /\ liveTail' = IF kind = "tools" THEN 0 ELSE liveTail + 1
  /\ savedTail' = IF kind = "tools" THEN 0 ELSE savedTail + 1
  /\ unresolved' = IF kind \in Incomplete THEN TRUE
                   ELSE unresolved /\ kind \notin {"ok", "bigStop", "tools"}
  /\ recoveries' = IF shown THEN 0 ELSE recoveries
  /\ UNCHANGED <<reported, backoff>>

\* One turn.  A request never ends in an assistant message; an error or an
\* abort ends the attempt, and so may a control barrier of a tool.
Turn(r) ==
  /\ pc[r] = "attempt" /\ liveTail = 0
  /\ \E kind \in Answers :
       /\ kind = "aborted" => r \in aborted
       /\ \E shown \in Showing(kind) : MessageEnd(r, kind, shown)
       /\ IF kind = "tools"
          THEN toolTurns < MaxToolTurns /\ toolTurns' = toolTurns + 1
          ELSE UNCHANGED toolTurns
       /\ \/ kind \notin Errors \cup {"aborted"} /\ UNCHANGED pc
          \/ kind \in Errors \cup {"aborted", "tools"} /\ Goto(r, "ended")
  /\ UNCHANGED <<outcome, activeRun, findings, pendingDecision, waiting, lifecycle,
                 queues, inputs, decisions, setup>>

\* Mutant: messages a decision holds back keep the loop from ending.
QueuesDrainedAll == userQueued = 0 /\ customQueued = 0

\* The poll hands out deliverable messages only.
QueuesDrained == ~Deliverable

\* The last poll of the queues found nothing: the loop emits agent_end.
LoopEnds(r) ==
  /\ pc[r] = "attempt" /\ liveTail > 0 /\ QueuesDrained
  /\ Goto(r, "ended")
  /\ UNCHANGED <<msg, outcome, activeRun, findings, pendingDecision, waiting,
                 lifecycle, queues, transcript, retries, budgets, bounds, history,
                 setup>>

\* finishRun; the session then leaves its loop or looks at what happened.
FinishRun(r) ==
  /\ pc[r] = "ended"
  /\ activeRun' = "nobody"
  /\ Goto(r, IF Stopped(r) THEN "finally" ELSE "post")
  /\ fits' = fits \ {r} /\ held' = held \ {r}
  /\ UNCHANGED <<msg, outcome, pendingDecision, waiting, lifecycle, queues,
                 transcript, retries, budgets, bounds, history, setup>>

-----------------------------------------------------------------------------
(* _handlePostAgentRun *)

RetryBudgetLeft(kind) ==
  \/ kind = "transient" /\ retryAttempt - rateLimitRetryAttempt < MaxRetries
  \/ kind = "rateLimit" /\ rateLimitRetryAttempt < MaxRateLimitRetries

DropTail == IF liveTail > 0 THEN liveTail - 1 ELSE 0

\* _prepareRetry up to the backoff: the failed turn leaves the context.
PrepareRetry(r) ==
  /\ pc[r] = "post" /\ RetryBudgetLeft(msg[r])
  /\ retryAttempt' = retryAttempt + 1
  /\ rateLimitRetryAttempt' =
       rateLimitRetryAttempt + (IF msg[r] = "rateLimit" THEN 1 ELSE 0)
  /\ backoff' = r
  /\ liveTail' = DropTail
  /\ Goto(r, "sleeping")
  /\ UNCHANGED <<msg, outcome, activeRun, findings, pendingDecision, waiting,
                 lifecycle, queues, savedTail, budgets, bounds, history, setup>>

NoRetry(r) ==
  /\ pc[r] = "post" /\ ~RetryBudgetLeft(msg[r])
  /\ Goto(r, "judge")
  /\ UNCHANGED <<msg, outcome, activeRun, findings, pendingDecision, waiting,
                 lifecycle, queues, transcript, retries, budgets, bounds, history,
                 setup>>

BackoffEnds(r) ==
  /\ pc[r] = "sleeping"
  /\ Goto(r, "continue")
  /\ backoff' = "nobody"
  /\ UNCHANGED <<msg, outcome, activeRun, findings, pendingDecision, waiting,
                 lifecycle, queues, transcript, retryAttempt, rateLimitRetryAttempt,
                 budgets, bounds, history, setup>>

\* A decision nothing deliverable answers: only repairs may run.
Held == pendingDecision /\ ~Deliverable

\* What _getOverflowKind makes of a turn: one to repair and retry, one to make
\* room after, or neither.  It is neither for a truncation that is not
\* recoverable, and for every turn of a model that is no longer selected.
OverflowKinds(kind) ==
  CASE kind \in {"overflow", "length"} -> {"repair", "none"}
    [] kind \in {"bigStop", "emptyOverflow"} -> {"makeRoom", "none"}
    [] OTHER -> {"none"}

\* Where a run goes that does not continue: one that found a decision pending
\* stops, whatever has become of the decision since.
AfterCheck(heldBack) == IF heldBack THEN "finally" ELSE "decide"

\* The errors that are not retried end their count; _checkCompaction chooses
\* between one repair with a retry, a compaction without one, and none.
Judge(r) ==
  /\ pc[r] = "judge"
  /\ \/ /\ Cancelled
        /\ Goto(r, "finally")
        /\ UNCHANGED <<retries, overflowRecoveryAttempted, liveTail, findings>>
     \/ /\ ~Cancelled
        /\ IF msg[r] \in Errors
           THEN retryAttempt' = 0 /\ rateLimitRetryAttempt' = 0 /\ UNCHANGED backoff
           ELSE UNCHANGED retries
        /\ held' = IF Held THEN held \cup {r} ELSE held
        /\ \E kind \in OverflowKinds(msg[r]) :
             /\ fits' = IF kind = "none" THEN fits \cup {r} ELSE fits
             /\ \/ /\ compactionEnabled /\ kind = "repair"
                   /\ ~overflowRecoveryAttempted
                   /\ overflowRecoveryAttempted' = TRUE
                   /\ liveTail' = DropTail
                   /\ Goto(r, "repair")
                \/ /\ compactionEnabled
                   /\ kind = "makeRoom" \/ (kind = "none" /\ ~Held /\ msg[r] # "aborted")
                   /\ Goto(r, "makeRoom")
                   /\ UNCHANGED <<overflowRecoveryAttempted, liveTail>>
                \/ /\ \/ ~compactionEnabled \/ kind = "none"
                      \/ kind = "repair" /\ overflowRecoveryAttempted
                   /\ Goto(r, AfterCheck(Held))
                   /\ UNCHANGED <<overflowRecoveryAttempted, liveTail>>
  /\ UNCHANGED <<msg, outcome, activeRun, pendingDecision, waiting, lifecycle,
                 queues, savedTail, incompleteTurnStreak, runFailure, bounds,
                 history, setup>>

\* The context is rebuilt from the session's branch (buildSessionContext), in
\* which every failed turn still stands; the last entry is always kept.
Rebuilt == IF savedTail = 0 THEN {0} ELSE 1 .. savedTail

\* A compaction that was not committed: it failed, was cancelled, or found no
\* history to summarize.
CompactionFails(r) ==
  /\ pc[r] \in {"repair", "makeRoom"}
  /\ Goto(r, AfterCheck(r \in held))
  /\ UNCHANGED <<msg, outcome, activeRun, findings, pendingDecision, waiting,
                 lifecycle, queues, transcript, retries, budgets, bounds, history,
                 setup>>

\* A committed compaction: a repair takes the failed turn out once more and
\* continues; making room continues only for queued messages.
CompactionCommits(r) ==
  /\ pc[r] \in {"repair", "makeRoom"} /\ r \notin aborted
  /\ fits' = fits \cup {r}
  /\ \E kept \in Rebuilt :
       \/ /\ pc[r] = "repair"
          /\ liveTail' = IF kept > 0 THEN kept - 1 ELSE 0
          /\ Goto(r, "continue")
       \/ /\ pc[r] = "makeRoom"
          /\ liveTail' = kept
          /\ Goto(r, IF Deliverable THEN "continue" ELSE AfterCheck(r \in held))
       \/ \* a session_compact handler throws after the commit
          liveTail' = kept /\ Goto(r, AfterCheck(r \in held))
  /\ UNCHANGED <<msg, outcome, activeRun, held, pendingDecision, waiting,
                 lifecycle, queues, savedTail, retries, budgets, bounds, history,
                 setup>>

\* Mutant: the run stops without saying why.
RecordFailureLost == UNCHANGED runFailure

\* _recordIncompleteRunFailure
RecordFailure == runFailure' = TRUE

RoomMissing(r) ==
  msg[r] = "emptyOverflow" /\ compactionEnabled /\ r \notin fits

\* What follows an attempt: queued input, one recovery prompt, or the end.
Decide(r) ==
  /\ pc[r] = "decide"
  /\ LET incomplete == msg[r] \in Incomplete
     IN IF incomplete /\ Cancelled
        THEN runFailure' = FALSE /\ Goto(r, "finally")
        ELSE IF incomplete /\ RoomMissing(r)
        THEN RecordFailure /\ Goto(r, "finally")
        ELSE /\ UNCHANGED runFailure
             /\ Goto(r, IF Deliverable THEN "deliver"
                        ELSE IF incomplete /\ ~pendingDecision /\ ~runFailure
                             THEN "recover" ELSE "finally")
  /\ UNCHANGED <<msg, outcome, activeRun, findings, pendingDecision, waiting,
                 lifecycle, queues, transcript, retries, overflowRecoveryAttempted,
                 incompleteTurnStreak, bounds, history, setup>>

\* agent.continue(): queued input becomes the prompt when it is asked for or
\* when the transcript ends in an assistant message, which nothing continues.
ContinueAgent(r) ==
  /\ pc[r] \in {"continue", "deliver"}
  /\ \/ Stopped(r) /\ Leave(r)
     \/ ~Stopped(r) /\ Busy /\ Reject(r, "busy")
     \/ /\ ~Stopped(r) /\ ~Busy
        /\ IF Deliverable /\ (liveTail > 0 \/ pc[r] = "deliver")
           THEN Acquire(r) /\ DrainOne
           ELSE IF liveTail > 0 THEN Reject(r, "tail")
           ELSE Acquire(r) /\ UNCHANGED <<queues, transcript, budgets, history>>
  /\ UNCHANGED <<msg, findings, pendingDecision, waiting, lifecycle, retries,
                 bounds, setup>>

\* The recovery prompt is a custom message of its own.
RecoverIncomplete(r) ==
  /\ pc[r] = "recover"
  /\ \/ Stopped(r) /\ Leave(r)
     \/ ~Stopped(r) /\ Busy /\ Reject(r, "busy")
     \/ /\ ~Stopped(r) /\ ~Busy
        /\ Acquire(r)
        /\ liveTail' = 0 /\ savedTail' = 0
        /\ recoveries' = recoveries + 1
        /\ UNCHANGED <<queues, budgets, reported, unresolved>>
  /\ UNCHANGED <<msg, findings, pendingDecision, waiting, lifecycle, retries,
                 bounds, setup>>

-----------------------------------------------------------------------------
(* The finally block. *)

\* Mutant: a failure classified before the user stopped the run is reported.
RunFailedAnyway(r) == runFailure

\* The user's cancellation outranks the diagnosis.
RunFailed(r) == runFailure /\ ~Stopped(r)

\* The failure is captured and cleared before the listeners are told.
Settle(r) ==
  /\ pc[r] = "finally"
  /\ Goto(r, "emitting")
  /\ reported' = IF RunFailed(r) THEN reported \cup {r} ELSE reported
  /\ runFailure' = FALSE /\ incompleteTurnStreak' = 0
  /\ controller' = "nobody" /\ isAgentRunActive' = FALSE
  /\ UNCHANGED <<msg, outcome, activeRun, findings, pendingDecision, waiting,
                 aborted, queues, transcript, retries, overflowRecoveryAttempted,
                 bounds, unresolved, recoveries, setup>>

\* Mutant: a listener that throws skips the waiters.
WakeIdleWaitersUnprotected == waiting' \in {waiting, waiting /\ isAgentRunActive}

\* _resolveIdleWaitIfIdle
WakeIdleWaiters == waiting' = (waiting /\ isAgentRunActive)

\* The agent_settled listeners have returned, and may have started a new run.
\* What the run kept for itself goes with it.
Settled(r) ==
  /\ pc[r] = "emitting"
  /\ Goto(r, "done")
  /\ WakeIdleWaiters
  /\ retryAttempt' = 0 /\ rateLimitRetryAttempt' = 0 /\ UNCHANGED backoff
  /\ msg' = [msg EXCEPT ![r] = "ok"]
  /\ outcome' = [outcome EXCEPT ![r] = "resolved"]
  /\ aborted' = aborted \ {r} /\ fits' = fits \ {r} /\ held' = held \ {r}
  /\ fromUser' = fromUser \ {r} /\ reported' = reported \ {r}
  /\ UNCHANGED <<activeRun, pendingDecision, isAgentRunActive, controller, queues,
                 transcript, budgets, bounds, unresolved, recoveries,
                 compactionEnabled>>

-----------------------------------------------------------------------------

Step(r) ==
  \/ PreflightFails(r) \/ PreflightPasses(r) \/ PromptAgent(r)
  \/ Inject(r) \/ Turn(r) \/ LoopEnds(r) \/ FinishRun(r)
  \/ PrepareRetry(r) \/ NoRetry(r) \/ BackoffEnds(r) \/ Judge(r)
  \/ CompactionFails(r) \/ CompactionCommits(r) \/ Decide(r)
  \/ ContinueAgent(r) \/ RecoverIncomplete(r) \/ Settle(r) \/ Settled(r)

Environment ==
  \/ QueueUser \/ QueueCustom \/ RaiseDecision \/ AnswerDecision
  \/ WaitForIdle \/ AbortRetry \/ Abort

Next ==
  \/ \E r \in Runs : Prompt(r) \/ TriggerTurn(r) \/ Step(r)
  \/ Environment

Spec == Init /\ [][Next]_vars

FairSpec == Spec /\ \A r \in Runs : WF_vars(Step(r))

-----------------------------------------------------------------------------
(* Properties. *)

\* A failed turn that showed some text gives the budget back that an empty
\* turn had taken.
Refills ==
  \E r \in Runs :
    /\ pc[r] = "attempt" /\ msg'[r] \in PartialText
    /\ incompleteTurnStreak > 0 /\ incompleteTurnStreak' = 0

(* Every run settles, whatever mixture of errors, truncations, overflows   *)
(* and empty turns the model answers with: no recovery path refills the    *)
(* budget of another one for ever.  The one exception is a model that      *)
(* alternates between empty turns and failed ones that show some text:     *)
(* each of those gives the budget of the empty turns back, which the       *)
(* comments at agent-session.ts:231 and :1537 say it must not.             *)
RunSettles ==
  \/ []<><<Refills>>_vars
  \/ \A r \in Runs : pc[r] \in InRun ~> pc[r] = "done"

(* Nobody is left waiting for the session to be idle with no run left to   *)
(* wake them, also when a listener of the settled event starts the next    *)
(* run, or two runs end in each other's settled window.                    *)
WaitersHaveARun ==
  waiting => \E r \in Runs : pc[r] \in InRun \cup {"finally", "emitting"}

(* The runs of a session share one agent: only one of them is ever inside  *)
(* an attempt, and its lock says which one.                                *)
OneAttempt ==
  \A r \in Runs : pc[r] \in {"attempt", "ended"} <=> activeRun = r

(* A cancelled run makes no further attempt: cancellation spans the gaps   *)
(* between attempts, the backoff and the compaction included.              *)
CancellationSticks ==
  [][\A r \in Runs : r \in aborted /\ activeRun' = r => activeRun = r]_vars

Settles(r) == pc[r] = "finally" /\ pc'[r] = "emitting"

(* The failure a run reports is its own and still stands: an incomplete    *)
(* turn that no completed turn and no user input has superseded, in a run  *)
(* the user did not cancel.  It assumes ~ConcurrentPreflight: two runs     *)
(* that overlap in a preflight share one failure.                          *)
NoFalseFailure ==
  [][\A r \in Runs : r \in reported' \ reported => unresolved /\ r \notin aborted]_vars

(* A run that ends on an empty turn says so, unless it was cancelled, its  *)
(* continuation was rejected, or a decision holds the recovery back, one   *)
(* that the run found pending after the turn or one that is pending still. *)
(* It assumes that no turn starts during a preflight                       *)
(* (~ConcurrentPreflight): runs that overlap share one failure.            *)
NoSilentFailure ==
  [][\A r \in Runs :
       Settles(r) /\ msg[r] \in Incomplete /\ outcome[r] = "resolved" =>
         r \in reported' \cup aborted \cup held \/ pendingDecision]_vars

(* An empty turn is answered by at most one recovery prompt until a turn   *)
(* shows the user something, be it the text of one that failed, or the     *)
(* user speaks.  It assumes ~ConcurrentPreflight, as above.                *)
RecoveriesBounded == recoveries <= RecoveryAttempts

(* The comment on the repaired transcript (agent-session.ts:3765): the     *)
(* failed turn is removed again so that the continuation is accepted.      *)
ContinueAccepted == \A r \in Runs : outcome[r] # "tail"

=============================================================================
