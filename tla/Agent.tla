------------------------------- MODULE Agent -------------------------------
(***************************************************************************)
(* The agent core: class Agent (packages/agent-core/src/agent.ts), which   *)
(* owns the transcript and the two message queues, driving runLoop         *)
(* (agent-loop.ts), which alternates provider requests and tool batches.   *)
(*                                                                         *)
(* Every await of the loop is a point where the other actors act: the user *)
(* or an extension queueing, clearing, aborting, or opening a decision     *)
(* that makes the delivery filter refuse automatic messages. One action is *)
(* the code between two awaits. A queue is the set of the messages in it   *)
(* together with `arrival', the position of each enqueue, which is the     *)
(* array order of PendingMessageQueue: nothing is ever put back.           *)
(* A tool batch is seen through what executeToolCalls returns (ToolBatch   *)
(* models it in detail).                                                   *)
(***************************************************************************)
EXTENDS Naturals, Sequences, FiniteSets

CONSTANTS Messages,      \* what may be prompted or queued, each at most once
          UserMessages,  \* those the delivery filter lets through during a hold
          SteeringMode,  \* "all" or "one-at-a-time"
          FollowUpMode,
          Interventions, \* bound: which of "clear", "hold", "abort", "reset"
                         \* the callers use besides queueing and prompting
          MaxCalls,      \* bound: tool calls in one assistant message
          MaxToolTurns,  \* bound: assistant messages that call tools
          MaxFaults      \* bound: rejections of a subscriber or a hook

Modes == {"all", "one-at-a-time"}

ASSUME AgentAssumption ==
  /\ IsFiniteSet(Messages) /\ UserMessages \subseteq Messages
  /\ SteeringMode \in Modes
  /\ FollowUpMode \in Modes
  /\ Interventions \subseteq {"clear", "hold", "abort", "reset"}
  /\ MaxCalls \in Nat \ {0}
  /\ MaxToolTurns \in Nat
  /\ MaxFaults \in Nat

VARIABLES
  steeringQueue, followUpQueue,  \* the messages waiting in each queue
  via,               \* how each message was handed in, "none" before that
  arrival,           \* its position among everything handed in, 0 before that
  dropped,           \* messages removed by a clear or a reset
  hold,              \* the delivery filter refuses everything but UserMessages
  messages,          \* _state.messages, the transcript
  activeRun,         \* a run is active
  aborted,           \* its abort signal fired
  pc,                \* the await the loop is at
  pendingMessages,   \* taken from a queue (or prompted), not yet injected
  skipInitialSteeringPoll,
  lastCompletedTurn, \* some turn of this run has ended
  injectedSteering,  \* this turn has been given messages already
  calls, answered,   \* tool calls of the current batch, results emitted
  hasMoreToolCalls, stopTurn,
  runStart,          \* length of the transcript when the run started
  toolTurns, faults  \* counters of the bounds

queueVars == <<steeringQueue, followUpQueue, via, arrival, dropped, hold>>
batchVars == <<calls, answered, hasMoreToolCalls, stopTurn, toolTurns>>
turnVars  == <<lastCompletedTurn, injectedSteering, skipInitialSteeringPoll>>
runVars   == <<activeRun, runStart>>
vars == <<queueVars, batchVars, turnVars, runVars, messages, aborted, pc,
          pendingMessages, faults>>

Vias == {"none", "prompt", "steer", "followUp"}
StopReasons == {"stop", "toolUse", "length", "error", "aborted"}
PCs == {"idle", "prompt", "poll", "prepare", "inject", "hook", "lateInject",
        "stream", "tools", "turnEnd", "followUp", "agentEnd", "ended",
        "failed", "finish"}

UserEntry(m) == [role |-> "user", msg |-> m]
AssistantEntry(stop, n) == [role |-> "assistant", stop |-> stop, calls |-> n]
ResultEntry(k) == [role |-> "toolResult", call |-> k]
Entries == [role : {"user"}, msg : Messages]
           \cup [role : {"assistant"}, stop : StopReasons, calls : 0..MaxCalls]
           \cup [role : {"toolResult"}, call : 1..MaxCalls]

\* The assistant entry at the end of the transcript, if it is one.
AssistantTail == messages # << >> /\ messages[Len(messages)].role = "assistant"

\* The messages handed in so far.
Sent == {m \in Messages : via[m] # "none"}

Init ==
  /\ steeringQueue = {} /\ followUpQueue = {} /\ dropped = {}
  /\ via = [m \in Messages |-> "none"]
  /\ arrival = [m \in Messages |-> 0]
  /\ hold = FALSE
  /\ messages = << >>
  /\ activeRun = FALSE /\ aborted = FALSE /\ pc = "idle"
  /\ pendingMessages = {}
  /\ skipInitialSteeringPoll = FALSE
  /\ lastCompletedTurn = FALSE /\ injectedSteering = FALSE
  /\ calls = 0 /\ answered = 0
  /\ hasMoreToolCalls = FALSE /\ stopTurn = FALSE
  /\ runStart = 0
  /\ toolTurns = 0 /\ faults = 0

-----------------------------------------------------------------------------
(* PendingMessageQueue *)

Deliverable(queue) == IF hold THEN queue \cap UserMessages ELSE queue

\* The oldest message of S: a singleton, unless S is empty.
Newest(S) == {m \in S : \A n \in S : arrival[m] >= arrival[n]}  \* mutant
Oldest(S) == {m \in S : \A n \in S : arrival[m] <= arrival[n]}

\* What drain() takes from the queue: the one set of messages in this set.
Drain(queue, mode) ==
  LET D == Deliverable(queue)
  IN  IF D = {} \/ mode = "all" THEN {D} ELSE {{m} : m \in Oldest(D)}

\* m is handed in now, through `how'.
HandIn(m, how) ==
  /\ via[m] = "none"
  /\ via' = [via EXCEPT ![m] = how]
  /\ arrival' = [arrival EXCEPT ![m] = Cardinality(Sent) + 1]

-----------------------------------------------------------------------------
(* The callers of Agent, at any moment *)

Steer(m) ==
  /\ HandIn(m, "steer")
  /\ steeringQueue' = steeringQueue \cup {m}
  /\ UNCHANGED <<followUpQueue, dropped, hold, batchVars, turnVars, runVars,
                 messages, aborted, pc, pendingMessages, faults>>

FollowUp(m) ==
  /\ HandIn(m, "followUp")
  /\ followUpQueue' = followUpQueue \cup {m}
  /\ UNCHANGED <<steeringQueue, dropped, hold, batchVars, turnVars, runVars,
                 messages, aborted, pc, pendingMessages, faults>>

ClearAllQueues ==
  /\ "clear" \in Interventions
  /\ dropped' = dropped \cup steeringQueue \cup followUpQueue
  /\ steeringQueue' = {} /\ followUpQueue' = {}
  /\ UNCHANGED <<via, arrival, hold, batchVars, turnVars, runVars, messages,
                 aborted, pc, pendingMessages, faults>>

\* A decision of the user opens or closes: setQueueDeliveryFilter's predicate.
ToggleHold ==
  /\ "hold" \in Interventions
  /\ hold' = ~hold
  /\ UNCHANGED <<steeringQueue, followUpQueue, via, arrival, dropped, batchVars,
                 turnVars, runVars, messages, aborted, pc, pendingMessages,
                 faults>>

Abort ==
  /\ "abort" \in Interventions
  /\ activeRun /\ ~aborted
  /\ aborted' = TRUE
  /\ UNCHANGED <<queueVars, batchVars, turnVars, runVars, messages, pc,
                 pendingMessages, faults>>

Reset ==
  /\ "reset" \in Interventions
  /\ ~activeRun
  /\ messages' = << >>
  /\ dropped' = dropped \cup steeringQueue \cup followUpQueue
                  \cup {m \in Messages : \E i \in 1..Len(messages) :
                                            messages[i] = UserEntry(m)}
  /\ steeringQueue' = {} /\ followUpQueue' = {}
  /\ UNCHANGED <<via, arrival, hold, batchVars, turnVars, runVars, aborted, pc,
                 pendingMessages, faults>>

-----------------------------------------------------------------------------
(* Starting a run: runWithLifecycle, entered at `start' with `input' *)

StartRun(input, start, skip) ==
  /\ activeRun' = TRUE /\ aborted' = FALSE
  /\ runStart' = Len(messages)
  /\ pc' = start /\ pendingMessages' = input
  /\ skipInitialSteeringPoll' = skip
  /\ lastCompletedTurn' = FALSE /\ injectedSteering' = FALSE
  /\ calls' = 0 /\ answered' = 0
  /\ hasMoreToolCalls' = TRUE /\ stopTurn' = FALSE
  /\ UNCHANGED <<messages, toolTurns, faults>>

Prompt(m) ==
  /\ ~activeRun
  /\ HandIn(m, "prompt")
  /\ StartRun({m}, "prompt", FALSE)
  /\ UNCHANGED <<steeringQueue, followUpQueue, dropped, hold>>

\* continue() delivers queued input when the transcript ends with an assistant
\* message or the caller asks for it: steering first, then follow-ups.
ContinueWithSteering(deliverQueued) ==
  /\ ~activeRun /\ messages # << >>
  /\ AssistantTail \/ deliverQueued
  /\ \E input \in Drain(steeringQueue, SteeringMode) :
       /\ input # {}
       /\ steeringQueue' = steeringQueue \ input
       /\ StartRun(input, "prompt", TRUE)
  /\ UNCHANGED <<followUpQueue, via, arrival, dropped, hold>>

ContinueWithFollowUp(deliverQueued) ==
  /\ ~activeRun /\ messages # << >>
  /\ AssistantTail \/ deliverQueued
  /\ Deliverable(steeringQueue) = {}
  /\ \E input \in Drain(followUpQueue, FollowUpMode) :
       /\ input # {}
       /\ followUpQueue' = followUpQueue \ input
       /\ StartRun(input, "prompt", FALSE)
  /\ UNCHANGED <<steeringQueue, via, arrival, dropped, hold>>

\* Otherwise it continues from the transcript; with an assistant tail it throws.
ContinueFromTranscript(deliverQueued) ==
  /\ ~activeRun /\ messages # << >> /\ ~AssistantTail
  /\ deliverQueued => Deliverable(steeringQueue \cup followUpQueue) = {}
  /\ StartRun({}, "poll", FALSE)
  /\ UNCHANGED queueVars

-----------------------------------------------------------------------------
(* runLoop *)

\* The oldest pending message enters the transcript; its events are awaited.
InjectOne ==
  \E m \in Oldest(pendingMessages) :
    /\ messages' = Append(messages, UserEntry(m))
    /\ pendingMessages' = pendingMessages \ {m}

InjectPrompt ==
  /\ pc = "prompt"
  /\ \/ InjectOne /\ UNCHANGED pc
     \/ /\ pendingMessages = {} /\ pc' = "poll"
        /\ UNCHANGED <<messages, pendingMessages>>
  /\ UNCHANGED <<queueVars, batchVars, turnVars, runVars, aborted, faults>>

TakeSteering ==
  \E taken \in Drain(steeringQueue, SteeringMode) :
    /\ pendingMessages' = taken
    /\ steeringQueue' = steeringQueue \ taken

InitialPoll ==
  /\ pc = "poll"
  /\ IF skipInitialSteeringPoll
     THEN UNCHANGED <<pendingMessages, steeringQueue>>
     ELSE TakeSteering
  /\ skipInitialSteeringPoll' = FALSE
  /\ pc' = "inject"
  /\ UNCHANGED <<followUpQueue, via, arrival, dropped, hold, batchVars, runVars,
                 lastCompletedTurn, injectedSteering, messages, aborted, faults>>

PrepareAlwaysPolls ==  \* mutant: polls even though messages are pending
  /\ pc = "prepare"
  /\ TakeSteering
  /\ pc' = "inject"
  /\ UNCHANGED <<followUpQueue, via, arrival, dropped, hold, batchVars, turnVars,
                 runVars, messages, aborted, faults>>

\* prepareNextTurn returned: poll again only when nothing is pending.
PrepareNextTurn ==
  /\ pc = "prepare"
  /\ IF pendingMessages = {} THEN TakeSteering
     ELSE UNCHANGED <<pendingMessages, steeringQueue>>
  /\ pc' = "inject"
  /\ UNCHANGED <<followUpQueue, via, arrival, dropped, hold, batchVars, turnVars,
                 runVars, messages, aborted, faults>>

InjectPending ==
  /\ pc = "inject"
  /\ \/ InjectOne /\ injectedSteering' = TRUE /\ UNCHANGED pc
     \/ /\ pendingMessages = {} /\ pc' = "hook"
        /\ UNCHANGED <<messages, pendingMessages, injectedSteering>>
  /\ UNCHANGED <<queueVars, batchVars, runVars, lastCompletedTurn,
                 skipInitialSteeringPoll, aborted, faults>>

\* beforeModelRequest returned: a follow-up request that was given nothing yet
\* takes the steering queued during the hook.
LatePollRepeats == lastCompletedTurn /\ ~aborted  \* mutant
LatePoll == lastCompletedTurn /\ ~injectedSteering /\ ~aborted

BeforeModelRequest ==
  /\ pc = "hook"
  /\ IF LatePoll THEN TakeSteering
     ELSE UNCHANGED <<pendingMessages, steeringQueue>>
  /\ pc' = "lateInject"
  /\ UNCHANGED <<followUpQueue, via, arrival, dropped, hold, batchVars, turnVars,
                 runVars, messages, aborted, faults>>

InjectLate ==
  /\ pc = "lateInject"
  /\ \/ InjectOne /\ UNCHANGED pc
     \/ /\ pendingMessages = {} /\ pc' = "stream"
        /\ UNCHANGED <<messages, pendingMessages>>
  /\ UNCHANGED <<queueVars, batchVars, turnVars, runVars, aborted, faults>>

\* The provider's terminal message, however the stream ended (AssistantStream).
StreamAssistantResponse(stop, n) ==
  /\ pc = "stream"
  /\ stop = "aborted" => aborted
  /\ n > 0 => stop \in {"toolUse", "length"} /\ toolTurns < MaxToolTurns
  /\ messages' = Append(messages, AssistantEntry(stop, n))
  /\ pc' = CASE stop \in {"error", "aborted"} -> "agentEnd"
             [] stop \notin {"error", "aborted"} /\ n > 0 -> "tools"
             [] OTHER -> "turnEnd"
  /\ calls' = n /\ answered' = 0
  /\ hasMoreToolCalls' = FALSE /\ stopTurn' = FALSE
  /\ toolTurns' = toolTurns + (IF n > 0 THEN 1 ELSE 0)
  /\ UNCHANGED <<queueVars, turnVars, runVars, aborted, pendingMessages, faults>>

CallsRemain == answered < calls

\* executeToolCalls emits the result of the next call of the message.
EmitToolResult ==
  /\ pc = "tools" /\ CallsRemain
  /\ messages' = Append(messages, ResultEntry(answered + 1))
  /\ answered' = answered + 1
  /\ UNCHANGED <<queueVars, turnVars, runVars, aborted, pc, pendingMessages,
                 calls, hasMoreToolCalls, stopTurn, toolTurns, faults>>

\* The message whose calls are being answered was cut off by the token limit.
Truncated == messages[Len(messages) - answered].stop = "length"

\* The batch returns: every call answered, or a nonempty prefix after an abort.
BatchDoneOneShort == answered + 1 >= calls \/ (aborted /\ ~Truncated)  \* mutant
BatchDone == answered = calls \/ (aborted /\ ~Truncated)

FinishBatch(terminate, stop) ==
  /\ pc = "tools" /\ answered > 0
  /\ BatchDone
  /\ stop => terminate
  /\ Truncated => ~terminate
  /\ hasMoreToolCalls' = ~terminate
  /\ stopTurn' = stop
  /\ pc' = "turnEnd"
  /\ UNCHANGED <<queueVars, turnVars, runVars, messages, aborted,
                 pendingMessages, calls, answered, toolTurns, faults>>

BarrierUnlessSteered == stopTurn /\ steeringQueue = {}  \* mutant
Barrier == stopTurn

\* turn_end, then shouldStopAfterTurn: a barrier or the hook ends the run
\* before any queue is polled.
StopAfterTurn(hook) ==
  /\ pc = "turnEnd"
  /\ Barrier \/ hook
  /\ lastCompletedTurn' = TRUE
  /\ pc' = "agentEnd"
  /\ UNCHANGED <<queueVars, batchVars, runVars, injectedSteering, messages,
                 skipInitialSteeringPoll, aborted, pendingMessages, faults>>

PollAfterTurn ==
  /\ pc = "turnEnd"
  /\ ~Barrier
  /\ TakeSteering
  /\ lastCompletedTurn' = TRUE /\ injectedSteering' = FALSE
  /\ pc' = IF hasMoreToolCalls \/ pendingMessages' # {}
           THEN "prepare" ELSE "followUp"
  /\ UNCHANGED <<followUpQueue, via, arrival, dropped, hold, batchVars, runVars,
                 skipInitialSteeringPoll, messages, aborted, faults>>

PeekFollowUps ==  \* mutant: takes without removing
  /\ pendingMessages' \in Drain(followUpQueue, FollowUpMode)
  /\ UNCHANGED followUpQueue
TakeFollowUps ==
  \E taken \in Drain(followUpQueue, FollowUpMode) :
    /\ pendingMessages' = taken
    /\ followUpQueue' = followUpQueue \ taken

PollFollowUps ==
  /\ pc = "followUp"
  /\ TakeFollowUps
  /\ pc' = IF pendingMessages' # {} THEN "prepare" ELSE "agentEnd"
  /\ UNCHANGED <<steeringQueue, via, arrival, dropped, hold, batchVars, turnVars,
                 runVars, messages, aborted, faults>>

EmitAgentEnd ==
  /\ pc = "agentEnd"
  /\ pc' = "ended"
  /\ UNCHANGED <<queueVars, batchVars, turnVars, activeRun, runStart, messages,
                 aborted, pendingMessages, faults>>

-----------------------------------------------------------------------------
(* Failure and the end of a run *)

\* A subscriber or a hook rejects: the loop's locals are gone. A rejection
\* while the failure itself is being reported leaves only finishRun.
Reject ==
  /\ faults < MaxFaults
  /\ pc \notin {"idle", "finish"}
  /\ faults' = faults + 1
  /\ pc' = IF pc = "failed" THEN "finish" ELSE "failed"
  /\ pendingMessages' = {}
  /\ UNCHANGED <<queueVars, batchVars, turnVars, runVars, messages, aborted>>

HandleRunFailure ==
  /\ pc = "failed"
  /\ messages' = Append(messages,
                   AssistantEntry(IF aborted THEN "aborted" ELSE "error", 0))
  /\ pc' = "finish"
  /\ UNCHANGED <<queueVars, batchVars, turnVars, activeRun, runStart, aborted,
                 pendingMessages, faults>>

SettledOnlyAfterAgentEnd == pc = "ended"  \* mutant: no finally
Settled == pc \in {"ended", "finish"}

FinishRun ==
  /\ Settled
  /\ activeRun' = FALSE
  /\ pc' = "idle"
  /\ UNCHANGED <<queueVars, batchVars, turnVars, runStart, messages,
                 aborted, pendingMessages, faults>>

-----------------------------------------------------------------------------
Callers ==
  \/ \E m \in Messages : Steer(m) \/ FollowUp(m)
  \/ ClearAllQueues
  \/ ToggleHold
  \/ Abort
  \/ Reset

Start ==
  \/ \E m \in Messages : Prompt(m)
  \/ \E deliverQueued \in BOOLEAN :
       \/ ContinueWithSteering(deliverQueued)
       \/ ContinueWithFollowUp(deliverQueued)
       \/ ContinueFromTranscript(deliverQueued)

Loop ==
  \/ InjectPrompt \/ InitialPoll \/ PrepareNextTurn \/ InjectPending
  \/ BeforeModelRequest \/ InjectLate
  \/ \E stop \in StopReasons, n \in 0..MaxCalls : StreamAssistantResponse(stop, n)
  \/ EmitToolResult
  \/ \E terminate, stop \in BOOLEAN : FinishBatch(terminate, stop)
  \/ \E hook \in BOOLEAN : StopAfterTurn(hook)
  \/ PollAfterTurn \/ PollFollowUps \/ EmitAgentEnd
  \/ HandleRunFailure \/ FinishRun

Next == Callers \/ Start \/ Loop \/ Reject

Spec == Init /\ [][Next]_vars

\* Providers, tools, hooks and subscribers settle: the loop never rests at an
\* await for ever.
FairSpec == Spec /\ WF_vars(Loop)
-----------------------------------------------------------------------------
(* Properties *)

\* The state variables range over what the code can hold.
TypeOK ==
  /\ steeringQueue \subseteq Messages /\ followUpQueue \subseteq Messages
  /\ pendingMessages \subseteq Messages /\ dropped \subseteq Messages
  /\ via \in [Messages -> Vias] /\ arrival \in [Messages -> Nat]
  /\ hold \in BOOLEAN /\ activeRun \in BOOLEAN /\ aborted \in BOOLEAN
  /\ messages \in Seq(Entries) /\ pc \in PCs
  /\ skipInitialSteeringPoll \in BOOLEAN /\ lastCompletedTurn \in BOOLEAN
  /\ injectedSteering \in BOOLEAN
  /\ calls \in 0..MaxCalls /\ answered \in 0..MaxCalls /\ answered <= calls
  /\ hasMoreToolCalls \in BOOLEAN /\ stopTurn \in BOOLEAN
  /\ runStart \in Nat /\ toolTurns \in Nat /\ faults \in Nat
  /\ pc = "idle" <=> ~activeRun

InTranscript(m) == \E i \in 1..Len(messages) : messages[i] = UserEntry(m)

\* The places a message can be in, as a set of names.
Places(m) ==
  {p \in {"steering", "followUp", "pending", "transcript", "dropped"} :
     \/ p = "steering"   /\ m \in steeringQueue
     \/ p = "followUp"   /\ m \in followUpQueue
     \/ p = "pending"    /\ m \in pendingMessages
     \/ p = "transcript" /\ InTranscript(m)
     \/ p = "dropped"    /\ m \in dropped}

\* A message handed to the agent is neither lost nor copied while nothing
\* rejects: it waits in one queue, or was taken by the loop, or is in the
\* transcript, or was dropped by a clear, whatever the order of polls,
\* injections, aborts and runs (drain, injectPending, continue).
NothingLost == faults = 0 => \A m \in Sent : Cardinality(Places(m)) = 1

\* No message is delivered twice, not even when a rejection throws away what
\* the loop had taken: it enters the transcript at one position, and once
\* there it is in no queue and in no pending batch.
DeliveredOnce ==
  /\ \A i, j \in 1..Len(messages) :
       messages[i].role = "user" /\ messages[i] = messages[j] => i = j
  /\ \A m \in Messages :
       InTranscript(m) =>
         m \notin steeringQueue \cup followUpQueue \cup pendingMessages

\* The inductive form of DeliveredOnce: a queue holds only what was handed to
\* it, and what the loop took or injected is in no queue.
Placement ==
  /\ \A m \in steeringQueue : via[m] = "steer"
  /\ \A m \in followUpQueue : via[m] = "followUp"
  /\ \A m \in pendingMessages :
       via[m] # "none" /\ m \notin steeringQueue \cup followUpQueue
  /\ \A i \in 1..Len(messages) : messages[i].role = "user" =>
       /\ via[messages[i].msg] # "none"
       /\ messages[i].msg \notin
            steeringQueue \cup followUpQueue \cup pendingMessages
  /\ \A i, j \in 1..Len(messages) :
       messages[i].role = "user" /\ messages[i] = messages[j] => i = j

\* m and n came in through the same queue, m first, and the filter treats
\* them alike.
Before(m, n) ==
  /\ via[m] = via[n] /\ via[m] \in {"steer", "followUp"}
  /\ arrival[m] < arrival[n]
  /\ m \in UserMessages <=> n \in UserMessages

\* A queue is first in, first out, also across a hold that let later user
\* messages overtake automatic ones: a message is never taken, nor injected,
\* while an older one of its kind still waits.
OldestFirst ==
  \A m, n \in Messages : Before(m, n) =>
    /\ m \in steeringQueue \cup followUpQueue =>
         n \notin pendingMessages /\ ~InTranscript(n)
    /\ m \in pendingMessages => ~InTranscript(n)

\* In one-at-a-time mode the model answers each steering message before it is
\* given the next one: between two of them there is an assistant message. The
\* loop polls at three points of a turn, and only one of them may deliver. It
\* is not claimed once a rejection hits the report of an earlier one: then
\* nothing ends the transcript of the failed run.
OneSteeringPerTurn ==
  SteeringMode = "one-at-a-time" /\ faults <= 1 =>
    \A i, j \in 1..Len(messages) :
      /\ i < j
      /\ messages[i].role = "user" /\ messages[j].role = "user"
      /\ via[messages[i].msg] = "steer" /\ via[messages[j].msg] = "steer"
      => \E k \in i..j : messages[k].role = "assistant"

\* When a request goes out in a run nobody aborted, every tool call made in
\* this run has its results right behind it, in the order of the calls: the
\* provider never sees a dangling call, and steering never splits a batch.
CallsAnswered ==
  pc = "stream" /\ ~aborted =>
    \A i \in (runStart + 1)..Len(messages) :
      messages[i].role = "assistant" =>
        \A k \in 1..messages[i].calls :
          i + k <= Len(messages) /\ messages[i + k] = ResultEntry(k)

\* A tool that ended the turn ends the run: after it no message is taken from
\* a queue and no provider answer comes in before the run is over.
BarrierEndsRun ==
  [][stopTurn /\ pc = "turnEnd" =>
       pc' \in {"turnEnd", "agentEnd", "failed"} /\ pendingMessages' = {}]_vars

\* A run comes to an end, whatever is queued, held or aborted meanwhile.
RunEnds == activeRun ~> ~activeRun
=============================================================================
