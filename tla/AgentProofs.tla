---------------------------- MODULE AgentProofs ----------------------------
(***************************************************************************)
(* Proofs about Agent for every set of messages, every queue mode and any  *)
(* number of tool calls, turns and rejections.                             *)
(***************************************************************************)
EXTENDS Agent, FiniteSetTheorems, TLAPS

\* The number of messages handed in is a natural number.
LEMMA SentCardinality ==
  ASSUME AgentAssumption
  PROVE  Cardinality(Sent) \in Nat
<1>1. IsFiniteSet(Sent)
  BY FS_Subset DEF AgentAssumption, Sent
<1> QED
  BY <1>1, FS_CardinalityType

\* A drain takes deliverable messages of the queue, nothing else.
LEMMA DrainTakes ==
  ASSUME NEW queue \in SUBSET Messages, NEW mode,
         NEW taken \in Drain(queue, mode)
  PROVE  taken \subseteq queue
BY DEF Drain, Deliverable, Oldest

\* Adding an entry keeps the transcript a sequence of entries.
LEMMA AppendEntry ==
  ASSUME NEW s \in Seq(Entries), NEW e \in Entries
  PROVE  /\ Append(s, e) \in Seq(Entries)
         /\ Len(Append(s, e)) = Len(s) + 1
         /\ \A i \in 1..Len(s) : Append(s, e)[i] = s[i]
         /\ Append(s, e)[Len(s) + 1] = e
OBVIOUS

-----------------------------------------------------------------------------
(* Type correctness, one lemma per group of actions *)

LEMMA TypeInit == AgentAssumption /\ Init => TypeOK
<1> SUFFICES ASSUME AgentAssumption, Init PROVE TypeOK
  OBVIOUS
<1> USE DEF AgentAssumption, Init, Vias, PCs
<1>1. via \in [Messages -> Vias] /\ arrival \in [Messages -> Nat]
  OBVIOUS
<1>2. messages \in Seq(Entries)
  OBVIOUS
<1>3. calls \in 0..MaxCalls /\ answered \in 0..MaxCalls /\ answered <= calls
  OBVIOUS
<1>4. pc = "idle" <=> ~activeRun
  OBVIOUS
<1> QED
  BY <1>1, <1>2, <1>3, <1>4 DEF TypeOK

\* The callers leave the run alone and move messages between queues.
LEMMA TypeCallers == AgentAssumption /\ TypeOK /\ Callers => TypeOK'
<1> SUFFICES ASSUME AgentAssumption, TypeOK, Callers PROVE TypeOK'
  OBVIOUS
<1> USE DEF TypeOK, Vias, queueVars, batchVars, turnVars, runVars
<1>1. ASSUME NEW m \in Messages, Steer(m) PROVE TypeOK'
  BY <1>1, SentCardinality DEF Steer, HandIn
<1>2. ASSUME NEW m \in Messages, FollowUp(m) PROVE TypeOK'
  BY <1>2, SentCardinality DEF FollowUp, HandIn
<1>3. CASE ClearAllQueues
  BY <1>3 DEF ClearAllQueues
<1>4. CASE ToggleHold
  BY <1>4 DEF ToggleHold
<1>5. CASE Abort
  BY <1>5 DEF Abort
<1>6. CASE Reset
  BY <1>6 DEF Reset
<1> QED
  BY <1>1, <1>2, <1>3, <1>4, <1>5, <1>6 DEF Callers

\* A run starts with messages drained from a queue, or prompted.
LEMMA TypeStart == AgentAssumption /\ TypeOK /\ Start => TypeOK'
<1> SUFFICES ASSUME AgentAssumption, TypeOK, Start PROVE TypeOK'
  OBVIOUS
<1>0. ASSUME NEW input \in SUBSET Messages, NEW start \in {"prompt", "poll"},
             NEW skip \in BOOLEAN, StartRun(input, start, skip)
      PROVE  /\ calls' \in 0..MaxCalls /\ answered' \in 0..MaxCalls
             /\ answered' <= calls' /\ runStart' \in Nat
  BY <1>0 DEF StartRun, TypeOK, AgentAssumption
<1> USE DEF TypeOK, Vias, PCs, queueVars
<1>1. ASSUME NEW m \in Messages, Prompt(m) PROVE TypeOK'
  <2>1. via' \in [Messages -> Vias] /\ arrival' \in [Messages -> Nat]
    BY <1>1, SentCardinality DEF Prompt, HandIn
  <2>2. StartRun({m}, "prompt", FALSE)
    BY <1>1 DEF Prompt
  <2> QED
    BY <1>0, <1>1, <2>1, <2>2 DEF Prompt, StartRun
<1>2. ASSUME NEW d \in BOOLEAN, ContinueWithSteering(d) PROVE TypeOK'
  BY <1>0, <1>2, DrainTakes DEF ContinueWithSteering, StartRun
<1>3. ASSUME NEW d \in BOOLEAN, ContinueWithFollowUp(d) PROVE TypeOK'
  BY <1>0, <1>3, DrainTakes DEF ContinueWithFollowUp, StartRun
<1>4. ASSUME NEW d \in BOOLEAN, ContinueFromTranscript(d) PROVE TypeOK'
  BY <1>0, <1>4 DEF ContinueFromTranscript, StartRun
<1> QED
  BY <1>1, <1>2, <1>3, <1>4 DEF Start

\* The steps that take from a queue.
LEMMA TypePolls ==
  AgentAssumption /\ TypeOK
    /\ (InitialPoll \/ PrepareNextTurn \/ BeforeModelRequest
          \/ PollAfterTurn \/ PollFollowUps)
  => TypeOK'
<1> SUFFICES ASSUME AgentAssumption, TypeOK,
                    InitialPoll \/ PrepareNextTurn \/ BeforeModelRequest
                      \/ PollAfterTurn \/ PollFollowUps
             PROVE  TypeOK'
  OBVIOUS
<1> USE DEF TypeOK, PCs, TakeSteering, batchVars, turnVars, runVars
<1>1. CASE InitialPoll
  BY <1>1, DrainTakes DEF InitialPoll
<1>2. CASE PrepareNextTurn
  BY <1>2, DrainTakes DEF PrepareNextTurn
<1>3. CASE BeforeModelRequest
  BY <1>3, DrainTakes DEF BeforeModelRequest
<1>4. CASE PollAfterTurn
  BY <1>4, DrainTakes DEF PollAfterTurn
<1>5. CASE PollFollowUps
  BY <1>5, DrainTakes DEF PollFollowUps, TakeFollowUps
<1> QED
  BY <1>1, <1>2, <1>3, <1>4, <1>5

\* The injections move a pending message into the transcript.
LEMMA TypeInjections ==
  AgentAssumption /\ TypeOK /\ (InjectPrompt \/ InjectPending \/ InjectLate)
  => TypeOK'
<1> SUFFICES ASSUME AgentAssumption, TypeOK,
                    InjectPrompt \/ InjectPending \/ InjectLate
             PROVE  TypeOK'
  OBVIOUS
<1>1. ASSUME InjectOne
      PROVE  messages' \in Seq(Entries) /\ pendingMessages' \subseteq Messages
  BY <1>1, AppendEntry DEF InjectOne, Oldest, TypeOK, UserEntry, Entries
<1> USE DEF TypeOK, PCs, queueVars, batchVars, turnVars, runVars
<1>2. CASE InjectPrompt
  BY <1>1, <1>2 DEF InjectPrompt
<1>3. CASE InjectPending
  BY <1>1, <1>3 DEF InjectPending
<1>4. CASE InjectLate
  BY <1>1, <1>4 DEF InjectLate
<1> QED
  BY <1>2, <1>3, <1>4

\* The steps of a turn and of the end of a run.
LEMMA TypeTurn == AgentAssumption /\ TypeOK /\ (Loop \/ Reject) => TypeOK'
<1> SUFFICES ASSUME AgentAssumption, TypeOK, Loop \/ Reject PROVE TypeOK'
  OBVIOUS
<1> USE DEF TypeOK, PCs, queueVars, batchVars, turnVars, runVars
<1>1. ASSUME NEW stop \in StopReasons, NEW n \in 0..MaxCalls,
             StreamAssistantResponse(stop, n)
      PROVE  TypeOK'
  <2>1. messages' \in Seq(Entries)
    BY <1>1, AppendEntry DEF StreamAssistantResponse, AssistantEntry, Entries
  <2>2. pc' \in {"agentEnd", "tools", "turnEnd"}
    BY <1>1 DEF StreamAssistantResponse
  <2>3. /\ calls' \in 0..MaxCalls /\ answered' \in 0..MaxCalls
        /\ answered' <= calls' /\ toolTurns' \in Nat
    BY <1>1 DEF StreamAssistantResponse, AgentAssumption
  <2>4. hasMoreToolCalls' = FALSE /\ stopTurn' = FALSE
    BY <1>1 DEF StreamAssistantResponse
  <2>5. pc = "stream" /\ UNCHANGED <<queueVars, turnVars, runVars, aborted,
                                     pendingMessages, faults>>
    BY <1>1 DEF StreamAssistantResponse
  <2> QED
    BY <2>1, <2>2, <2>3, <2>4, <2>5
<1>2. CASE EmitToolResult
  <2>1. ResultEntry(answered + 1) \in Entries
    BY <1>2 DEF EmitToolResult, CallsRemain, ResultEntry, Entries, AgentAssumption
  <2> QED
    BY <1>2, <2>1, AppendEntry DEF EmitToolResult, CallsRemain, AgentAssumption
<1>3. ASSUME NEW t \in BOOLEAN, NEW stop \in BOOLEAN, FinishBatch(t, stop)
      PROVE  TypeOK'
  BY <1>3 DEF FinishBatch
<1>4. ASSUME NEW hook \in BOOLEAN, StopAfterTurn(hook) PROVE TypeOK'
  BY <1>4 DEF StopAfterTurn
<1>5. CASE EmitAgentEnd
  BY <1>5 DEF EmitAgentEnd
<1>6. CASE HandleRunFailure
  <2>1. \A stop \in StopReasons : AssistantEntry(stop, 0) \in Entries
    BY DEF AssistantEntry, Entries, AgentAssumption
  <2> QED
    BY <1>6, <2>1, AppendEntry DEF HandleRunFailure, StopReasons
<1>7. CASE FinishRun
  BY <1>7 DEF FinishRun, Settled
<1>8. CASE Reject
  BY <1>8 DEF Reject
<1> QED
  BY <1>1, <1>2, <1>3, <1>4, <1>5, <1>6, <1>7, <1>8, TypePolls, TypeInjections
  DEF Loop

\* The variables of the agent always have the types the code gives them.
THEOREM TypeCorrect == AgentAssumption => (Spec => []TypeOK)
<1> SUFFICES ASSUME AgentAssumption PROVE Spec => []TypeOK
  OBVIOUS
<1>1. Init => TypeOK
  BY TypeInit
<1>2. TypeOK /\ [Next]_vars => TypeOK'
  <2>1. TypeOK /\ UNCHANGED vars => TypeOK'
    BY DEF TypeOK, vars, queueVars, batchVars, turnVars, runVars
  <2> QED
    BY <2>1, TypeCallers, TypeStart, TypeTurn DEF Next
<1> QED
  BY <1>1, <1>2, PTL DEF Spec
-----------------------------------------------------------------------------
(* A message is delivered at most once *)

\* A step that only moves messages out of the queues, and leaves the transcript
\* and what is pending alone, keeps every message in its place.
LEMMA PlacementShrink ==
  ASSUME TypeOK, Placement,
         steeringQueue' \subseteq steeringQueue,
         followUpQueue' \subseteq followUpQueue,
         pendingMessages' \subseteq pendingMessages,
         messages' = messages, via' = via
  PROVE  Placement'
BY DEF Placement

\* An entry that is not a user message changes no place.
LEMMA PlacementAppend ==
  ASSUME TypeOK, Placement,
         NEW e \in Entries, e.role # "user", messages' = Append(messages, e),
         UNCHANGED <<steeringQueue, followUpQueue, pendingMessages, via>>
  PROVE  Placement'
<1>1. /\ Len(messages') = Len(messages) + 1
      /\ \A i \in 1..Len(messages) : messages'[i] = messages[i]
      /\ messages'[Len(messages) + 1] = e
  BY AppendEntry DEF TypeOK
<1>2. Len(messages) \in Nat
  BY DEF TypeOK
<1>3. \A i \in 1..Len(messages') : messages'[i].role = "user" =>
        i \in 1..Len(messages)
  BY <1>1, <1>2
<1> QED
  BY <1>1, <1>2, <1>3 DEF Placement

\* What is taken from a queue becomes pending and leaves the queue.
LEMMA PlacementTake ==
  ASSUME TypeOK, Placement,
         NEW taken, messages' = messages, via' = via, pendingMessages' = taken,
         \/ /\ taken \subseteq steeringQueue
            /\ steeringQueue' = steeringQueue \ taken
            /\ followUpQueue' = followUpQueue
         \/ /\ taken \subseteq followUpQueue
            /\ followUpQueue' = followUpQueue \ taken
            /\ steeringQueue' = steeringQueue
  PROVE  Placement'
<1>1. \A m \in steeringQueue : m \notin followUpQueue
  BY DEF Placement
<1>2. \A m \in taken : via[m] # "none"
  BY DEF Placement
<1> QED
  BY <1>1, <1>2 DEF Placement

\* The oldest pending message enters the transcript and is pending no more.
LEMMA PlacementInject ==
  ASSUME TypeOK, Placement, InjectOne,
         UNCHANGED <<steeringQueue, followUpQueue, via>>
  PROVE  Placement'
<1>1. PICK m \in pendingMessages :
        /\ messages' = Append(messages, UserEntry(m))
        /\ pendingMessages' = pendingMessages \ {m}
  BY DEF InjectOne, Oldest
<1>2. UserEntry(m) \in Entries /\ UserEntry(m).role = "user"
      /\ UserEntry(m).msg = m
  BY <1>1 DEF UserEntry, Entries, TypeOK
<1>3. /\ Len(messages') = Len(messages) + 1
      /\ \A i \in 1..Len(messages) : messages'[i] = messages[i]
      /\ messages'[Len(messages) + 1] = UserEntry(m)
  BY <1>1, <1>2, AppendEntry DEF TypeOK
<1>4. Len(messages) \in Nat
  BY DEF TypeOK
<1>5. \A i \in 1..Len(messages) :
        messages[i].role = "user" => messages[i].msg # m
  BY <1>1 DEF Placement
<1>6. \A i, j \in 1..Len(messages') :
        messages'[i].role = "user" /\ messages'[i] = messages'[j] => i = j
  <2> SUFFICES ASSUME NEW i \in 1..Len(messages'), NEW j \in 1..Len(messages'),
                      messages'[i].role = "user", messages'[i] = messages'[j]
               PROVE  i = j
    OBVIOUS
  <2>1. CASE i \in 1..Len(messages) /\ j \in 1..Len(messages)
    BY <1>3, <2>1 DEF Placement
  <2>2. CASE i = Len(messages) + 1 \/ j = Len(messages) + 1
    BY <1>2, <1>3, <1>4, <1>5, <2>2
  <2> QED
    BY <1>3, <1>4, <2>1, <2>2
<1>7. \A i \in 1..Len(messages') : messages'[i].role = "user" =>
        /\ via'[messages'[i].msg] # "none"
        /\ messages'[i].msg \notin
             steeringQueue' \cup followUpQueue' \cup pendingMessages'
  <2> SUFFICES ASSUME NEW i \in 1..Len(messages'), messages'[i].role = "user"
               PROVE  /\ via'[messages'[i].msg] # "none"
                      /\ messages'[i].msg \notin steeringQueue'
                            \cup followUpQueue' \cup pendingMessages'
    OBVIOUS
  <2>1. CASE i \in 1..Len(messages)
    BY <1>1, <1>3, <2>1 DEF Placement
  <2>2. CASE i = Len(messages) + 1
    BY <1>1, <1>2, <1>3, <2>2 DEF Placement
  <2> QED
    BY <1>3, <1>4, <2>1, <2>2
<1> QED
  BY <1>1, <1>6, <1>7 DEF Placement

\* A message handed in now was nowhere before.
LEMMA PlacementHandIn ==
  ASSUME TypeOK, Placement, NEW m \in Messages, NEW how \in Vias \ {"none"},
         HandIn(m, how)
  PROVE  /\ \A n \in Messages : n # m => via'[n] = via[n]
         /\ via'[m] = how
         /\ m \notin steeringQueue \cup followUpQueue \cup pendingMessages
         /\ \A i \in 1..Len(messages) :
              messages[i].role = "user" =>
                messages[i].msg \in Messages /\ messages[i].msg # m
<1>1. \A i \in 1..Len(messages) :
        messages[i].role = "user" => messages[i].msg \in Messages
  BY DEF TypeOK, Entries
<1> QED
  BY <1>1 DEF HandIn, Placement, TypeOK

\* Handing a message to a queue or to a run keeps every other one in its place.
LEMMA PlacementCallers == TypeOK /\ Placement /\ Callers => Placement'
<1> SUFFICES ASSUME TypeOK, Placement, Callers PROVE Placement'
  OBVIOUS
<1>1. ASSUME NEW m \in Messages, Steer(m) PROVE Placement'
  <2>1. HandIn(m, "steer")
    BY <1>1 DEF Steer
  <2>2. /\ steeringQueue' = steeringQueue \cup {m}
        /\ UNCHANGED <<followUpQueue, pendingMessages, messages>>
    BY <1>1 DEF Steer
  <2> QED
    BY <2>1, <2>2, PlacementHandIn DEF Placement, Vias, TypeOK
<1>2. ASSUME NEW m \in Messages, FollowUp(m) PROVE Placement'
  <2>1. HandIn(m, "followUp")
    BY <1>2 DEF FollowUp
  <2>2. /\ followUpQueue' = followUpQueue \cup {m}
        /\ UNCHANGED <<steeringQueue, pendingMessages, messages>>
    BY <1>2 DEF FollowUp
  <2> QED
    BY <2>1, <2>2, PlacementHandIn DEF Placement, Vias, TypeOK
<1>3. CASE ClearAllQueues
  BY <1>3, PlacementShrink DEF ClearAllQueues
<1>4. CASE ToggleHold
  BY <1>4, PlacementShrink DEF ToggleHold
<1>5. CASE Abort
  BY <1>5, PlacementShrink DEF Abort, queueVars
<1>6. CASE Reset
  BY <1>6 DEF Reset, Placement
<1> QED
  BY <1>1, <1>2, <1>3, <1>4, <1>5, <1>6 DEF Callers

LEMMA PlacementStart == TypeOK /\ Placement /\ Start => Placement'
<1> SUFFICES ASSUME TypeOK, Placement, Start PROVE Placement'
  OBVIOUS
<1>1. ASSUME NEW m \in Messages, Prompt(m) PROVE Placement'
  <2>1. HandIn(m, "prompt")
    BY <1>1 DEF Prompt
  <2>2. /\ pendingMessages' = {m}
        /\ UNCHANGED <<steeringQueue, followUpQueue, messages>>
    BY <1>1 DEF Prompt, StartRun
  <2> QED
    BY <2>1, <2>2, PlacementHandIn DEF Placement, Vias, TypeOK
<1>2. ASSUME NEW d \in BOOLEAN, ContinueWithSteering(d) PROVE Placement'
  <2>1. PICK input \in Drain(steeringQueue, SteeringMode) :
          /\ steeringQueue' = steeringQueue \ input
          /\ pendingMessages' = input /\ messages' = messages
          /\ UNCHANGED <<followUpQueue, via>>
    BY <1>2 DEF ContinueWithSteering, StartRun
  <2>2. input \subseteq steeringQueue
    BY <2>1, DrainTakes DEF TypeOK
  <2> QED
    BY <2>1, <2>2, PlacementTake
<1>3. ASSUME NEW d \in BOOLEAN, ContinueWithFollowUp(d) PROVE Placement'
  <2>1. PICK input \in Drain(followUpQueue, FollowUpMode) :
          /\ followUpQueue' = followUpQueue \ input
          /\ pendingMessages' = input /\ messages' = messages
          /\ UNCHANGED <<steeringQueue, via>>
    BY <1>3 DEF ContinueWithFollowUp, StartRun
  <2>2. input \subseteq followUpQueue
    BY <2>1, DrainTakes DEF TypeOK
  <2> QED
    BY <2>1, <2>2, PlacementTake
<1>4. ASSUME NEW d \in BOOLEAN, ContinueFromTranscript(d) PROVE Placement'
  BY <1>4, PlacementShrink DEF ContinueFromTranscript, StartRun, queueVars
<1> QED
  BY <1>1, <1>2, <1>3, <1>4 DEF Start

LEMMA PlacementLoop ==
  AgentAssumption /\ TypeOK /\ Placement /\ (Loop \/ Reject) => Placement'
<1> SUFFICES ASSUME AgentAssumption, TypeOK, Placement, Loop \/ Reject
             PROVE  Placement'
  OBVIOUS
<1>1. ASSUME TakeSteering, UNCHANGED <<followUpQueue, via, messages>>
      PROVE  Placement'
  BY <1>1, DrainTakes, PlacementTake DEF TakeSteering, TypeOK
<1>2. CASE InjectPrompt
  BY <1>2, PlacementInject, PlacementShrink DEF InjectPrompt, queueVars
<1>3. CASE InitialPoll
  BY <1>1, <1>3, PlacementShrink DEF InitialPoll
<1>4. CASE PrepareNextTurn
  BY <1>1, <1>4, PlacementShrink DEF PrepareNextTurn
<1>5. CASE InjectPending
  BY <1>5, PlacementInject, PlacementShrink DEF InjectPending, queueVars
<1>6. CASE BeforeModelRequest
  BY <1>1, <1>6, PlacementShrink DEF BeforeModelRequest
<1>7. CASE InjectLate
  BY <1>7, PlacementInject, PlacementShrink DEF InjectLate, queueVars
<1>8. ASSUME NEW stop \in StopReasons, NEW n \in 0..MaxCalls,
             StreamAssistantResponse(stop, n)
      PROVE  Placement'
  <2>1. /\ AssistantEntry(stop, n) \in Entries
        /\ AssistantEntry(stop, n).role # "user"
    BY DEF AssistantEntry, Entries
  <2> QED
    BY <1>8, <2>1, PlacementAppend DEF StreamAssistantResponse, queueVars
<1>9. CASE EmitToolResult
  <2>1. /\ ResultEntry(answered + 1) \in Entries
        /\ ResultEntry(answered + 1).role # "user"
    BY <1>9 DEF EmitToolResult, CallsRemain, ResultEntry, Entries, TypeOK,
               AgentAssumption
  <2> QED
    BY <1>9, <2>1, PlacementAppend DEF EmitToolResult, queueVars
<1>10. ASSUME NEW t \in BOOLEAN, NEW stop \in BOOLEAN, FinishBatch(t, stop)
       PROVE  Placement'
  BY <1>10, PlacementShrink DEF FinishBatch, queueVars
<1>11. ASSUME NEW hook \in BOOLEAN, StopAfterTurn(hook) PROVE Placement'
  BY <1>11, PlacementShrink DEF StopAfterTurn, queueVars
<1>12. CASE PollAfterTurn
  BY <1>1, <1>12 DEF PollAfterTurn
<1>13. CASE PollFollowUps
  BY <1>13, DrainTakes, PlacementTake DEF PollFollowUps, TakeFollowUps, TypeOK
<1>14. CASE EmitAgentEnd
  BY <1>14, PlacementShrink DEF EmitAgentEnd, queueVars
<1>15. CASE HandleRunFailure
  <2>1. \A stop \in StopReasons :
          /\ AssistantEntry(stop, 0) \in Entries
          /\ AssistantEntry(stop, 0).role # "user"
    BY DEF AssistantEntry, Entries, AgentAssumption
  <2> QED
    BY <1>15, <2>1, PlacementAppend DEF HandleRunFailure, StopReasons, queueVars
<1>16. CASE FinishRun
  BY <1>16, PlacementShrink DEF FinishRun, queueVars
<1>17. CASE Reject
  BY <1>17, PlacementShrink DEF Reject, queueVars
<1> QED
  BY <1>2, <1>3, <1>4, <1>5, <1>6, <1>7, <1>8, <1>9, <1>10, <1>11, <1>12,
     <1>13, <1>14, <1>15, <1>16, <1>17 DEF Loop

\* What waits in a queue or was taken from it has never been in the transcript.
LEMMA PlacementInvariant == AgentAssumption => (Spec => []Placement)
<1> SUFFICES ASSUME AgentAssumption PROVE Spec => []Placement
  OBVIOUS
<1>1. Init => Placement
  BY DEF Init, Placement
<1>2. TypeOK /\ Placement /\ [Next]_vars => Placement'
  <2>1. TypeOK /\ Placement /\ UNCHANGED vars => Placement'
    BY DEF Placement, vars, queueVars
  <2> QED
    BY <2>1, PlacementCallers, PlacementStart, PlacementLoop DEF Next
<1> QED
  BY <1>1, <1>2, TypeCorrect, PTL DEF Spec

\* However runs, queues, clears, aborts and rejections interleave, a message is
\* in the transcript at most once, and never also waiting to be delivered.
THEOREM DeliveredAtMostOnce == AgentAssumption => (Spec => []DeliveredOnce)
<1> SUFFICES ASSUME AgentAssumption PROVE Spec => []DeliveredOnce
  OBVIOUS
<1>1. TypeOK /\ Placement => DeliveredOnce
  BY DEF Placement, DeliveredOnce, InTranscript, UserEntry
<1> QED
  BY <1>1, TypeCorrect, PlacementInvariant, PTL
-----------------------------------------------------------------------------
(* No message is lost                                                      *)

\* Only around its injections does the loop hold messages it has taken.
PendingAt ==
  pc \notin {"prompt", "prepare", "inject", "lateInject"} => pendingMessages = {}

InQueue(m) == m \in steeringQueue \cup followUpQueue

\* What was dropped is nowhere else.
DroppedGone ==
  \A m \in dropped :
    via[m] # "none" /\ ~InQueue(m) /\ m \notin pendingMessages /\ ~InTranscript(m)

Somewhere(m) ==
  InQueue(m) \/ m \in pendingMessages \/ m \in dropped \/ InTranscript(m)

Kept ==
  /\ PendingAt /\ DroppedGone
  /\ faults = 0 => \A m \in Sent : Somewhere(m)

\* The transcript has a new entry: whose it is, that message is in it now.
LEMMA InTranscriptAppend ==
  ASSUME TypeOK, NEW e \in Entries, messages' = Append(messages, e), NEW m
  PROVE  InTranscript(m)' <=> InTranscript(m) \/ e = UserEntry(m)
<1>1. /\ Len(messages) \in Nat /\ Len(messages') = Len(messages) + 1
      /\ \A i \in 1..Len(messages) : messages'[i] = messages[i]
      /\ messages'[Len(messages) + 1] = e
  BY AppendEntry DEF TypeOK
<1> QED
  BY <1>1 DEF InTranscript

\* Placement, with the transcript seen as a set of messages.
LEMMA PlacementTranscript ==
  ASSUME TypeOK, Placement, NEW m \in Messages, InTranscript(m)
  PROVE  via[m] # "none" /\ ~InQueue(m) /\ m \notin pendingMessages
BY DEF Placement, InTranscript, InQueue, UserEntry

\* Messages may leave the queues for dropped, as long as none goes elsewhere.
LEMMA KeptDrop ==
  ASSUME TypeOK, Kept, faults' \in Nat, faults' = 0 => faults = 0,
         messages' = messages, via' = via,
         pendingMessages' = pendingMessages, PendingAt',
         steeringQueue' \subseteq steeringQueue, followUpQueue' \subseteq followUpQueue,
         \/ dropped' = dropped /\ UNCHANGED <<steeringQueue, followUpQueue>>
         \/ /\ dropped' = dropped \cup steeringQueue \cup followUpQueue
            /\ steeringQueue' = {} /\ followUpQueue' = {}
            /\ Placement
  PROVE  Kept'
<1>1. \A m : InTranscript(m)' <=> InTranscript(m)
  BY DEF InTranscript
<1>2. DroppedGone'
  BY <1>1, PlacementTranscript DEF Kept, DroppedGone, InQueue, Placement, TypeOK
<1>3. faults' = 0 => \A m \in Sent' : Somewhere(m)'
  BY <1>1 DEF Kept, Sent, Somewhere, InQueue
<1> QED
  BY <1>2, <1>3 DEF Kept

\* What is taken from a queue is pending now.
LEMMA KeptTake ==
  ASSUME TypeOK, Kept, Placement, pendingMessages = {},
         NEW taken, pendingMessages' = taken, PendingAt',
         UNCHANGED <<messages, via, dropped, faults>>,
         \/ /\ taken \subseteq steeringQueue
            /\ steeringQueue' = steeringQueue \ taken
            /\ followUpQueue' = followUpQueue
         \/ /\ taken \subseteq followUpQueue
            /\ followUpQueue' = followUpQueue \ taken
            /\ steeringQueue' = steeringQueue
  PROVE  Kept'
<1>1. \A m : InTranscript(m)' <=> InTranscript(m)
  BY DEF InTranscript
<1>2. DroppedGone'
  BY <1>1 DEF Kept, DroppedGone, InQueue
<1>3. faults' = 0 => \A m \in Sent' : Somewhere(m)'
  BY <1>1 DEF Kept, Sent, Somewhere, InQueue
<1> QED
  BY <1>2, <1>3 DEF Kept

\* A pending message is in the transcript now.
LEMMA KeptInject ==
  ASSUME TypeOK, Kept, Placement, InjectOne, PendingAt',
         UNCHANGED <<steeringQueue, followUpQueue, via, dropped, faults>>
  PROVE  Kept'
<1>1. PICK m \in pendingMessages :
        /\ messages' = Append(messages, UserEntry(m))
        /\ pendingMessages' = pendingMessages \ {m}
  BY DEF InjectOne, Oldest
<1>2. UserEntry(m) \in Entries /\ \A n : UserEntry(n) = UserEntry(m) <=> n = m
  BY <1>1 DEF UserEntry, Entries, TypeOK
<1>3. \A n : InTranscript(n)' <=> InTranscript(n) \/ n = m
  BY <1>1, <1>2, InTranscriptAppend
<1>4. DroppedGone'
  BY <1>1, <1>3 DEF Kept, DroppedGone, InQueue
<1>5. faults' = 0 => \A n \in Sent' : Somewhere(n)'
  BY <1>1, <1>3 DEF Kept, Sent, Somewhere, InQueue
<1> QED
  BY <1>4, <1>5 DEF Kept

\* Entries that are no user message move nobody.
LEMMA KeptAppend ==
  ASSUME TypeOK, Kept, NEW e \in Entries, e.role # "user",
         messages' = Append(messages, e), PendingAt',
         UNCHANGED <<steeringQueue, followUpQueue, via, dropped, faults, pendingMessages>>
  PROVE  Kept'
<1>1. \A n : InTranscript(n)' <=> InTranscript(n)
  BY InTranscriptAppend DEF UserEntry
<1> QED
  BY <1>1 DEF Kept, DroppedGone, InQueue, Sent, Somewhere

\* Whoever is handed in is in its queue, or pending in an agent at rest.
LEMMA KeptHandIn ==
  ASSUME TypeOK, Kept, Placement, NEW m \in Messages, NEW how \in Vias \ {"none"},
         HandIn(m, how), UNCHANGED <<messages, dropped, faults>>, PendingAt',
         \/ steeringQueue' = steeringQueue \cup {m}
            /\ UNCHANGED <<followUpQueue, pendingMessages>>
         \/ followUpQueue' = followUpQueue \cup {m}
            /\ UNCHANGED <<steeringQueue, pendingMessages>>
         \/ pendingMessages = {} /\ pendingMessages' = {m}
            /\ UNCHANGED <<steeringQueue, followUpQueue>>
  PROVE  Kept'
<1>1. via[m] = "none" /\ via' = [via EXCEPT ![m] = how]
  BY DEF HandIn
<1>2. \A n : InTranscript(n)' <=> InTranscript(n)
  BY DEF InTranscript
<1>3. m \notin dropped
  BY <1>1 DEF Kept, DroppedGone
<1>4. DroppedGone'
  BY <1>1, <1>2, <1>3 DEF Kept, DroppedGone, InQueue, TypeOK
<1>5. faults' = 0 => \A n \in Sent' : Somewhere(n)'
  BY <1>1, <1>2 DEF Kept, Sent, Somewhere, InQueue, TypeOK
<1> QED
  BY <1>4, <1>5 DEF Kept

LEMMA KeptCallers == TypeOK /\ Placement /\ Kept /\ Callers => Kept'
<1> SUFFICES ASSUME TypeOK, Placement, Kept, Callers PROVE Kept'
  OBVIOUS
<1>1. ASSUME NEW m \in Messages, Steer(m) PROVE Kept'
  BY <1>1, KeptHandIn DEF Steer, Kept, PendingAt, Vias
<1>2. ASSUME NEW m \in Messages, FollowUp(m) PROVE Kept'
  BY <1>2, KeptHandIn DEF FollowUp, Kept, PendingAt, Vias
<1>3. CASE ClearAllQueues
  BY <1>3, KeptDrop DEF ClearAllQueues, Kept, PendingAt, TypeOK
<1>4. CASE ToggleHold
  BY <1>4, KeptDrop DEF ToggleHold, Kept, PendingAt, TypeOK
<1>5. CASE Abort
  BY <1>5, KeptDrop DEF Abort, Kept, PendingAt, TypeOK, queueVars
<1>6. CASE Reset
  <2>1. PendingAt' /\ pendingMessages = {}
    BY <1>6 DEF Reset, Kept, PendingAt, TypeOK
  <2>2. \A m : ~InTranscript(m)'
    BY <1>6 DEF Reset, InTranscript
  <2>3. DroppedGone'
    BY <1>6, <2>1, <2>2, PlacementTranscript
    DEF Reset, Kept, DroppedGone, InQueue, Placement, InTranscript, TypeOK
  <2>4. faults' = 0 => \A n \in Sent' : Somewhere(n)'
    BY <1>6, <2>1 DEF Reset, Kept, Sent, Somewhere, InQueue, InTranscript
  <2> QED
    BY <2>1, <2>3, <2>4 DEF Kept
<1> QED
  BY <1>1, <1>2, <1>3, <1>4, <1>5, <1>6 DEF Callers

LEMMA KeptStart == TypeOK /\ Placement /\ Kept /\ Start => Kept'
<1> SUFFICES ASSUME TypeOK, Placement, Kept, Start PROVE Kept'
  OBVIOUS
<1>1. ~activeRun /\ pendingMessages = {}
  BY DEF Start, Prompt, ContinueWithSteering, ContinueWithFollowUp,
         ContinueFromTranscript, Kept, PendingAt, TypeOK
<1>2. ASSUME NEW m \in Messages, Prompt(m) PROVE Kept'
  BY <1>1, <1>2, KeptHandIn DEF Prompt, StartRun, PendingAt, Vias
<1>3. ASSUME NEW d \in BOOLEAN, ContinueWithSteering(d) PROVE Kept'
  <2>1. PICK input \in Drain(steeringQueue, SteeringMode) :
          steeringQueue' = steeringQueue \ input /\ StartRun(input, "prompt", TRUE)
    BY <1>3 DEF ContinueWithSteering
  <2>2. input \subseteq steeringQueue
    BY <2>1, DrainTakes DEF TypeOK
  <2> QED
    BY <1>1, <1>3, <2>1, <2>2, KeptTake DEF ContinueWithSteering, StartRun, PendingAt
<1>4. ASSUME NEW d \in BOOLEAN, ContinueWithFollowUp(d) PROVE Kept'
  <2>1. PICK input \in Drain(followUpQueue, FollowUpMode) :
          followUpQueue' = followUpQueue \ input /\ StartRun(input, "prompt", FALSE)
    BY <1>4 DEF ContinueWithFollowUp
  <2>2. input \subseteq followUpQueue
    BY <2>1, DrainTakes DEF TypeOK
  <2> QED
    BY <1>1, <1>4, <2>1, <2>2, KeptTake DEF ContinueWithFollowUp, StartRun, PendingAt
<1>5. ASSUME NEW d \in BOOLEAN, ContinueFromTranscript(d) PROVE Kept'
  BY <1>1, <1>5, KeptDrop
  DEF ContinueFromTranscript, StartRun, PendingAt, queueVars, TypeOK
<1> QED
  BY <1>2, <1>3, <1>4, <1>5 DEF Start

LEMMA KeptLoop ==
  AgentAssumption /\ TypeOK /\ Placement /\ Kept /\ (Loop \/ Reject) => Kept'
<1> SUFFICES ASSUME AgentAssumption, TypeOK, Placement, Kept, Loop \/ Reject
             PROVE  Kept'
  OBVIOUS
<1> USE DEF queueVars
<1>1. ASSUME TakeSteering, pendingMessages = {}, PendingAt',
             UNCHANGED <<followUpQueue, via, messages, dropped, faults>>
      PROVE  Kept'
  BY <1>1, DrainTakes, KeptTake DEF TakeSteering, TypeOK
<1>2. ASSUME PendingAt',
             UNCHANGED <<steeringQueue, followUpQueue, via, messages, dropped, faults,
                         pendingMessages>>
      PROVE  Kept'
  BY <1>2, KeptDrop DEF TypeOK
<1>3. CASE InjectPrompt
  BY <1>2, <1>3, KeptInject DEF InjectPrompt, PendingAt
<1>4. CASE InitialPoll
  BY <1>1, <1>2, <1>4 DEF InitialPoll, Kept, PendingAt
<1>5. CASE PrepareNextTurn
  BY <1>1, <1>2, <1>5 DEF PrepareNextTurn, Kept, PendingAt
<1>6. CASE InjectPending
  BY <1>2, <1>6, KeptInject DEF InjectPending, PendingAt
<1>7. CASE BeforeModelRequest
  BY <1>1, <1>2, <1>7 DEF BeforeModelRequest, Kept, PendingAt
<1>8. CASE InjectLate
  BY <1>2, <1>8, KeptInject DEF InjectLate, PendingAt
<1>9. ASSUME NEW stop \in StopReasons, NEW n \in 0..MaxCalls,
             StreamAssistantResponse(stop, n)
      PROVE  Kept'
  <2>1. /\ AssistantEntry(stop, n) \in Entries
        /\ AssistantEntry(stop, n).role # "user"
    BY DEF AssistantEntry, Entries
  <2>2. pendingMessages' = {}
    BY <1>9 DEF StreamAssistantResponse, Kept, PendingAt
  <2> QED
    BY <1>9, <2>1, <2>2, KeptAppend DEF StreamAssistantResponse, PendingAt
<1>10. CASE EmitToolResult
  <2>1. /\ ResultEntry(answered + 1) \in Entries
        /\ ResultEntry(answered + 1).role # "user"
    BY <1>10 DEF EmitToolResult, CallsRemain, ResultEntry, Entries, TypeOK,
               AgentAssumption
  <2> QED
    BY <1>10, <2>1, KeptAppend DEF EmitToolResult, Kept, PendingAt
<1>11. ASSUME NEW t \in BOOLEAN, NEW stop \in BOOLEAN, FinishBatch(t, stop)
       PROVE  Kept'
  BY <1>2, <1>11 DEF FinishBatch, Kept, PendingAt
<1>12. ASSUME NEW hook \in BOOLEAN, StopAfterTurn(hook) PROVE Kept'
  BY <1>2, <1>12 DEF StopAfterTurn, Kept, PendingAt
<1>13. CASE PollAfterTurn
  BY <1>1, <1>13 DEF PollAfterTurn, Kept, PendingAt
<1>14. CASE PollFollowUps
  <2>1. PICK taken \in Drain(followUpQueue, FollowUpMode) :
          pendingMessages' = taken /\ followUpQueue' = followUpQueue \ taken
    BY <1>14 DEF PollFollowUps, TakeFollowUps
  <2>2. taken \subseteq followUpQueue
    BY <2>1, DrainTakes DEF TypeOK
  <2>3. pendingMessages = {} /\ PendingAt'
    BY <1>14 DEF PollFollowUps, Kept, PendingAt
  <2> QED
    BY <1>14, <2>1, <2>2, <2>3, KeptTake DEF PollFollowUps
<1>15. CASE EmitAgentEnd
  BY <1>2, <1>15 DEF EmitAgentEnd, Kept, PendingAt
<1>16. CASE HandleRunFailure
  <2>1. \A stop \in StopReasons :
          /\ AssistantEntry(stop, 0) \in Entries
          /\ AssistantEntry(stop, 0).role # "user"
    BY DEF AssistantEntry, Entries, AgentAssumption
  <2> QED
    BY <1>16, <2>1, KeptAppend DEF HandleRunFailure, StopReasons, Kept, PendingAt
<1>17. CASE FinishRun
  BY <1>2, <1>17 DEF FinishRun, Settled, Kept, PendingAt
<1>18. CASE Reject
  <2>1. faults' # 0 /\ pendingMessages' = {} /\ \A m : InTranscript(m)' <=> InTranscript(m)
    BY <1>18 DEF Reject, InTranscript, TypeOK
  <2> QED
    BY <1>18, <2>1 DEF Reject, Kept, PendingAt, DroppedGone, InQueue
<1> QED
  BY <1>3, <1>4, <1>5, <1>6, <1>7, <1>8, <1>9, <1>10, <1>11, <1>12,
     <1>13, <1>14, <1>15, <1>16, <1>17, <1>18 DEF Loop

\* Every message handed in is in one place, and in one only.
LEMMA OnePlace ==
  ASSUME TypeOK, Placement, Kept, faults = 0, NEW m \in Sent
  PROVE  Cardinality(Places(m)) = 1
<1>1. m \in Messages /\ Somewhere(m)
  BY DEF Kept, Sent
<1>2. InTranscript(m) => ~InQueue(m) /\ m \notin pendingMessages /\ m \notin dropped
  BY <1>1, PlacementTranscript DEF Kept, DroppedGone
<1>3. /\ ~(m \in steeringQueue /\ m \in followUpQueue)
      /\ m \in pendingMessages => ~InQueue(m)
      /\ m \in dropped => ~InQueue(m) /\ m \notin pendingMessages
  BY DEF Placement, Kept, DroppedGone, InQueue
<1>4. \E p : Places(m) = {p}
  <2>1. CASE m \in steeringQueue
    <3>1. Places(m) = {"steering"}
      BY <1>2, <1>3, <2>1 DEF Places, InQueue
    <3> QED
      BY <3>1
  <2>2. CASE m \in followUpQueue
    <3>1. Places(m) = {"followUp"}
      BY <1>2, <1>3, <2>2 DEF Places, InQueue
    <3> QED
      BY <3>1
  <2>3. CASE m \in pendingMessages
    <3>1. Places(m) = {"pending"}
      BY <1>2, <1>3, <2>3 DEF Places, InQueue
    <3> QED
      BY <3>1
  <2>4. CASE InTranscript(m)
    <3>1. Places(m) = {"transcript"}
      BY <1>2, <2>4 DEF Places, InQueue
    <3> QED
      BY <3>1
  <2>5. CASE m \in dropped
    <3>1. Places(m) = {"dropped"}
      BY <1>2, <1>3, <2>5 DEF Places, InQueue
    <3> QED
      BY <3>1
  <2> QED
    BY <1>1, <2>1, <2>2, <2>3, <2>4, <2>5 DEF Somewhere, InQueue
<1> QED
  BY <1>4, FS_Singleton

\* The invariants every later proof about the agent starts from.
THEOREM MessagesKept == AgentAssumption => (Spec => [](TypeOK /\ Placement /\ Kept))
<1> SUFFICES ASSUME AgentAssumption PROVE Spec => [](TypeOK /\ Placement /\ Kept)
  OBVIOUS
<1>1. Init => Kept
  BY DEF Init, Kept, PendingAt, DroppedGone, Sent, InTranscript
<1>2. TypeOK /\ Placement /\ Kept /\ [Next]_vars => Kept'
  <2>1. TypeOK /\ Kept /\ UNCHANGED vars => Kept'
    BY DEF Kept, PendingAt, DroppedGone, InQueue, InTranscript, Sent, Somewhere,
           vars, queueVars
  <2> QED
    BY <2>1, KeptCallers, KeptStart, KeptLoop DEF Next
<1> QED
  BY <1>1, <1>2, TypeCorrect, PlacementInvariant, PTL DEF Spec

\* However polls, injections, clears, aborts and runs interleave: as long as nothing
\* has rejected, each message handed in is in exactly one place.
THEOREM NothingLostHolds == AgentAssumption => (Spec => []NothingLost)
<1> SUFFICES ASSUME AgentAssumption PROVE Spec => []NothingLost
  OBVIOUS
<1>1. TypeOK /\ Placement /\ Kept => NothingLost
  BY OnePlace DEF NothingLost
<1> QED
  BY <1>1, MessagesKept, PTL

\* A tool that ended the turn ends the run before a queue is looked at.
THEOREM BarrierEndsRunHolds == AgentAssumption => (Spec => BarrierEndsRun)
<1> SUFFICES ASSUME AgentAssumption PROVE Spec => BarrierEndsRun
  OBVIOUS
<1>1. ASSUME TypeOK, Kept, [Next]_vars, stopTurn, pc = "turnEnd"
      PROVE  pc' \in {"turnEnd", "agentEnd", "failed"} /\ pendingMessages' = {}
  <2>1. activeRun /\ pendingMessages = {}
    BY <1>1 DEF TypeOK, Kept, PendingAt
  <2>2. CASE Callers
    BY <1>1, <2>1, <2>2
    DEF Callers, Steer, FollowUp, ClearAllQueues, ToggleHold, Abort, Reset
  <2>3. ~Start
    BY <2>1 DEF Start, Prompt, ContinueWithSteering, ContinueWithFollowUp,
                ContinueFromTranscript
  <2>4. CASE Loop
    <3>1. \E hook \in BOOLEAN : StopAfterTurn(hook)
      BY <1>1, <2>4
      DEF Loop, InjectPrompt, InitialPoll, PrepareNextTurn, InjectPending,
          BeforeModelRequest, InjectLate, StreamAssistantResponse, EmitToolResult,
          FinishBatch, PollAfterTurn, Barrier, PollFollowUps, EmitAgentEnd,
          HandleRunFailure, FinishRun, Settled
    <3> QED
      BY <2>1, <3>1 DEF StopAfterTurn
  <2>5. CASE Reject
    BY <1>1, <2>5 DEF Reject
  <2>6. CASE UNCHANGED vars
    BY <1>1, <2>1, <2>6 DEF vars
  <2> QED
    BY <1>1, <2>2, <2>3, <2>4, <2>5, <2>6 DEF Next
<1>2. TypeOK /\ Kept /\ [Next]_vars =>
        [stopTurn /\ pc = "turnEnd" =>
           pc' \in {"turnEnd", "agentEnd", "failed"} /\ pendingMessages' = {}]_vars
  BY <1>1
<1> QED
  BY <1>2, MessagesKept, PTL DEF BarrierEndsRun, Spec
-----------------------------------------------------------------------------
(* A queue is first in, first out                                          *)

\* The next arrival is later than every one so far.
ArrivalBound == \A m \in Sent : arrival[m] =< Cardinality(Sent)

OrderInv == ArrivalBound /\ OldestFirst

\* Steps that hand nothing in, take nothing and inject nothing keep the order.
LEMMA OrderShrink ==
  ASSUME TypeOK, OrderInv, UNCHANGED <<via, arrival>>,
         steeringQueue' \subseteq steeringQueue, followUpQueue' \subseteq followUpQueue,
         pendingMessages' \subseteq pendingMessages,
         \A m \in Messages : InTranscript(m)' => InTranscript(m)
  PROVE  OrderInv'
BY DEF OrderInv, ArrivalBound, OldestFirst, Before, Sent, TypeOK

LEMMA OrderAppend ==
  ASSUME TypeOK, OrderInv, NEW e \in Entries, e.role # "user",
         messages' = Append(messages, e),
         UNCHANGED <<steeringQueue, followUpQueue, via, arrival, pendingMessages>>
  PROVE  OrderInv'
<1>1. \A m : InTranscript(m)' => InTranscript(m)
  BY InTranscriptAppend DEF UserEntry
<1> QED
  BY <1>1, OrderShrink

\* A message handed in is newer than all of its kind.
LEMMA OrderHandIn ==
  ASSUME AgentAssumption, TypeOK, Placement, OrderInv, NEW m \in Messages,
         NEW how \in Vias \ {"none"}, HandIn(m, how), messages' = messages,
         \/ /\ how # "prompt" /\ pendingMessages' = pendingMessages
            /\ steeringQueue' \subseteq steeringQueue \cup {m}
            /\ followUpQueue' \subseteq followUpQueue \cup {m}
         \/ /\ how = "prompt" /\ pendingMessages' = {m}
            /\ UNCHANGED <<steeringQueue, followUpQueue>>
  PROVE  OrderInv'
<1> DEFINE n == Cardinality(Sent)
<1>1. /\ via[m] = "none" /\ m \notin Sent /\ Sent' = Sent \cup {m}
      /\ via'[m] = how /\ arrival'[m] = n + 1
      /\ \A x \in Messages \ {m} : via'[x] = via[x] /\ arrival'[x] = arrival[x]
  BY DEF HandIn, Sent, TypeOK
<1>2. n \in Nat /\ Cardinality(Sent') = n + 1
  <2>1. IsFiniteSet(Sent)
    BY FS_Subset DEF AgentAssumption, Sent
  <2> QED
    BY <1>1, <2>1, FS_AddElement, FS_CardinalityType
<1>3. ArrivalBound'
  BY <1>1, <1>2 DEF OrderInv, ArrivalBound, TypeOK, Sent
<1>4. /\ ~InQueue(m) /\ m \notin pendingMessages /\ ~InTranscript(m)
      /\ \A x : InTranscript(x)' <=> InTranscript(x)
  BY <1>1, PlacementTranscript DEF Placement, InQueue, InTranscript
<1>5. ASSUME NEW x \in Messages, NEW y \in Messages, Before(x, y)'
      PROVE  x # m /\ (y # m => Before(x, y)) /\ (y = m => how # "prompt")
  <2>1. x # m \/ y # m
    BY <1>5, <1>2, <1>1 DEF Before
  <2>2. y \in Messages \ {m} => via[y] = "none" \/ arrival[y] =< n
    BY DEF OrderInv, ArrivalBound, Sent
  <2>3. x # m
    BY <1>1, <1>2, <1>5, <2>1, <2>2 DEF Before, TypeOK
  <2> QED
    BY <1>1, <1>5, <2>3 DEF Before
<1>6. OldestFirst'
  BY <1>1, <1>4, <1>5 DEF OrderInv, OldestFirst, InQueue
<1> QED
  BY <1>3, <1>6 DEF OrderInv

\* A drain takes no message while an older one of its kind stays behind.
LEMMA DrainOldest ==
  ASSUME TypeOK, NEW queue \in SUBSET Messages, NEW mode \in Modes,
         NEW taken \in Drain(queue, mode), NEW x \in queue, NEW y \in taken, Before(x, y)
  PROVE  x \in taken
<1>1. y \in Deliverable(queue) /\ x \in Deliverable(queue)
  BY DEF Drain, Deliverable, Oldest, Before
<1>2. CASE taken = Deliverable(queue)
  BY <1>1, <1>2
<1>3. CASE taken \in {{m} : m \in Oldest(Deliverable(queue))}
  <2>1. arrival[y] <= arrival[x]
    BY <1>1, <1>3 DEF Oldest
  <2>2. arrival[x] \in Nat /\ arrival[y] \in Nat /\ arrival[x] < arrival[y]
    BY <1>1 DEF TypeOK, Deliverable, Before
  <2> QED
    BY <2>1, <2>2
<1> QED
  BY <1>2, <1>3 DEF Drain

LEMMA OrderTake ==
  ASSUME AgentAssumption, TypeOK, Placement, OrderInv,
         UNCHANGED <<messages, via, arrival>>,
         NEW taken, pendingMessages' = taken,
         \/ /\ taken \in Drain(steeringQueue, SteeringMode)
            /\ steeringQueue' = steeringQueue \ taken
            /\ followUpQueue' = followUpQueue
         \/ /\ taken \in Drain(followUpQueue, FollowUpMode)
            /\ followUpQueue' = followUpQueue \ taken
            /\ steeringQueue' = steeringQueue
  PROVE  OrderInv'
<1>1. \A m : InTranscript(m)' <=> InTranscript(m)
  BY DEF InTranscript
<1>2. \A x, y \in Messages : Before(x, y)' <=> Before(x, y)
  BY DEF Before
<1>3. ASSUME NEW x \in Messages, NEW y \in Messages, Before(x, y)
      PROVE  /\ InQueue(x)' => y \notin taken /\ ~InTranscript(y)
             /\ x \in taken => ~InTranscript(y)
  <2>1. /\ InQueue(x) => ~InTranscript(y)
        /\ InQueue(x)' => InQueue(x)
    BY <1>3 DEF OrderInv, OldestFirst, InQueue
  <2>2. taken \subseteq steeringQueue \/ taken \subseteq followUpQueue
    BY DrainTakes DEF TypeOK
  <2>3. ASSUME InQueue(x)', y \in taken
        PROVE  FALSE
    <3>1. CASE taken \in Drain(steeringQueue, SteeringMode)
      <4>1. y \in steeringQueue
        BY <2>3, <3>1, DrainTakes DEF TypeOK
      <4>2. x \in steeringQueue
        BY <1>3, <2>1, <2>3, <4>1 DEF Placement, Before, InQueue
      <4>3. x \in taken
        BY <1>3, <2>3, <3>1, <4>2, DrainOldest DEF TypeOK, AgentAssumption
      <4> QED
        BY <2>3, <4>2, <4>3, <3>1, DrainTakes DEF Placement, InQueue, TypeOK
    <3>2. CASE taken \in Drain(followUpQueue, FollowUpMode)
      <4>1. y \in followUpQueue
        BY <2>3, <3>2, DrainTakes DEF TypeOK
      <4>2. x \in followUpQueue
        BY <1>3, <2>1, <2>3, <4>1 DEF Placement, Before, InQueue
      <4>3. x \in taken
        BY <1>3, <2>3, <3>2, <4>2, DrainOldest DEF TypeOK, AgentAssumption
      <4> QED
        BY <2>3, <4>2, <4>3, <3>2, DrainTakes DEF Placement, InQueue, TypeOK
    <3> QED
      BY <3>1, <3>2
  <2> QED
    BY <2>1, <2>2, <2>3 DEF InQueue
<1> QED
  BY <1>1, <1>2, <1>3 DEF OrderInv, ArrivalBound, OldestFirst, Sent, InQueue

\* The loop injects what it took in the order of arrival.
LEMMA OrderInject ==
  ASSUME TypeOK, OrderInv, InjectOne,
         UNCHANGED <<steeringQueue, followUpQueue, via, arrival>>
  PROVE  OrderInv'
<1>1. PICK m \in Oldest(pendingMessages) :
        /\ messages' = Append(messages, UserEntry(m))
        /\ pendingMessages' = pendingMessages \ {m}
  BY DEF InjectOne
<1>2. /\ m \in pendingMessages /\ UserEntry(m) \in Entries
      /\ \A n : UserEntry(n) = UserEntry(m) <=> n = m
  BY <1>1 DEF UserEntry, Entries, TypeOK, Oldest
<1>3. \A n : InTranscript(n)' <=> InTranscript(n) \/ n = m
  BY <1>1, <1>2, InTranscriptAppend
<1>4. \A x \in pendingMessages : ~Before(x, m)
  BY <1>1, <1>2 DEF Oldest, Before, TypeOK
<1>5. \A x, y \in Messages : Before(x, y)' <=> Before(x, y)
  BY DEF Before
<1> QED
  BY <1>1, <1>2, <1>3, <1>4, <1>5 DEF OrderInv, ArrivalBound, OldestFirst, Sent

LEMMA OrderCallers ==
  AgentAssumption /\ TypeOK /\ Placement /\ OrderInv /\ (Callers \/ Start) => OrderInv'
<1> SUFFICES ASSUME AgentAssumption, TypeOK, Placement, OrderInv, Callers \/ Start
             PROVE  OrderInv'
  OBVIOUS
<1> USE DEF InTranscript, queueVars
<1>1. ASSUME NEW m \in Messages, Steer(m) PROVE OrderInv'
  BY <1>1, OrderHandIn DEF Steer, Vias
<1>2. ASSUME NEW m \in Messages, FollowUp(m) PROVE OrderInv'
  BY <1>2, OrderHandIn DEF FollowUp, Vias
<1>3. ASSUME NEW m \in Messages, Prompt(m) PROVE OrderInv'
  BY <1>3, OrderHandIn DEF Prompt, StartRun, Vias
<1>4. CASE ClearAllQueues
  BY <1>4, OrderShrink DEF ClearAllQueues
<1>5. CASE ToggleHold
  BY <1>5, OrderShrink DEF ToggleHold
<1>6. CASE Abort
  BY <1>6, OrderShrink DEF Abort
<1>7. CASE Reset
  <2>1. \A m : ~InTranscript(m)'
    BY <1>7 DEF Reset
  <2> QED
    BY <1>7, <2>1, OrderShrink DEF Reset
<1>8. ASSUME NEW d \in BOOLEAN, ContinueWithSteering(d) PROVE OrderInv'
  BY <1>8, OrderTake DEF ContinueWithSteering, StartRun
<1>9. ASSUME NEW d \in BOOLEAN, ContinueWithFollowUp(d) PROVE OrderInv'
  BY <1>9, OrderTake DEF ContinueWithFollowUp, StartRun
<1>10. ASSUME NEW d \in BOOLEAN, ContinueFromTranscript(d) PROVE OrderInv'
  BY <1>10, OrderShrink DEF ContinueFromTranscript, StartRun
<1> QED
  BY <1>1, <1>2, <1>3, <1>4, <1>5, <1>6, <1>7, <1>8, <1>9, <1>10 DEF Callers, Start

LEMMA OrderLoop ==
  AgentAssumption /\ TypeOK /\ Placement /\ OrderInv /\ (Loop \/ Reject) => OrderInv'
<1> SUFFICES ASSUME AgentAssumption, TypeOK, Placement, OrderInv, Loop \/ Reject
             PROVE  OrderInv'
  OBVIOUS
<1> USE DEF queueVars
<1>1. ASSUME TakeSteering, UNCHANGED <<followUpQueue, via, arrival, messages>>
      PROVE  OrderInv'
  BY <1>1, OrderTake DEF TakeSteering
<1>2. ASSUME UNCHANGED <<steeringQueue, followUpQueue, via, arrival, messages>>,
             pendingMessages' \subseteq pendingMessages
      PROVE  OrderInv'
  BY <1>2, OrderShrink DEF InTranscript
<1>3. CASE InjectPrompt \/ InjectPending \/ InjectLate
  BY <1>2, <1>3, OrderInject DEF InjectPrompt, InjectPending, InjectLate
<1>4. CASE InitialPoll \/ PrepareNextTurn \/ BeforeModelRequest \/ PollAfterTurn
  BY <1>1, <1>2, <1>4 DEF InitialPoll, PrepareNextTurn, BeforeModelRequest, PollAfterTurn
<1>5. CASE PollFollowUps
  BY <1>5, OrderTake DEF PollFollowUps, TakeFollowUps
<1>6. ASSUME NEW stop \in StopReasons, NEW n \in 0..MaxCalls,
             StreamAssistantResponse(stop, n)
      PROVE  OrderInv'
  <2>1. /\ AssistantEntry(stop, n) \in Entries
        /\ AssistantEntry(stop, n).role # "user"
    BY DEF AssistantEntry, Entries
  <2> QED
    BY <1>6, <2>1, OrderAppend DEF StreamAssistantResponse
<1>7. CASE EmitToolResult
  <2>1. /\ ResultEntry(answered + 1) \in Entries
        /\ ResultEntry(answered + 1).role # "user"
    BY <1>7 DEF EmitToolResult, CallsRemain, ResultEntry, Entries, TypeOK,
               AgentAssumption
  <2> QED
    BY <1>7, <2>1, OrderAppend DEF EmitToolResult
<1>8. CASE HandleRunFailure
  <2>1. \A stop \in StopReasons :
          /\ AssistantEntry(stop, 0) \in Entries
          /\ AssistantEntry(stop, 0).role # "user"
    BY DEF AssistantEntry, Entries, AgentAssumption
  <2> QED
    BY <1>8, <2>1, OrderAppend DEF HandleRunFailure, StopReasons
<1>9. ASSUME NEW t \in BOOLEAN, NEW stop \in BOOLEAN, FinishBatch(t, stop)
      PROVE  OrderInv'
  BY <1>2, <1>9 DEF FinishBatch
<1>10. ASSUME NEW hook \in BOOLEAN, StopAfterTurn(hook) PROVE OrderInv'
  BY <1>2, <1>10 DEF StopAfterTurn
<1>11. CASE EmitAgentEnd \/ FinishRun \/ Reject
  BY <1>2, <1>11 DEF EmitAgentEnd, FinishRun, Reject
<1> QED
  BY <1>3, <1>4, <1>5, <1>6, <1>7, <1>8, <1>9, <1>10, <1>11 DEF Loop

\* However holds, clears, polls and runs interleave, no message of a queue is taken
\* or injected before an older one of its kind.
THEOREM OldestFirstHolds == AgentAssumption => (Spec => []OldestFirst)
<1> SUFFICES ASSUME AgentAssumption PROVE Spec => []OldestFirst
  OBVIOUS
<1>1. Init => OrderInv
  BY DEF Init, OrderInv, ArrivalBound, OldestFirst, Before, Sent
<1>2. TypeOK /\ Placement /\ OrderInv /\ [Next]_vars => OrderInv'
  <2>1. TypeOK /\ OrderInv /\ UNCHANGED vars => OrderInv'
    BY OrderShrink DEF InTranscript, vars, queueVars
  <2> QED
    BY <2>1, OrderCallers, OrderLoop DEF Next
<1>3. OrderInv => OldestFirst
  BY DEF OrderInv
<1> QED
  BY <1>1, <1>2, <1>3, TypeCorrect, PlacementInvariant, PTL DEF Spec
-----------------------------------------------------------------------------
(* One steering message per turn                                           *)

SteeringAt(i) == messages[i].role = "user" /\ via[messages[i].msg] = "steer"

\* The model has not answered the last steering message yet.
Unanswered ==
  \E i \in 1..Len(messages) :
    SteeringAt(i) /\ \A k \in i..Len(messages) : messages[k].role # "assistant"

Separated ==
  \A i, j \in 1..Len(messages) :
    i < j /\ SteeringAt(i) /\ SteeringAt(j) =>
      \E k \in i..j : messages[k].role = "assistant"

\* Where a run can be with an unanswered steering message: past the only poll of
\* this turn that may deliver one.
GivenSteering ==
  \/ pc \in {"prompt", "poll"} /\ skipInitialSteeringPoll
  \/ pc \in {"inject", "hook"} /\ (lastCompletedTurn => injectedSteering)
  \/ pc \in {"lateInject", "stream", "failed"}

\* The loop holds at most one steering message, and one only if the last is answered.
HeldSteering ==
  /\ \A m, n \in pendingMessages : via[m] = "steer" /\ via[n] = "steer" => m = n
  /\ \A m \in pendingMessages : via[m] = "steer" =>
       /\ ~Unanswered
       /\ pc = "prompt" => skipInitialSteeringPoll

SteeringInv ==
  /\ Separated
  /\ Unanswered => GivenSteering
  /\ HeldSteering
  /\ pc \in {"prompt", "poll"} => ~lastCompletedTurn
  /\ pc = "failed" => faults >= 1

OneAtATime == SteeringMode = "one-at-a-time" /\ faults <= 1

\* Handing a message in does not turn another one into a steering message.
ViaKept == \A m \in Messages : via[m] # "none" => via'[m] = via[m]

LEMMA SteeringSame ==
  ASSUME TypeOK, Placement, messages' = messages, ViaKept
  PROVE  /\ \A i \in 1..Len(messages) : SteeringAt(i)' <=> SteeringAt(i)
         /\ Unanswered' <=> Unanswered
         /\ Separated' <=> Separated
<1>1. ASSUME NEW i \in 1..Len(messages)
      PROVE  SteeringAt(i)' <=> SteeringAt(i)
  <2>1. messages[i].role = "user" =>
          messages[i].msg \in Messages /\ via[messages[i].msg] # "none"
    BY DEF TypeOK, Entries, Placement
  <2> QED
    BY <2>1 DEF SteeringAt, ViaKept
<1> QED
  BY <1>1 DEF Unanswered, Separated

\* A step that injects nothing and takes no steering message.
LEMMA SteeringKeep ==
  ASSUME TypeOK, Placement, SteeringInv, messages' = messages, ViaKept,
         \A m \in pendingMessages' :
           \/ m \in pendingMessages /\ (pc' = "prompt" => pc = "prompt")
           \/ via'[m] # "steer",
         pc' = "prompt" =>
           \/ skipInitialSteeringPoll'
           \/ pc # "prompt" /\ \A m \in pendingMessages' : via'[m] # "steer"
           \/ pc = "prompt" /\ ~skipInitialSteeringPoll,
         Unanswered => GivenSteering',
         pc' \in {"prompt", "poll"} => ~lastCompletedTurn',
         pc' = "failed" => faults' >= 1
  PROVE  SteeringInv'
<1>1. /\ Unanswered' <=> Unanswered
      /\ Separated' <=> Separated
  BY SteeringSame
<1>2. \A m \in pendingMessages' : via'[m] = "steer" => via[m] = "steer" /\ m \in pendingMessages
  BY DEF ViaKept, Placement, TypeOK
<1>3. HeldSteering'
  BY <1>1, <1>2 DEF HeldSteering, SteeringInv
<1> QED
  BY <1>1, <1>3 DEF SteeringInv

\* A poll takes one steering message at most, while none is unanswered.
LEMMA SteeringTake ==
  ASSUME AgentAssumption, TypeOK, Placement, SteeringInv, OneAtATime, ~Unanswered,
         UNCHANGED <<messages, via>>,
         NEW taken \in Drain(steeringQueue, SteeringMode), pendingMessages' = taken,
         pc' # "failed", pc' = "prompt" => skipInitialSteeringPoll',
         pc' \in {"prompt", "poll"} => ~lastCompletedTurn'
  PROVE  SteeringInv'
<1>1. ~Unanswered' /\ Separated'
  BY SteeringSame DEF ViaKept, SteeringInv
<1>2. \A m, n \in taken : m = n
  <2>1. CASE taken = {} /\ taken = Deliverable(steeringQueue)
    BY <2>1
  <2>2. CASE taken \in {{m} : m \in Oldest(Deliverable(steeringQueue))}
    BY <2>2
  <2> QED
    BY <2>1, <2>2 DEF Drain, OneAtATime
<1> QED
  BY <1>1, <1>2 DEF SteeringInv, HeldSteering

LEMMA SteeringInject ==
  ASSUME TypeOK, Placement, SteeringInv, InjectOne, UNCHANGED <<via, pc, faults>>,
         UNCHANGED <<skipInitialSteeringPoll, lastCompletedTurn>>,
         \/ pc = "prompt"
         \/ pc = "inject" /\ injectedSteering'
         \/ pc = "lateInject"
  PROVE  SteeringInv'
<1>1. PICK m \in Oldest(pendingMessages) :
        /\ messages' = Append(messages, UserEntry(m))
        /\ pendingMessages' = pendingMessages \ {m}
  BY DEF InjectOne
<1> DEFINE last == Len(messages) + 1
<1>2. /\ m \in pendingMessages /\ UserEntry(m) \in Entries
      /\ UserEntry(m).role = "user" /\ UserEntry(m).msg = m
  BY <1>1 DEF UserEntry, Entries, TypeOK, Oldest
<1>3. /\ Len(messages') = last /\ messages'[last] = UserEntry(m)
      /\ \A i \in 1..Len(messages) : messages'[i] = messages[i]
      /\ Len(messages) \in Nat
  BY <1>1, <1>2, AppendEntry DEF TypeOK
<1>4. /\ \A i \in 1..Len(messages) : SteeringAt(i)' <=> SteeringAt(i)
      /\ \A i \in {last} : SteeringAt(i)' <=> via[m] = "steer"
  BY <1>2, <1>3 DEF SteeringAt
<1>5. Unanswered' => Unanswered \/ via[m] = "steer"
  <2> SUFFICES ASSUME Unanswered' PROVE Unanswered \/ via[m] = "steer"
    OBVIOUS
  <2>1. PICK i \in 1..last :
          SteeringAt(i)' /\ \A k \in i..last : messages'[k].role # "assistant"
    BY <1>3 DEF Unanswered
  <2>2. CASE i = last
    BY <1>4, <2>1, <2>2
  <2>3. CASE i \in 1..Len(messages)
    BY <1>3, <1>4, <2>1, <2>3 DEF Unanswered
  <2> QED
    BY <1>3, <2>2, <2>3
<1>6. Separated'
  <2> SUFFICES ASSUME NEW i \in 1..last, NEW j \in 1..last, i < j,
                      SteeringAt(i)', SteeringAt(j)'
               PROVE  \E k \in i..j : messages'[k].role = "assistant"
    BY <1>3 DEF Separated
  <2>1. i \in 1..Len(messages)
    BY <1>3
  <2>2. CASE j = last
    <3>1. ~Unanswered
      BY <1>2, <1>4, <2>2 DEF SteeringInv, HeldSteering
    <3>2. PICK k \in i..Len(messages) : messages[k].role = "assistant"
      BY <1>4, <2>1, <3>1 DEF Unanswered
    <3> QED
      BY <1>3, <2>1, <2>2, <3>2
  <2>3. CASE j \in 1..Len(messages)
    <3>1. PICK k \in i..j : messages[k].role = "assistant"
      BY <1>4, <2>1, <2>3 DEF SteeringInv, Separated
    <3> QED
      BY <1>3, <2>1, <2>3, <3>1
  <2> QED
    BY <1>3, <2>2, <2>3
<1>7. Unanswered' => GivenSteering'
  BY <1>2, <1>5 DEF SteeringInv, HeldSteering, GivenSteering
<1>8. HeldSteering'
  BY <1>1, <1>2, <1>5 DEF SteeringInv, HeldSteering
<1> QED
  BY <1>6, <1>7, <1>8 DEF SteeringInv

\* An entry that is no user message separates, and an assistant one answers.
LEMMA SteeringAppend ==
  ASSUME TypeOK, SteeringInv, NEW e \in Entries, e.role # "user",
         messages' = Append(messages, e), via' = via,
         pendingMessages' = pendingMessages,
         e.role = "assistant" \/ (pc = "tools" /\ pc' = "tools"),
         pc' \notin {"prompt", "poll", "failed"}
  PROVE  SteeringInv'
<1> DEFINE last == Len(messages) + 1
<1>1. /\ Len(messages') = last /\ messages'[last] = e
      /\ \A i \in 1..Len(messages) : messages'[i] = messages[i]
      /\ Len(messages) \in Nat
  BY AppendEntry DEF TypeOK
<1>2. /\ \A i \in 1..Len(messages) : SteeringAt(i)' <=> SteeringAt(i)
      /\ \A i \in {last} : ~SteeringAt(i)'
  BY <1>1 DEF SteeringAt
<1>3. Unanswered' => Unanswered /\ e.role # "assistant"
  <2> SUFFICES ASSUME Unanswered' PROVE Unanswered /\ e.role # "assistant"
    OBVIOUS
  <2>1. PICK i \in 1..last :
          SteeringAt(i)' /\ \A k \in i..last : messages'[k].role # "assistant"
    BY <1>1 DEF Unanswered
  <2>2. i \in 1..Len(messages)
    BY <1>1, <1>2, <2>1
  <2> QED
    BY <1>1, <1>2, <2>1, <2>2 DEF Unanswered
<1>4. Separated'
  <2> SUFFICES ASSUME NEW i \in 1..last, NEW j \in 1..last, i < j,
                      SteeringAt(i)', SteeringAt(j)'
               PROVE  \E k \in i..j : messages'[k].role = "assistant"
    BY <1>1 DEF Separated
  <2>1. i \in 1..Len(messages) /\ j \in 1..Len(messages)
    BY <1>1, <1>2
  <2>2. PICK k \in i..j : messages[k].role = "assistant"
    BY <1>2, <2>1 DEF SteeringInv, Separated
  <2> QED
    BY <1>1, <2>1, <2>2
<1>5. ~Unanswered'
  BY <1>3 DEF SteeringInv, GivenSteering
<1> QED
  BY <1>4, <1>5 DEF SteeringInv, HeldSteering

LEMMA SteeringCallers ==
  ASSUME AgentAssumption, TypeOK, Placement, Callers, SteeringInv
  PROVE  SteeringInv'
<1>1. ASSUME NEW m \in Messages, NEW how, HandIn(m, how)
      PROVE  ViaKept
  BY <1>1 DEF HandIn, ViaKept, TypeOK
<1>2. ASSUME UNCHANGED <<turnVars, messages, pc, pendingMessages, faults>>, ViaKept
      PROVE  SteeringInv'
  <2>1. Unanswered => GivenSteering'
    BY <1>2 DEF SteeringInv, GivenSteering, turnVars
  <2> QED
    BY <1>2, <2>1, SteeringKeep DEF turnVars, SteeringInv
<1>3. ASSUME NEW m \in Messages, Steer(m) \/ FollowUp(m) PROVE SteeringInv'
  BY <1>1, <1>2, <1>3 DEF Steer, FollowUp
<1>4. CASE ClearAllQueues \/ ToggleHold \/ Abort
  BY <1>2, <1>4 DEF ClearAllQueues, ToggleHold, Abort, ViaKept, queueVars
<1>5. CASE Reset
  <2>1. Separated' /\ ~Unanswered'
    BY <1>5 DEF Reset, Separated, Unanswered
  <2> QED
    BY <1>5, <2>1 DEF Reset, SteeringInv, HeldSteering, turnVars
<1> QED
  BY <1>3, <1>4, <1>5 DEF Callers

LEMMA SteeringStart ==
  ASSUME AgentAssumption, TypeOK, Placement, Start, SteeringInv, OneAtATime
  PROVE  SteeringInv'
<1>1. ~activeRun => ~Unanswered
  BY DEF SteeringInv, GivenSteering, TypeOK
<1>2. ASSUME NEW m \in Messages, Prompt(m) PROVE SteeringInv'
  <2>1. ViaKept
    BY <1>2 DEF Prompt, HandIn, ViaKept, TypeOK
  <2>2. via'[m] = "prompt"
    BY <1>2 DEF Prompt, HandIn, TypeOK
  <2>3. pc = "idle"
    BY <1>2 DEF Prompt, TypeOK
  <2> QED
    BY <1>1, <1>2, <2>1, <2>2, <2>3, SteeringKeep DEF Prompt, StartRun
<1>3. ASSUME NEW d \in BOOLEAN, ContinueWithSteering(d) PROVE SteeringInv'
  BY <1>1, <1>3, SteeringTake DEF ContinueWithSteering, StartRun
<1>4. ASSUME NEW d \in BOOLEAN, ContinueWithFollowUp(d) PROVE SteeringInv'
  <2>1. PICK input \in Drain(followUpQueue, FollowUpMode) :
          StartRun(input, "prompt", FALSE)
    BY <1>4 DEF ContinueWithFollowUp
  <2>2. \A m \in input : via[m] # "steer"
    BY <2>1, DrainTakes DEF TypeOK, Placement
  <2>3. pc = "idle"
    BY <1>4 DEF ContinueWithFollowUp, TypeOK
  <2> QED
    BY <1>1, <1>4, <2>1, <2>2, <2>3, SteeringKeep
    DEF ContinueWithFollowUp, StartRun, ViaKept
<1>5. ASSUME NEW d \in BOOLEAN, ContinueFromTranscript(d) PROVE SteeringInv'
  BY <1>1, <1>5, SteeringKeep
  DEF ContinueFromTranscript, StartRun, ViaKept, queueVars
<1> QED
  BY <1>2, <1>3, <1>4, <1>5 DEF Start

\* The three polls of a turn: after one delivered, the next two may not.
LEMMA SteeringPolls ==
  ASSUME AgentAssumption, TypeOK, Placement, SteeringInv, OneAtATime,
         \/ InitialPoll \/ PrepareNextTurn \/ BeforeModelRequest
         \/ PollAfterTurn \/ PollFollowUps
  PROVE  SteeringInv'
<1> USE DEF turnVars, ViaKept
<1>1. CASE InitialPoll
  <2>1. CASE skipInitialSteeringPoll
    <3>1. GivenSteering'
      BY <1>1 DEF InitialPoll, GivenSteering, SteeringInv
    <3> QED
      BY <1>1, <2>1, <3>1, SteeringKeep DEF InitialPoll
  <2>2. CASE ~skipInitialSteeringPoll
    <3>1. ~Unanswered
      BY <1>1, <2>2 DEF InitialPoll, SteeringInv, GivenSteering
    <3> QED
      BY <1>1, <2>2, <3>1, SteeringTake DEF InitialPoll, TakeSteering
  <2> QED
    BY <2>1, <2>2
<1>2. CASE PrepareNextTurn
  <2>1. ~Unanswered
    BY <1>2 DEF PrepareNextTurn, SteeringInv, GivenSteering
  <2> QED
    BY <1>2, <2>1, SteeringTake, SteeringKeep DEF PrepareNextTurn, TakeSteering
<1>3. CASE BeforeModelRequest
  <2>1. CASE LatePoll
    <3>1. ~Unanswered
      BY <1>3, <2>1 DEF BeforeModelRequest, LatePoll, SteeringInv, GivenSteering
    <3> QED
      BY <1>3, <2>1, <3>1, SteeringTake DEF BeforeModelRequest, TakeSteering
  <2>2. CASE ~LatePoll
    <3>1. GivenSteering'
      BY <1>3 DEF BeforeModelRequest, GivenSteering
    <3> QED
      BY <1>3, <2>2, <3>1, SteeringKeep DEF BeforeModelRequest
  <2> QED
    BY <2>1, <2>2
<1>4. CASE PollAfterTurn
  <2>1. ~Unanswered
    BY <1>4 DEF PollAfterTurn, SteeringInv, GivenSteering
  <2> QED
    BY <1>4, <2>1, SteeringTake DEF PollAfterTurn, TakeSteering
<1>5. CASE PollFollowUps
  <2>1. ~Unanswered
    BY <1>5 DEF PollFollowUps, SteeringInv, GivenSteering
  <2>2. \A m \in pendingMessages' : via[m] # "steer"
    BY <1>5, DrainTakes DEF PollFollowUps, TakeFollowUps, TypeOK, Placement
  <2> QED
    BY <1>5, <2>1, <2>2, SteeringKeep DEF PollFollowUps
<1> QED
  BY <1>1, <1>2, <1>3, <1>4, <1>5

LEMMA SteeringInjections ==
  ASSUME AgentAssumption, TypeOK, Placement, SteeringInv,
         InjectPrompt \/ InjectPending \/ InjectLate
  PROVE  SteeringInv'
<1> USE DEF turnVars, queueVars
<1>1. ASSUME UNCHANGED <<messages, via, pendingMessages, turnVars, faults>>,
             Unanswered => GivenSteering', pc' \notin {"prompt", "failed"},
             pc' = "poll" => pc = "prompt"
      PROVE  SteeringInv'
  BY <1>1, SteeringKeep DEF ViaKept, SteeringInv
<1>2. CASE InjectPrompt
  <2>1. CASE InjectOne /\ UNCHANGED pc
    BY <1>2, <2>1, SteeringInject DEF InjectPrompt
  <2>2. CASE UNCHANGED <<messages, pendingMessages>> /\ pc' = "poll"
    <3>1. Unanswered => GivenSteering'
      BY <1>2, <2>2 DEF InjectPrompt, SteeringInv, GivenSteering
    <3> QED
      BY <1>1, <1>2, <2>2, <3>1 DEF InjectPrompt
  <2> QED
    BY <1>2, <2>1, <2>2 DEF InjectPrompt
<1>3. CASE InjectPending
  <2>1. CASE InjectOne /\ injectedSteering' = TRUE /\ UNCHANGED pc
    BY <1>3, <2>1, SteeringInject DEF InjectPending
  <2>2. CASE pc' = "hook" /\ UNCHANGED <<messages, pendingMessages, injectedSteering>>
    <3>1. Unanswered => GivenSteering'
      BY <1>3, <2>2 DEF InjectPending, SteeringInv, GivenSteering
    <3> QED
      BY <1>1, <1>3, <2>2, <3>1 DEF InjectPending
  <2> QED
    BY <1>3, <2>1, <2>2 DEF InjectPending
<1>4. CASE InjectLate
  <2>1. CASE InjectOne /\ UNCHANGED pc
    BY <1>4, <2>1, SteeringInject DEF InjectLate
  <2>2. CASE UNCHANGED <<messages, pendingMessages>> /\ pc' = "stream"
    <3>1. GivenSteering'
      BY <2>2 DEF GivenSteering
    <3> QED
      BY <1>1, <1>4, <2>2, <3>1 DEF InjectLate
  <2> QED
    BY <1>4, <2>1, <2>2 DEF InjectLate
<1> QED
  BY <1>2, <1>3, <1>4

LEMMA SteeringRest ==
  ASSUME AgentAssumption, TypeOK, Placement, SteeringInv, Loop \/ Reject, OneAtATime,
         faults' <= 1,
         ~(\/ InitialPoll \/ PrepareNextTurn \/ BeforeModelRequest
           \/ PollAfterTurn \/ PollFollowUps),
         ~(InjectPrompt \/ InjectPending \/ InjectLate)
  PROVE  SteeringInv'
<1> USE DEF queueVars, turnVars
<1>0. ASSUME ~Unanswered, UNCHANGED <<messages, via, pendingMessages>>,
             pc' \notin {"prompt", "poll", "failed"}
      PROVE  SteeringInv'
  BY <1>0, SteeringKeep DEF ViaKept
<1>1. ASSUME NEW stop \in StopReasons, NEW n \in 0..MaxCalls,
             StreamAssistantResponse(stop, n)
      PROVE  SteeringInv'
  <2>1. /\ AssistantEntry(stop, n) \in Entries
        /\ AssistantEntry(stop, n).role = "assistant"
    BY DEF AssistantEntry, Entries
  <2> QED
    BY <1>1, <2>1, SteeringAppend DEF StreamAssistantResponse
<1>2. CASE EmitToolResult
  <2>1. /\ ResultEntry(answered + 1) \in Entries
        /\ ResultEntry(answered + 1).role # "user"
    BY <1>2 DEF EmitToolResult, CallsRemain, ResultEntry, Entries, TypeOK,
               AgentAssumption
  <2> QED
    BY <1>2, <2>1, SteeringAppend DEF EmitToolResult
<1>3. CASE HandleRunFailure
  <2>1. \A stop \in StopReasons :
          /\ AssistantEntry(stop, 0) \in Entries
          /\ AssistantEntry(stop, 0).role = "assistant"
    BY DEF AssistantEntry, Entries, AgentAssumption
  <2> QED
    BY <1>3, <2>1, SteeringAppend DEF HandleRunFailure, StopReasons
<1>4. ASSUME NEW t \in BOOLEAN, NEW stop \in BOOLEAN, FinishBatch(t, stop)
      PROVE  SteeringInv'
  BY <1>0, <1>4 DEF FinishBatch, SteeringInv, GivenSteering
<1>5. ASSUME NEW hook \in BOOLEAN, StopAfterTurn(hook) PROVE SteeringInv'
  BY <1>0, <1>5 DEF StopAfterTurn, SteeringInv, GivenSteering
<1>6. CASE EmitAgentEnd \/ FinishRun
  BY <1>0, <1>6 DEF EmitAgentEnd, FinishRun, Settled, SteeringInv, GivenSteering
<1>7. CASE Reject
  <2>1. pc # "failed" /\ faults' >= 1 /\ pc' = "failed"
    BY <1>7 DEF Reject, SteeringInv, OneAtATime, TypeOK
  <2> QED
    BY <1>7, <2>1, SteeringKeep DEF Reject, ViaKept, GivenSteering
<1> QED
  BY <1>1, <1>2, <1>3, <1>4, <1>5, <1>6, <1>7 DEF Loop

\* Whatever is queued while prompts, tools and hooks run, and with at most one
\* rejection: the model answers a steering message before it is given another.
THEOREM OneSteeringHolds == AgentAssumption => (Spec => []OneSteeringPerTurn)
<1> SUFFICES ASSUME AgentAssumption PROVE Spec => []OneSteeringPerTurn
  OBVIOUS
<1> DEFINE Inv == OneAtATime => SteeringInv
<1>1. Init => Inv
  BY DEF Init, SteeringInv, Separated, Unanswered, HeldSteering
<1>2. TypeOK /\ Placement /\ Inv /\ [Next]_vars => Inv'
  <2> SUFFICES ASSUME TypeOK, Placement, Inv, [Next]_vars, OneAtATime'
               PROVE  SteeringInv'
    OBVIOUS
  <2>1. OneAtATime
    <3>1. faults \in Nat /\ (faults' = faults \/ faults' = faults + 1)
      BY DEF TypeOK, Next, Callers, Steer, FollowUp, ClearAllQueues, ToggleHold,
             Abort, Reset, Start, Prompt, ContinueWithSteering, ContinueWithFollowUp,
             ContinueFromTranscript, StartRun, Loop, InjectPrompt, InitialPoll,
             PrepareNextTurn, InjectPending, BeforeModelRequest, InjectLate,
             StreamAssistantResponse, EmitToolResult, FinishBatch, StopAfterTurn,
             PollAfterTurn, PollFollowUps, EmitAgentEnd, HandleRunFailure, FinishRun,
             Reject, vars
    <3> QED
      BY <3>1 DEF OneAtATime
  <2>2. SteeringInv /\ faults' <= 1
    BY <2>1 DEF OneAtATime
  <2>3. CASE UNCHANGED vars
    <3>1. Unanswered => GivenSteering'
      BY <2>2, <2>3 DEF SteeringInv, GivenSteering, vars, turnVars
    <3> QED
      BY <2>2, <2>3, <3>1, SteeringKeep DEF vars, queueVars, turnVars, ViaKept, SteeringInv
  <2> QED
    BY <2>1, <2>2, <2>3, SteeringCallers, SteeringStart, SteeringPolls,
       SteeringInjections, SteeringRest DEF Next
<1>3. TypeOK /\ Inv => OneSteeringPerTurn
  BY DEF OneSteeringPerTurn, OneAtATime, SteeringInv, Separated, SteeringAt
<1> QED
  BY <1>1, <1>2, <1>3, TypeCorrect, PlacementInvariant, PTL DEF Spec
-----------------------------------------------------------------------------
(* No dangling tool call in a request                                      *)

\* The calls of entry i, if it makes any, have their results right behind it.
Answered(i) ==
  messages[i].role = "assistant" =>
    \A k \in 1..messages[i].calls :
      i + k <= Len(messages) /\ messages[i + k] = ResultEntry(k)

\* While a batch runs, its message is followed by the results so far.
BatchAt == Len(messages) - answered
BatchOpen ==
  /\ runStart < BatchAt
  /\ messages[BatchAt].role = "assistant" /\ messages[BatchAt].calls = calls
  /\ \A k \in 1..answered : messages[BatchAt + k] = ResultEntry(k)

CallsInv ==
  /\ activeRun => runStart <= Len(messages)
  /\ pc \notin {"idle", "tools", "failed", "finish"} /\ ~aborted =>
       \A i \in (runStart + 1)..Len(messages) : Answered(i)
  /\ pc = "tools" => BatchOpen
  /\ pc = "tools" /\ ~aborted =>
       \A i \in (runStart + 1)..(BatchAt - 1) : Answered(i)

\* Steps that leave the transcript and the batch alone.
LEMMA CallsSame ==
  ASSUME CallsInv, messages' = messages, runStart' = runStart,
         activeRun' => activeRun, ~aborted' => ~aborted,
         \/ pc' = pc /\ answered' = answered /\ calls' = calls
         \/ pc' \in {"idle", "failed", "finish"}
         \/ /\ pc \notin {"idle", "tools", "failed", "finish"}
            /\ pc' # "tools"
  PROVE  CallsInv'
<1>1. \A i : Answered(i)' <=> Answered(i)
  BY DEF Answered
<1> QED
  BY <1>1 DEF CallsInv, BatchOpen, BatchAt

\* A longer transcript keeps what was answered.
LEMMA AnsweredAppend ==
  ASSUME TypeOK, NEW e \in Entries, messages' = Append(messages, e),
         NEW i \in 1..Len(messages), Answered(i)
  PROVE  Answered(i)'
<1>1. /\ Len(messages') = Len(messages) + 1 /\ Len(messages) \in Nat
      /\ \A j \in 1..Len(messages) : messages'[j] = messages[j]
  BY AppendEntry DEF TypeOK
<1>2. messages[i].role = "assistant" => messages[i].calls \in 0..MaxCalls
  BY DEF TypeOK, Entries
<1> SUFFICES ASSUME messages[i].role = "assistant", NEW k \in 1..messages[i].calls
             PROVE  i + k <= Len(messages') /\ messages'[i + k] = ResultEntry(k)
  BY <1>1 DEF Answered
<1>3. i + k \in 1..Len(messages) /\ messages[i + k] = ResultEntry(k)
  BY <1>1, <1>2 DEF Answered
<1> QED
  BY <1>1, <1>3

LEMMA CallsInject ==
  ASSUME TypeOK, CallsInv, InjectOne,
         UNCHANGED <<runStart, activeRun, aborted, pc>>,
         pc \in {"prompt", "inject", "lateInject"}
  PROVE  CallsInv'
<1>1. PICK m \in Oldest(pendingMessages) : messages' = Append(messages, UserEntry(m))
  BY DEF InjectOne
<1>2. UserEntry(m) \in Entries /\ UserEntry(m).role = "user"
  BY <1>1 DEF UserEntry, Entries, TypeOK, Oldest
<1>3. /\ Len(messages') = Len(messages) + 1 /\ Len(messages) \in Nat
      /\ messages'[Len(messages) + 1].role = "user"
      /\ runStart \in Nat
  BY <1>1, <1>2, AppendEntry DEF TypeOK
<1>4. ASSUME ~aborted, NEW i \in (runStart + 1)..Len(messages')
      PROVE  Answered(i)'
  <2>1. CASE i = Len(messages) + 1
    BY <1>3, <2>1 DEF Answered
  <2>2. CASE i \in 1..Len(messages)
    <3>1. Answered(i)
      BY <1>3, <1>4, <2>2 DEF CallsInv
    <3> QED
      BY <1>1, <1>2, <2>2, <3>1, AnsweredAppend
  <2> QED
    BY <1>3, <2>1, <2>2
<1> QED
  BY <1>3, <1>4 DEF CallsInv, TypeOK

\* The answer of the model opens a batch, or makes no call.
LEMMA CallsStream ==
  ASSUME AgentAssumption, TypeOK, CallsInv, NEW stop \in StopReasons, NEW n \in 0..MaxCalls,
         StreamAssistantResponse(stop, n)
  PROVE  CallsInv'
<1>1. /\ pc = "stream" /\ messages' = Append(messages, AssistantEntry(stop, n))
      /\ AssistantEntry(stop, n) \in Entries
      /\ calls' = n /\ answered' = 0
      /\ UNCHANGED <<runStart, activeRun, aborted>>
  BY DEF StreamAssistantResponse, runVars, AssistantEntry, Entries
<1>2. /\ Len(messages') = Len(messages) + 1 /\ Len(messages) \in Nat
      /\ messages'[Len(messages) + 1] = AssistantEntry(stop, n)
      /\ runStart \in Nat /\ runStart <= Len(messages)
  BY <1>1, AppendEntry DEF TypeOK, CallsInv
<1>3. pc' # "tools" => n = 0
  BY <1>1 DEF StreamAssistantResponse, StopReasons
<1>4. ASSUME ~aborted, NEW i \in (runStart + 1)..Len(messages)
      PROVE  Answered(i)'
  <2>1. i \in 1..Len(messages) /\ Answered(i)
    BY <1>1, <1>2, <1>4 DEF CallsInv
  <2> QED
    BY <1>1, <2>1, AnsweredAppend
<1>5. ASSUME n = 0, NEW i \in {Len(messages) + 1} PROVE Answered(i)'
  BY <1>2, <1>5 DEF Answered, AssistantEntry
<1>6. BatchOpen'
  BY <1>1, <1>2 DEF BatchOpen, BatchAt, AssistantEntry
<1>7. ~aborted' /\ pc' # "tools" => \A i \in (runStart + 1)..Len(messages') : Answered(i)'
  BY <1>1, <1>2, <1>3, <1>4, <1>5
<1>8. BatchAt' = Len(messages) + 1
  BY <1>1, <1>2 DEF BatchAt
<1> QED
  BY <1>1, <1>2, <1>4, <1>6, <1>7, <1>8 DEF CallsInv

\* A result goes right behind those before it.
LEMMA CallsResult ==
  ASSUME AgentAssumption, TypeOK, CallsInv, EmitToolResult
  PROVE  CallsInv'
<1>1. /\ pc = "tools" /\ pc' = pc /\ answered < calls /\ answered' = answered + 1
      /\ messages' = Append(messages, ResultEntry(answered + 1))
      /\ ResultEntry(answered + 1) \in Entries
      /\ UNCHANGED <<runStart, activeRun, aborted, calls>>
  BY DEF EmitToolResult, CallsRemain, runVars, ResultEntry, Entries, TypeOK, AgentAssumption
<1>2. /\ Len(messages') = Len(messages) + 1 /\ Len(messages) \in Nat
      /\ messages'[Len(messages) + 1] = ResultEntry(answered + 1)
      /\ \A i \in 1..Len(messages) : messages'[i] = messages[i]
      /\ answered \in Nat /\ runStart \in Nat
  BY <1>1, AppendEntry DEF TypeOK
<1>3. /\ BatchOpen /\ BatchAt' = BatchAt /\ BatchAt + answered = Len(messages)
      /\ BatchAt \in 1..Len(messages) /\ runStart < BatchAt
  <2>1. BatchOpen
    BY <1>1 DEF CallsInv
  <2>2. BatchAt = Len(messages) - answered /\ BatchAt' = (Len(messages) + 1) - (answered + 1)
    BY <1>1, <1>2 DEF BatchAt
  <2>3. runStart < BatchAt
    BY <2>1 DEF BatchOpen
  <2> QED
    BY <1>2, <2>1, <2>2, <2>3
<1>4. BatchOpen'
  <2>1. ASSUME NEW k \in 1..answered PROVE messages'[BatchAt + k] = ResultEntry(k)
    <3>1. BatchAt + k \in 1..Len(messages)
      BY <1>2, <1>3
    <3> QED
      BY <1>2, <1>3, <3>1 DEF BatchOpen
  <2>2. BatchAt + (answered + 1) = Len(messages) + 1
    BY <1>2, <1>3
  <2>3. \A k \in 1..(answered + 1) : messages'[BatchAt + k] = ResultEntry(k)
    BY <1>2, <2>1, <2>2
  <2> QED
    BY <1>1, <1>2, <1>3, <2>3 DEF CallsInv, BatchOpen
<1>5. ASSUME ~aborted, NEW i \in (runStart + 1)..(BatchAt - 1) PROVE Answered(i)'
  <2>1. Answered(i) /\ i \in 1..Len(messages)
    BY <1>1, <1>2, <1>3, <1>5 DEF CallsInv
  <2> QED
    BY <1>1, <2>1, AnsweredAppend
<1> QED
  BY <1>1, <1>2, <1>3, <1>4, <1>5 DEF CallsInv

\* A batch that returns in a run nobody aborted has answered every call.
LEMMA CallsBatch ==
  ASSUME TypeOK, CallsInv, NEW t \in BOOLEAN, NEW stop \in BOOLEAN, FinishBatch(t, stop)
  PROVE  CallsInv'
<1>1. /\ pc = "tools" /\ pc' = "turnEnd" /\ (~aborted => answered = calls)
      /\ UNCHANGED <<messages, runStart, activeRun, aborted, answered, calls>>
  BY DEF FinishBatch, BatchDone, runVars
<1>2. /\ BatchOpen /\ answered \in Nat /\ Len(messages) \in Nat /\ runStart \in Nat
      /\ BatchAt \in Int /\ Len(messages) = BatchAt + answered
  BY <1>1 DEF CallsInv, TypeOK, BatchAt
<1>3. ASSUME ~aborted, NEW i \in (runStart + 1)..Len(messages)
      PROVE  Answered(i)
  <2>1. CASE i < BatchAt
    BY <1>1, <1>2, <1>3, <2>1 DEF CallsInv, BatchAt
  <2>2. CASE i = BatchAt
    BY <1>1, <1>2, <1>3, <2>2 DEF BatchOpen, Answered
  <2>3. CASE i > BatchAt
    <3>1. PICK k \in 1..answered : i = BatchAt + k
      <4>1. i - BatchAt \in 1..answered /\ i = BatchAt + (i - BatchAt)
        BY <1>2, <2>3
      <4> QED
        BY <4>1
    <3>2. messages[i] = ResultEntry(k)
      BY <1>2, <3>1 DEF BatchOpen
    <3>3. messages[i].role = "toolResult"
      BY <3>2 DEF ResultEntry
    <3> QED
      BY <3>3 DEF Answered
  <2> QED
    BY <1>2, <2>1, <2>2, <2>3
<1>4. \A i : Answered(i)' <=> Answered(i)
  BY <1>1 DEF Answered
<1> QED
  BY <1>1, <1>3, <1>4 DEF CallsInv

LEMMA CallsCallers ==
  ASSUME TypeOK, CallsInv, Callers \/ Start
  PROVE  CallsInv'
<1> USE DEF queueVars, batchVars, turnVars, runVars
<1>1. CASE Callers
  <2>1. ASSUME NEW m \in Messages, Steer(m) \/ FollowUp(m) PROVE CallsInv'
    BY <2>1, CallsSame DEF Steer, FollowUp
  <2>2. CASE ClearAllQueues \/ ToggleHold
    BY <2>2, CallsSame DEF ClearAllQueues, ToggleHold
  <2>3. CASE Abort
    BY <2>3, CallsSame DEF Abort
  <2>4. CASE Reset
    BY <2>4 DEF Reset, CallsInv, TypeOK
  <2> QED
    BY <1>1, <2>1, <2>2, <2>3, <2>4 DEF Callers
<1>2. CASE Start
  <2>1. /\ messages' = messages /\ runStart' = Len(messages)
        /\ pc' \in {"prompt", "poll"}
    BY <1>2 DEF Start, Prompt, ContinueWithSteering, ContinueWithFollowUp,
                ContinueFromTranscript, StartRun
  <2> QED
    BY <2>1 DEF CallsInv, TypeOK
<1> QED
  BY <1>1, <1>2

LEMMA CallsLoop ==
  ASSUME AgentAssumption, TypeOK, CallsInv, Loop \/ Reject
  PROVE  CallsInv'
<1> USE DEF queueVars, batchVars, turnVars, runVars
<1>1. CASE InjectPrompt
  BY <1>1, CallsInject, CallsSame DEF InjectPrompt
<1>2. CASE InjectPending
  BY <1>2, CallsInject, CallsSame DEF InjectPending
<1>3. CASE InjectLate
  BY <1>3, CallsInject, CallsSame DEF InjectLate
<1>4. CASE InitialPoll
  BY <1>4, CallsSame DEF InitialPoll
<1>5. CASE PrepareNextTurn
  BY <1>5, CallsSame DEF PrepareNextTurn
<1>6. CASE BeforeModelRequest
  BY <1>6, CallsSame DEF BeforeModelRequest
<1>7. CASE PollAfterTurn
  BY <1>7, CallsSame DEF PollAfterTurn
<1>8. CASE PollFollowUps
  BY <1>8, CallsSame DEF PollFollowUps
<1>9. ASSUME NEW stop \in StopReasons, NEW n \in 0..MaxCalls, StreamAssistantResponse(stop, n)
      PROVE  CallsInv'
  BY <1>9, CallsStream
<1>10. CASE EmitToolResult
  BY <1>10, CallsResult
<1>11. ASSUME NEW t \in BOOLEAN, NEW stop \in BOOLEAN, FinishBatch(t, stop) PROVE CallsInv'
  BY <1>11, CallsBatch
<1>12. ASSUME NEW hook \in BOOLEAN, StopAfterTurn(hook) PROVE CallsInv'
  BY <1>12, CallsSame DEF StopAfterTurn
<1>13. CASE EmitAgentEnd
  BY <1>13, CallsSame DEF EmitAgentEnd
<1>14. CASE FinishRun
  BY <1>14, CallsSame DEF FinishRun
<1>15. CASE Reject
  BY <1>15, CallsSame DEF Reject
<1>16. CASE HandleRunFailure
  <2>1. \A stop \in StopReasons : AssistantEntry(stop, 0) \in Entries
    BY DEF AssistantEntry, Entries, AgentAssumption
  <2>2. Len(messages') = Len(messages) + 1 /\ Len(messages) \in Nat
    BY <1>16, <2>1, AppendEntry DEF HandleRunFailure, StopReasons, TypeOK
  <2> QED
    BY <1>16, <2>2 DEF HandleRunFailure, CallsInv, TypeOK
<1> QED
  BY <1>1, <1>2, <1>3, <1>4, <1>5, <1>6, <1>7, <1>8, <1>9, <1>10, <1>11, <1>12,
     <1>13, <1>14, <1>15, <1>16 DEF Loop

\* However steering, aborts and rejections fall into a batch: a request of a run
\* nobody aborted shows every call of the run with its results right behind it.
THEOREM CallsAnsweredHolds == AgentAssumption => (Spec => []CallsAnswered)
<1> SUFFICES ASSUME AgentAssumption PROVE Spec => []CallsAnswered
  OBVIOUS
<1>1. Init => CallsInv
  BY DEF Init, CallsInv
<1>2. TypeOK /\ CallsInv /\ [Next]_vars => CallsInv'
  <2>1. CallsInv /\ UNCHANGED vars => CallsInv'
    BY CallsSame DEF vars, runVars, batchVars
  <2> QED
    BY <2>1, CallsCallers, CallsLoop DEF Next
<1>3. CallsInv => CallsAnswered
  BY DEF CallsInv, CallsAnswered, Answered
<1> QED
  BY <1>1, <1>2, <1>3, TypeCorrect, PTL DEF Spec

=============================================================================
