----------------------------- MODULE ToolBatch -----------------------------
(***************************************************************************)
(* One batch of tool calls: executeToolCalls, executeToolCallsSequential,  *)
(* executeToolCallsParallel, failToolCallsFromTruncatedMessage and what    *)
(* they call (packages/agent-core/src/agent-loop.ts). Each await (a hook,  *)
(* a tool, a subscriber of an event) is the end of an action.              *)
(*                                                                         *)
(* A call is "waiting", "started" (tool_execution_start emitted),          *)
(* "prepared" (it passed its preflight), "executing", "executed" (its      *)
(* outcome is final), "ended" (tool_execution_end emitted) or "lost" (it   *)
(* ended after the run, whose processEvents rejects the event).            *)
(***************************************************************************)
EXTENDS Naturals, Sequences, FiniteSets

CONSTANTS MaxCalls,   \* bound: tool calls in one assistant message
          MaxFaults   \* bound: rejections of a subscriber

ASSUME BatchAssumption == MaxCalls \in Nat \ {0} /\ MaxFaults \in Nat

VARIABLES
  mode,      \* "sequential", "parallel" or "truncated"
  calls,     \* number of tool calls of the message
  pc,        \* where the batch function is
  next,      \* the call of the current iteration of its loop
  state,     \* state[c]: how far call c is
  flags,     \* flags[c]: the stopTurn and terminate of its final result
  ran,       \* the calls whose tool was executed
  stopTurn,  \* the barrier of the sequential loop
  aborted,
  results,   \* the tool result messages, as their calls
  terminate, stop,  \* what the batch returned
  faults

vars == <<mode, calls, pc, next, state, flags, ran, stopTurn, aborted, results,
          terminate, stop, faults>>

\* The states of a call, and where the batch function can be: going through
\* the calls, waiting for the parallel tools, emitting their results, done;
\* or thrown out of, the failure reported, the run over.
CallStates == {"waiting", "started", "prepared", "executing", "executed",
               "ended", "lost"}
PCs == {"loop", "wait", "results", "returned", "failed", "reported", "over"}

Calls == 1..calls
NoFlags == [stopTurn |-> FALSE, terminate |-> FALSE]
Flags == [stopTurn : BOOLEAN, terminate : BOOLEAN]

Init ==
  /\ mode \in {"sequential", "parallel", "truncated"}
  /\ calls \in 1..MaxCalls
  /\ pc = "loop" /\ next = 1
  /\ state = [c \in Calls |-> "waiting"]
  /\ flags = [c \in Calls |-> NoFlags]
  /\ ran = {}
  /\ stopTurn = FALSE /\ aborted \in BOOLEAN
  /\ results = << >>
  /\ terminate = FALSE /\ stop = FALSE
  /\ faults = 0

Move(c, to) == state' = [state EXCEPT ![c] = to]

Abort ==
  /\ ~aborted /\ pc # "over"
  /\ aborted' = TRUE
  /\ UNCHANGED <<mode, calls, pc, next, state, flags, ran, stopTurn, results,
                 terminate, stop, faults>>

-----------------------------------------------------------------------------
(* One iteration over the calls *)

StartCall ==
  /\ pc = "loop" /\ next <= calls /\ state[next] = "waiting"
  /\ Move(next, "started")
  /\ UNCHANGED <<mode, calls, pc, next, flags, ran, stopTurn, aborted, results,
                 terminate, stop, faults>>

NeverSkipped == mode = "truncated"  \* mutant: the barrier is not looked at
\* The call is not even prepared: cut off, or behind an earlier control tool.
Skipped == mode = "truncated" \/ (mode = "sequential" /\ stopTurn)

\* The outcome without execution: skipped, an unknown tool, invalid arguments,
\* blocked by beforeToolCall (which may ask to terminate), or aborted by then.
RefuseCall(block) ==
  /\ pc = "loop" /\ next <= calls /\ state[next] = "started"
  /\ Skipped \/ aborted => ~block
  /\ Move(next, "executed")
  /\ flags' = [flags EXCEPT ![next].terminate = block]
  /\ UNCHANGED <<mode, calls, pc, next, ran, stopTurn, aborted, results,
                 terminate, stop, faults>>

PrepareCall ==
  /\ pc = "loop" /\ next <= calls /\ state[next] = "started"
  /\ ~Skipped /\ ~aborted
  /\ Move(next, "prepared")
  /\ UNCHANGED <<mode, calls, pc, next, flags, ran, stopTurn, aborted, results,
                 terminate, stop, faults>>

\* The sequential loop executes a prepared call at once.
ExecuteCall ==
  /\ pc = "loop" /\ mode = "sequential"
  /\ next <= calls /\ state[next] = "prepared"
  /\ Move(next, "executing")
  /\ ran' = ran \cup {next}
  /\ UNCHANGED <<mode, calls, pc, next, flags, stopTurn, aborted, results,
                 terminate, stop, faults>>

\* The tool settled and afterToolCall has run: f is what the result asks for.
SettleCall(c, f) ==
  /\ state[c] = "executing"
  /\ Move(c, "executed")
  /\ flags' = [flags EXCEPT ![c] = f]
  /\ UNCHANGED <<mode, calls, pc, next, ran, stopTurn, aborted, results,
                 terminate, stop, faults>>

\* tool_execution_end of the call the loop is at.
EndCall ==
  /\ pc = "loop" /\ next <= calls /\ state[next] = "executed"
  /\ Move(next, "ended")
  /\ UNCHANGED <<mode, calls, pc, next, flags, ran, stopTurn, aborted, results,
                 terminate, stop, faults>>

ResultDue == Len(results) < next

\* The sequential loop emits the result of the call and raises the barrier.
EmitSequentialResult ==
  /\ pc = "loop" /\ mode # "parallel"
  /\ next <= calls /\ state[next] = "ended" /\ ResultDue
  /\ results' = Append(results, next)
  /\ stopTurn' = (stopTurn \/ flags[next].stopTurn)
  /\ UNCHANGED <<mode, calls, pc, next, state, flags, ran, aborted, terminate,
                 stop, faults>>

BreaksOnAnyAbort == aborted  \* mutant
BreaksOnAbort == aborted /\ mode # "truncated"

\* The iteration is over; an abort breaks out of the loop.
NextCall ==
  /\ pc = "loop" /\ next <= calls
  /\ IF mode = "parallel" THEN state[next] \in {"prepared", "ended"}
                          ELSE Len(results) = next
  /\ next' = IF BreaksOnAbort THEN calls + 1 ELSE next + 1
  /\ UNCHANGED <<mode, calls, pc, state, flags, ran, stopTurn, aborted, results,
                 terminate, stop, faults>>

-----------------------------------------------------------------------------
(* The parallel batch *)

Prepared == {c \in Calls : state[c] = "prepared"}

\* Promise.all over the prepared calls: all of them begin.
LaunchPrepared ==
  /\ pc = "loop" /\ mode = "parallel" /\ next > calls
  /\ state' = [c \in Calls |->
                 IF c \in Prepared THEN "executing" ELSE state[c]]
  /\ ran' = ran \cup Prepared
  /\ pc' = "wait"
  /\ UNCHANGED <<mode, calls, next, flags, stopTurn, aborted, results, terminate,
                 stop, faults>>

\* tool_execution_end of a launched call, in the order the tools finish; the
\* call goes on after the batch has failed, as nothing cancels it.
EndLaunchedCall(c) ==
  /\ pc \in {"wait", "failed", "reported"} /\ state[c] = "executed"
  /\ Move(c, "ended")
  /\ UNCHANGED <<mode, calls, pc, next, flags, ran, stopTurn, aborted, results,
                 terminate, stop, faults>>

\* The run is over: processEvents rejects the event of the call.
LoseCall(c) ==
  /\ pc = "over" /\ state[c] = "executed"
  /\ Move(c, "lost")
  /\ UNCHANGED <<mode, calls, pc, next, flags, ran, stopTurn, aborted, results,
                 terminate, stop, faults>>

AnyEnded == \E c \in Calls : state[c] = "ended"  \* mutant: race, not all
AllEnded == \A c \in Calls : state[c] \in {"waiting", "ended"}

CollectResults ==
  /\ pc = "wait" /\ AllEnded
  /\ pc' = "results"
  /\ UNCHANGED <<mode, calls, next, state, flags, ran, stopTurn, aborted, results,
                 terminate, stop, faults>>

Ended == {c \in Calls : state[c] = "ended"}
Answered == {results[i] : i \in 1..Len(results)}

\* Result messages follow the order of the calls, not of completion.
FirstEnded(c) == \A d \in Ended \ Answered : c <= d

EmitParallelResult ==
  /\ pc = "results"
  /\ \E c \in Ended \ Answered :
       FirstEnded(c) /\ results' = Append(results, c)
  /\ UNCHANGED <<mode, calls, pc, next, state, flags, ran, stopTurn, aborted,
                 terminate, stop, faults>>

-----------------------------------------------------------------------------
(* Return and failure *)

\* shouldTerminateToolBatch over the finalized calls.
ShouldTerminate ==
  \/ \E c \in Answered : flags[c].stopTurn
  \/ Answered # {} /\ \A c \in Answered : flags[c].terminate

Return ==
  /\ \/ pc = "loop" /\ mode # "parallel" /\ next > calls
     \/ pc = "results" /\ Ended = Answered
  /\ pc' = "returned"
  /\ terminate' = (mode # "truncated" /\ ShouldTerminate)
  /\ stop' = (mode # "truncated" /\ \E c \in Answered : flags[c].stopTurn)
  /\ UNCHANGED <<mode, calls, next, state, flags, ran, stopTurn, aborted, results,
                 faults>>

\* A subscriber rejects an event of the call the loop is at, or a result.
RejectEvent ==
  /\ faults < MaxFaults
  /\ \/ pc = "loop" /\ next <= calls /\ state[next] \in {"started", "ended"}
     \/ pc = "results"
  /\ pc' = "failed" /\ faults' = faults + 1
  /\ UNCHANGED <<mode, calls, next, state, flags, ran, stopTurn, aborted, results,
                 terminate, stop>>

\* It rejects tool_execution_end of a launched call: Promise.all rejects while
\* the other tools go on.
RejectEnd(c) ==
  /\ faults < MaxFaults
  /\ pc = "wait" /\ state[c] = "executed"
  /\ Move(c, "ended")
  /\ pc' = "failed" /\ faults' = faults + 1
  /\ UNCHANGED <<mode, calls, next, flags, ran, stopTurn, aborted, results,
                 terminate, stop>>

\* Agent.handleRunFailure, then finishRun.
ReportFailure ==
  /\ pc = "failed"
  /\ pc' = "reported"
  /\ UNCHANGED <<mode, calls, next, state, flags, ran, stopTurn, aborted, results,
                 terminate, stop, faults>>

FinishRun ==
  /\ pc = "reported"
  /\ pc' = "over"
  /\ UNCHANGED <<mode, calls, next, state, flags, ran, stopTurn, aborted, results,
                 terminate, stop, faults>>

-----------------------------------------------------------------------------
Step ==
  \/ StartCall \/ PrepareCall \/ ExecuteCall \/ EndCall
  \/ \E block \in BOOLEAN : RefuseCall(block)
  \/ \E c \in Calls, f \in Flags : SettleCall(c, f)
  \/ EmitSequentialResult \/ NextCall \/ LaunchPrepared \/ CollectResults
  \/ \E c \in Calls : EndLaunchedCall(c) \/ LoseCall(c)
  \/ EmitParallelResult \/ Return
  \/ ReportFailure \/ FinishRun

Next ==
  \/ Step
  \/ Abort
  \/ RejectEvent
  \/ \E c \in Calls : RejectEnd(c)

Spec == Init /\ [][Next]_vars

-----------------------------------------------------------------------------
\* The variables' types.
TypeOK ==
  /\ mode \in {"sequential", "parallel", "truncated"}
  /\ calls \in 1..MaxCalls /\ pc \in PCs /\ next \in 1..(calls + 1)
  /\ state \in [Calls -> CallStates] /\ flags \in [Calls -> Flags]
  /\ ran \subseteq Calls /\ stopTurn \in BOOLEAN /\ aborted \in BOOLEAN
  /\ results \in Seq(Calls) /\ Len(results) <= calls
  /\ terminate \in BOOLEAN /\ stop \in BOOLEAN
  /\ faults \in Nat

\* In a sequential batch a control tool is a barrier: no tool of a later call
\* is executed once an earlier one asked to stop the turn, whatever the later
\* calls are and however hooks rewrite results.
BarrierHolds ==
  mode = "sequential" =>
    \A c, d \in Calls :
      c < d /\ state[c] = "ended" /\ flags[c].stopTurn => d \notin ran

\* When the batch returns, every call that was announced has ended, and only
\* calls behind an abort were never announced: no call is left pending on the
\* screen, and a call with a result was not left running.
NothingLeftRunning ==
  pc = "returned" =>
    /\ \A c \in Calls : state[c] \in {"waiting", "ended"}
    /\ (\E c \in Calls : state[c] = "waiting") => aborted /\ mode # "truncated"

\* The results are those of the first calls, in the order of the calls, whatever
\* the order in which the tools of a parallel batch finish.
ResultsInOrder == \A i \in 1..Len(results) : results[i] = i

\* What runLoop relies on.
Contract == INSTANCE ToolBatchContract WITH
  truncated <- mode = "truncated",
  answered  <- Len(results),
  batch     <- CASE pc = "returned" -> "returned"
                 [] pc \in {"failed", "reported", "over"} -> "failed"
                 [] OTHER -> "open",
  stopTurn  <- stop

\* The sequential, the parallel and the truncated batch all implement the
\* contract.
ImplementsContract == Contract!Spec
=============================================================================
