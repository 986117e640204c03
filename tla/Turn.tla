-------------------------------- MODULE Turn --------------------------------
(***************************************************************************)
(* One assistant turn of runLoop (packages/agent-core/src/agent-loop.ts),  *)
(* put together from its parts: the response (AssistantStream), then, when *)
(* it was completed and asks for tools, the batch of its calls             *)
(* (ToolBatch), and inside one of these calls, the watched one, the        *)
(* progress of its tool (ToolProgress).                                    *)
(*                                                                         *)
(* The parts share one abort signal and one clock, that of the run.  The   *)
(* batch waits for the response, the result of the watched call for the    *)
(* last frame of its progress, and the drain of a frame for listeners that *)
(* the batch, or the end of its run, may have left behind.                 *)
(***************************************************************************)
EXTENDS ToolBatch

CONSTANTS
  MaxUpdates,  \* bound: update events of the provider
  MaxFrames    \* bound: progress frames of the watched tool

ASSUME TurnAssumption == MaxUpdates \in Nat /\ MaxFrames \in Nat

VARIABLES
  stream, event, started, updates, addedPartial, context, starts, ends,
  stopReason, response,              \* of the response
  watched,                           \* the call whose progress is modelled
  tool, call, frames, accepted, acceptingUpdates, delivering, pending,
  inFlight, delivered, deliveryFailure, isError  \* of its progress

streamVars == <<stream, event, started, updates, addedPartial, context, starts,
                ends, stopReason, response>>
progressVars == <<tool, call, frames, accepted, acceptingUpdates, delivering,
                  pending, inFlight, delivered, deliveryFailure, isError>>
turnVars == <<vars, streamVars, watched, progressVars>>

Stream == INSTANCE AssistantStream WITH stop <- stopReason
Progress == INSTANCE ToolProgress

TurnInit == Init /\ Stream!Init /\ Progress!Init /\ watched \in Calls
-----------------------------------------------------------------------------
ResponseStep ==
  /\ Stream!Step
  /\ UNCHANGED <<vars, watched, progressVars>>

\* The response is complete and its calls are to be executed.
InBatch == response = "returned" /\ stopReason = "done"

\* The tool of the watched call has been executed, and may still be.
Launched == watched \in ran

\* A step of the batch, but the outcome of the watched call is known when its
\* progress has been drained.
BatchStep ==
  /\ InBatch
  /\ \/ StartCall \/ PrepareCall \/ ExecuteCall \/ EndCall
     \/ \E block \in BOOLEAN : RefuseCall(block)
     \/ \E c \in Calls, f \in Flags :
          (c = watched => call = "finished") /\ SettleCall(c, f)
     \/ EmitSequentialResult \/ NextCall \/ LaunchPrepared \/ CollectResults
     \/ \E c \in Calls : EndLaunchedCall(c) \/ LoseCall(c)
     \/ EmitParallelResult \/ Return
     \/ ReportFailure \/ FinishRun
  /\ UNCHANGED <<streamVars, watched, progressVars>>

\* A subscriber rejects an event of the batch.
BatchRejects ==
  /\ InBatch
  /\ RejectEvent \/ \E c \in Calls : RejectEnd(c)
  /\ UNCHANGED <<streamVars, watched, progressVars>>

\* The tool reports, also when it has settled or the run is over.
ToolForwards ==
  /\ Launched /\ Progress!Forward
  /\ UNCHANGED <<vars, streamVars, watched>>

\* The drain of the progress, and the call's own steps.  When the run is over,
\* the next frame is rejected at once; one in flight may still be taken.
ProgressStep ==
  /\ Launched
  /\ \/ Progress!Listener
     \/ \E how \in {"ok", "error"} : Progress!ToolSettles(how)
     \/ Progress!StopAccepting
     \/ Progress!ReturnResult
  /\ UNCHANGED <<vars, streamVars, watched>>

AbortTurn ==
  /\ Abort
  /\ UNCHANGED <<streamVars, watched, progressVars>>

TurnNext ==
  \/ ResponseStep \/ BatchStep \/ BatchRejects \/ ToolForwards \/ ProgressStep
  \/ AbortTurn

TurnSpec == TurnInit /\ [][TurnNext]_turnVars

\* The provider, hooks, tools and subscribers settle; each part has its own
\* turn, whatever the tool forwards.
FairTurn ==
  /\ TurnSpec
  /\ WF_turnVars(ResponseStep) /\ WF_turnVars(BatchStep)
  /\ WF_turnVars(ProgressStep)
-----------------------------------------------------------------------------
\* However the provider ends, the response leaves one final message in the
\* context (AssistantStream), and no tool runs for a message that is not complete:
\* a call of a failed or aborted response is never executed.
OneTerminal ==
  /\ Stream!OneTerminal
  /\ ran # {} => context = <<"final">> /\ stopReason = "done" /\ ends = 1

\* When the watched call has its outcome, listeners have taken the newest frame its
\* tool reported, unless one rejected, and then the result says so.
NewestBeforeResult ==
  (Launched /\ state[watched] # "executing") =>
    Progress!NewestBeforeResult /\ call = "finished"

\* No progress of a call follows its end, although its tool may still report:
\* not in the batch, nor when the batch has failed around it.
SilentAfterResult ==
  (Launched /\ state[watched] # "executing") =>
    inFlight = 0 /\ (pending = 0 \/ deliveryFailure)

\* A turn comes to an end: the response fails, or every call of its batch is
\* answered, or the failure is reported; slow and rejecting listeners of the
\* progress do not hold it up.  And a tool that was started is not left behind
\* by a batch that failed: its call ends, or its end is refused as the run is over.
TurnEnds ==
  /\ <>(\/ response = "threw"
        \/ response = "returned" /\ stopReason # "done"
        \/ pc \in {"returned", "over"})
  /\ Launched ~> state[watched] \in {"ended", "lost"}
=============================================================================
