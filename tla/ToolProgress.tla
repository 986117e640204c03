---------------------------- MODULE ToolProgress ----------------------------
(***************************************************************************)
(* The progress of one tool call: executePreparedToolCall                  *)
(* (packages/agent-core/src/agent-loop.ts). The tool reports replacement   *)
(* snapshots through forward() whenever it likes, also after it settled;   *)
(* deliver() hands them to a listener that may be slow or reject, at most  *)
(* one at a time, the newest replacing the one that waits; the loop stops  *)
(* accepting, waits for the drain and returns the result.                  *)
(* Frame k is the k-th forwarded snapshot, 0 stands for no frame.          *)
(***************************************************************************)
EXTENDS Naturals

CONSTANT MaxFrames  \* bound: calls of forward()

VARIABLES
  tool,             \* "running", then how execute() settled: "ok" or "error"
  call,             \* "executing", "draining" (awaiting idle), "finished"
  frames,           \* forward() calls so far
  accepted,         \* the newest frame forward() accepted
  acceptingUpdates,
  delivering,       \* deliver() is in its loop
  pending,          \* the frame that waits
  inFlight,         \* the frame the listener is handling
  delivered,        \* the newest frame a listener has taken
  deliveryFailure,  \* a listener rejected
  isError           \* of the result returned to the loop

vars == <<tool, call, frames, accepted, acceptingUpdates, delivering, pending,
          inFlight, delivered, deliveryFailure, isError>>

Init ==
  /\ tool = "running" /\ call = "executing"
  /\ frames = 0 /\ accepted = 0
  /\ acceptingUpdates = TRUE /\ delivering = FALSE
  /\ pending = 0 /\ inFlight = 0 /\ delivered = 0
  /\ deliveryFailure = FALSE /\ isError = FALSE

-----------------------------------------------------------------------------
KeepWaiting(frame) == IF pending = 0 THEN frame ELSE pending  \* mutant
\* The frame that waits once `frame' arrives while another is being delivered.
Newest(frame) == frame

\* forward(): dropped once the tool's result is in; otherwise the frame waits,
\* and when nothing is being delivered, deliver() takes it at once.
Forward ==
  /\ frames < MaxFrames
  /\ frames' = frames + 1
  /\ IF acceptingUpdates
     THEN /\ accepted' = frames'
          /\ IF delivering
             THEN /\ pending' = Newest(frames')
                  /\ UNCHANGED <<inFlight, delivering>>
             ELSE /\ pending' = 0 /\ inFlight' = frames'
                  /\ delivering' = TRUE
     ELSE UNCHANGED <<accepted, pending, inFlight, delivering>>
  /\ UNCHANGED <<tool, call, acceptingUpdates, delivered, deliveryFailure, isError>>

\* The listener took the frame: deliver() goes on with the one that waits.
ListenerDone ==
  /\ inFlight # 0
  /\ delivered' = inFlight
  /\ inFlight' = pending /\ pending' = 0
  /\ delivering' = (pending # 0)
  /\ UNCHANGED <<tool, call, frames, accepted, acceptingUpdates,
                 deliveryFailure, isError>>

DrainHangs == delivering' = delivering  \* mutant: no finally
DrainEnds == delivering' = FALSE

\* The listener rejects: deliver() ends, the failure is kept for the result,
\* and a frame that waits stays where it is until the next forward().
ListenerRejects ==
  /\ inFlight # 0
  /\ DrainEnds /\ inFlight' = 0
  /\ deliveryFailure' = TRUE
  /\ UNCHANGED <<tool, call, frames, accepted, acceptingUpdates, pending,
                 delivered, isError>>

ToolSettles(how) ==
  /\ tool = "running"
  /\ tool' = how
  /\ UNCHANGED <<call, frames, accepted, acceptingUpdates, delivering, pending,
                 inFlight, delivered, deliveryFailure, isError>>

\* The await of execute() resumes: no frame is accepted from here on.
StopAccepting ==
  /\ call = "executing" /\ tool # "running"
  /\ acceptingUpdates' = FALSE
  /\ call' = "draining"
  /\ UNCHANGED <<tool, frames, accepted, delivering, pending, inFlight,
                 delivered, deliveryFailure, isError>>

NothingAwaited == TRUE  \* mutant: the result does not wait for the drain
Idle == ~delivering

\* The await of `idle' resumes: the result goes back to the loop.
ReturnResult ==
  /\ call = "draining" /\ Idle
  /\ call' = "finished"
  /\ isError' = (tool = "error" \/ deliveryFailure)
  /\ UNCHANGED <<tool, frames, accepted, acceptingUpdates, delivering, pending,
                 inFlight, delivered, deliveryFailure>>

Listener == ListenerDone \/ ListenerRejects

Next ==
  \/ Forward
  \/ Listener
  \/ \E how \in {"ok", "error"} : ToolSettles(how)
  \/ StopAccepting
  \/ ReturnResult

Spec == Init /\ [][Next]_vars

-----------------------------------------------------------------------------
\* The variables' types; no frame is numbered beyond the frames forwarded.
TypeOK ==
  /\ tool \in {"running", "ok", "error"}
  /\ call \in {"executing", "draining", "finished"}
  /\ frames \in Nat
  /\ accepted \in 0..frames /\ pending \in 0..frames
  /\ inFlight \in 0..frames /\ delivered \in 0..frames
  /\ acceptingUpdates \in BOOLEAN /\ delivering \in BOOLEAN
  /\ deliveryFailure \in BOOLEAN /\ isError \in BOOLEAN

\* When the result is returned, the listener has taken the newest snapshot the
\* tool reported before it, however many were replaced on the way, unless a
\* listener rejected, and then the result says so.
NewestBeforeResult ==
  call = "finished" => delivered = accepted \/ (deliveryFailure /\ isError)

\* Progress never follows completion: once the result is out no listener is
\* handling a frame and none waits to be handled, although the tool may still
\* call forward().
SilentAfterResult ==
  call = "finished" => inFlight = 0 /\ (pending = 0 \/ deliveryFailure)

\* The inductive form: the newest accepted frame is the one that waits, else
\* the one in flight, else the last one delivered; and frames advance.
Newness ==
  /\ delivering <=> inFlight # 0
  /\ inFlight # 0 => delivered < inFlight
  /\ pending # 0 /\ inFlight # 0 => inFlight < pending
  /\ ~deliveryFailure =>
       /\ pending # 0 => inFlight # 0
       /\ accepted = IF pending # 0 THEN pending
                     ELSE IF inFlight # 0 THEN inFlight ELSE delivered
  /\ acceptingUpdates <=> call = "executing"
  /\ call = "finished" => inFlight = 0 /\ (deliveryFailure => isError)
=============================================================================
