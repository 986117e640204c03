------------------------- MODULE ToolBatchContract -------------------------
(***************************************************************************)
(* What executeToolCalls promises runLoop about one assistant message: the *)
(* results come one by one in the order of the calls; the batch returns    *)
(* when every call has one, or after an abort when at least one has; its   *)
(* flags agree. Agent is built on this (EmitToolResult, FinishBatch).      *)
(***************************************************************************)
EXTENDS Naturals

CONSTANT MaxCalls  \* bound: tool calls in one assistant message

VARIABLES
  truncated,   \* the message was cut off by the token limit
  calls,       \* number of tool calls in the message
  answered,    \* results emitted so far
  aborted,
  batch,       \* "open", "returned" or "failed"
  terminate,   \* no further request is needed
  stopTurn     \* the run must end with this turn

vars == <<truncated, calls, answered, aborted, batch, terminate, stopTurn>>

Init ==
  /\ truncated \in BOOLEAN
  /\ calls \in 1..MaxCalls
  /\ answered = 0 /\ batch = "open"
  /\ aborted \in BOOLEAN
  /\ terminate = FALSE /\ stopTurn = FALSE

Abort ==
  /\ aborted' = TRUE
  /\ UNCHANGED <<truncated, calls, answered, batch, terminate, stopTurn>>

EmitResult ==
  /\ batch = "open" /\ answered < calls
  /\ answered' = answered + 1
  /\ UNCHANGED <<truncated, calls, aborted, batch, terminate, stopTurn>>

Return ==
  /\ batch = "open" /\ answered > 0
  /\ answered = calls \/ (aborted /\ ~truncated)
  /\ batch' = "returned"
  /\ terminate' \in BOOLEAN /\ stopTurn' \in BOOLEAN
  /\ stopTurn' => terminate'
  /\ truncated => ~terminate'
  /\ UNCHANGED <<truncated, calls, answered, aborted>>

\* A subscriber rejected: the batch throws out of the loop.
Throw ==
  /\ batch = "open"
  /\ batch' = "failed"
  /\ UNCHANGED <<truncated, calls, answered, aborted, terminate, stopTurn>>

Next == Abort \/ EmitResult \/ Return \/ Throw

Spec == Init /\ [][Next]_vars
=============================================================================
