-------------------------- MODULE AssistantStream --------------------------
(***************************************************************************)
(* One provider response: the generator normalizeProviderStream, which     *)
(* turns every way a provider stream can end into one terminal event, and  *)
(* its consumer streamAssistantResponse, which keeps the response in the   *)
(* loop's context and emits the message events                             *)
(* (packages/agent-core/src/agent-loop.ts).                                *)
(*                                                                         *)
(* The provider may fail before its first event, send updates before or    *)
(* without a start, throw, or close without a terminal event; a subscriber *)
(* of the emitted events may be slow and may reject; closing the stream    *)
(* after its terminal event may throw.  A provider sends start at most     *)
(* once (its contract, external).  The hooks that build the request run    *)
(* before and are not modelled here.                                       *)
(***************************************************************************)
EXTENDS Naturals, Sequences

CONSTANT MaxUpdates  \* bound: update events of the provider

VARIABLES
  stream,        \* "creating", "open", "ended": no more event comes out of it
  event,         \* the event the consumer is handling, "none" in between
  started,       \* the provider has sent its start event
  updates,       \* update events sent
  aborted,
  addedPartial,  \* the consumer put a partial message in the context
  context,       \* entries this response has in the context, as their kinds
  starts, ends,  \* message_start and message_end events emitted
  stop,          \* kind of the terminal event
  response       \* "pending", "returned" or "threw"

vars == <<stream, event, started, updates, aborted, addedPartial, context,
          starts, ends, stop, response>>

Events == {"none", "start", "update", "terminal"}
Stops == {"none", "done", "error", "aborted"}

Init ==
  /\ stream = "creating" /\ event = "none"
  /\ started = FALSE /\ updates = 0
  /\ aborted \in BOOLEAN
  /\ addedPartial = FALSE /\ context = << >>
  /\ starts = 0 /\ ends = 0
  /\ stop = "none" /\ response = "pending"

Abort ==
  /\ ~aborted
  /\ aborted' = TRUE
  /\ UNCHANGED <<stream, event, started, updates, addedPartial, context, starts,
                 ends, stop, response>>

-----------------------------------------------------------------------------
(* normalizeProviderStream *)

Waiting == response = "pending" /\ event = "none"

Create ==
  /\ Waiting /\ stream = "creating"
  /\ stream' = "open"
  /\ UNCHANGED <<event, started, updates, aborted, addedPartial, context, starts,
                 ends, stop, response>>

\* The consumer handles a start event: the partial enters the context.
Start ==
  /\ Waiting /\ stream = "open" /\ ~started
  /\ event' = "start" /\ started' = TRUE
  /\ addedPartial' = TRUE
  /\ context' = context \o <<"partial">>
  /\ starts' = starts + 1
  /\ UNCHANGED <<stream, updates, aborted, ends, stop, response>>

\* An update before the start is dropped, any other replaces the partial.
Update ==
  /\ Waiting /\ stream = "open" /\ updates < MaxUpdates
  /\ updates' = updates + 1
  /\ event' = IF started THEN "update" ELSE "none"
  /\ UNCHANGED <<stream, started, aborted, addedPartial, context, starts, ends,
                 stop, response>>

\* The final message replaces the partial, or is pushed when there is none.
StoreFinal ==
  context' = IF addedPartial THEN [context EXCEPT ![Len(context)] = "final"]
                             ELSE context \o <<"final">>

\* The consumer handles a terminal event: message_end, after a message_start
\* when the response never started.
Terminal(kind) ==
  /\ event' = "terminal" /\ stop' = kind
  /\ StoreFinal
  /\ starts' = IF addedPartial THEN starts ELSE starts + 1
  /\ ends' = ends + 1
  /\ UNCHANGED <<started, updates, aborted, addedPartial, response>>

ProviderEnds(kind) ==
  /\ Waiting /\ stream = "open"
  /\ kind = "aborted" => aborted
  /\ stream' = "ended"
  /\ Terminal(kind)

NormalizedTwice ==  \* mutant: a failure behind the terminal is normalized too
  /\ event = "none" /\ (response = "threw" \/ stream # "ended")
  /\ ends <= 1
  /\ stream' = "ended"
  /\ Terminal(IF aborted THEN "aborted" ELSE "error")

\* Creating the stream throws, or the open stream throws or closes early: the
\* normalizer ends it with an error made of what has arrived.
Interrupted ==
  /\ Waiting /\ stream \in {"creating", "open"}
  /\ stream' = "ended"
  /\ Terminal(IF aborted THEN "aborted" ELSE "error")

-----------------------------------------------------------------------------
(* The subscribers of the emitted event *)

Handled ==
  /\ event \in {"start", "update"}
  /\ event' = "none"
  /\ UNCHANGED <<stream, started, updates, aborted, addedPartial, context, starts,
                 ends, stop, response>>

Return ==
  /\ event = "terminal"
  /\ event' = "none" /\ response' = "returned"
  /\ UNCHANGED <<stream, started, updates, aborted, addedPartial, context, starts,
                 ends, stop>>

\* A subscriber rejects, or closing the provider stream behind its terminal
\* event throws: the error escapes, nothing more is emitted.
Reject ==
  /\ event # "none"
  /\ event' = "none" /\ response' = "threw"
  /\ UNCHANGED <<stream, started, updates, aborted, addedPartial, context, starts,
                 ends, stop>>

Step ==
  \/ Create \/ Start \/ Update
  \/ \E kind \in {"done", "error", "aborted"} : ProviderEnds(kind)
  \/ Interrupted \/ Handled \/ Return \/ Reject

Next == Step \/ Abort

Spec == Init /\ [][Next]_vars

-----------------------------------------------------------------------------
\* However the provider ends, the response leaves exactly one message behind:
\* one message_start, one message_end, and one entry in the context, the final
\* message; and never a second terminal, not even when the first is rejected.
OneTerminal ==
  /\ starts <= 1 /\ ends <= starts
  /\ response = "returned" => ends = 1 /\ context = <<"final">>
=============================================================================
