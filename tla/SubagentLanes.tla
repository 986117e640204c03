--------------------------- MODULE SubagentLanes ---------------------------
(***************************************************************************)
(* The background lanes of one session:                                    *)
(* src/packages/coding-agent/src/features/subagent/lane-lifecycle.ts.      *)
(*                                                                         *)
(* A lane runs one turn at a time.  Every turn start and every stop bumps  *)
(* the lane's generation, and each promise callback compares the           *)
(* generation (and the session epoch that shutdown bumps) it was made for  *)
(* with the current one.  What can interleave with a callback is modelled  *)
(* as it is in the code: a run that settles after it was interrupted       *)
(* (runs), the wind-down a stop waits for (windDowns), the answer writes   *)
(* chained on the lane (writes) and the terminal notice that awaits them   *)
(* and then a file write (deliveries).                                     *)
(*                                                                         *)
(* Not here: the child processes and their idle timer, the snapshots for   *)
(* the UI, progress notices, and a reply that a live child takes itself    *)
(* (it changes nothing below).  A lane's updatedAt matters only to compare *)
(* finished lanes, so the order in which they finished stands for it.      *)
(***************************************************************************)
EXTENDS Naturals, Sequences, FiniteSets

CONSTANTS
  Lanes,           \* the lane records this session ever makes
  MaxRunning,      \* MAX_RUNNING_LANES
  MaxRetained,     \* MAX_RETAINED_FINISHED_LANES
  MaxGeneration,   \* bound: generations each lane goes through
  MaxQueued,       \* bound: prompts queued on one lane
  MaxEpoch,        \* bound: shutdowns
  MaxWrites        \* bound: answer writes in flight on one lane

ASSUME LanesAssumption ==
  /\ IsFiniteSet(Lanes)
  /\ MaxRunning \in Nat \ {0}
  /\ {MaxRetained, MaxQueued, MaxEpoch, MaxWrites} \subseteq Nat
  /\ MaxGeneration \in [Lanes -> Nat]

VARIABLES
  lanes,             \* the ids agent_send can still name
  status,            \* lane.status, "none" before the launch
  runGeneration,     \* lane.runGeneration
  started,           \* the generation of the current turn: retentionOwners
  epoch,             \* bumped by shutdown
  laneEpoch,         \* laneEpochs
  queuedPrompts,     \* how many prompts wait on the lane
  finishedBefore,    \* <<k, l>>: k finished with an older updatedAt than l
  runs,              \* <<lane, generation>>: lane.promise not settled yet
  windDowns,         \* <<lane, run, generation>>: a stop awaiting its run
  deliveries,        \* [lane, gen, at]: deliverFinal calls in flight
  pendingFinal,      \* the WeakSet of lanes
  answered,          \* the current turn handed over a completed response
  writes,            \* lane.completionWrites: generations still to be written
  journaled,         \* the current turn's response is in the parent journal
  completionError,   \* lane.completionError is set
  notices            \* terminal notices sent since the current turn started

laneVars == <<lanes, status, runGeneration, started, laneEpoch, queuedPrompts,
              finishedBefore, epoch>>
noticeVars == <<runs, windDowns, deliveries, pendingFinal, notices>>
answerVars == <<answered, writes, journaled, completionError>>
vars == <<laneVars, noticeVars, answerVars>>

Generations == UNION {1 .. MaxGeneration[l] : l \in Lanes}
Finished == {"completed", "failed", "aborted"}

Init ==
  /\ lanes = {}
  /\ status = [l \in Lanes |-> "none"]
  /\ runGeneration = [l \in Lanes |-> 0]
  /\ started = [l \in Lanes |-> 0]
  /\ epoch = 0
  /\ laneEpoch = [l \in Lanes |-> 0]
  /\ queuedPrompts = [l \in Lanes |-> 0]
  /\ finishedBefore = {}
  /\ runs = {} /\ windDowns = {} /\ deliveries = {} /\ pendingFinal = {}
  /\ answered = {} /\ journaled = {}
  /\ writes = [l \in Lanes |-> << >>]
  /\ completionError = [l \in Lanes |-> FALSE]
  /\ notices = [l \in Lanes |-> 0]

----------------------------------------------------------------------------
(* Helpers.                                                                *)

IsCurrent(l, g) == laneEpoch[l] = epoch /\ runGeneration[l] = g

Running == {l \in lanes : status[l] = "running"}
\* Mutant of BelowLimit: the limit counted after the reservation.
BelowLimitLate == Cardinality(Running) <= MaxRunning

BelowLimit == Cardinality(Running) < MaxRunning

\* The lanes evictFinishedLanes looks at, and the order it sorts them by: the
\* last to finish is the newest, and a lane that is started again has no place.
Kept == {l \in lanes : status[l] \in Finished}
Without(S) == {p \in finishedBefore : p[1] \notin S /\ p[2] \notin S}
WithNewest(l) == Without({l}) \cup ((Kept \ {l}) \X {l})

\* startLane, up to the launch of the run.
StartLane(l) ==
  LET g == runGeneration[l] + 1 IN
  /\ g <= MaxGeneration[l]
  /\ runGeneration' = [runGeneration EXCEPT ![l] = g]
  /\ started' = [started EXCEPT ![l] = g]
  /\ status' = [status EXCEPT ![l] = "running"]
  /\ completionError' = [completionError EXCEPT ![l] = FALSE]
  /\ finishedBefore' = Without({l})
  /\ answered' = answered \ {l} /\ journaled' = journaled \ {l}
  /\ notices' = [notices EXCEPT ![l] = 0]

\* Mutant of Evicted: nothing is forgotten.
EvictedNever(pending) == {}

\* evictFinishedLanes: the finished lanes, those in pending not counted, that
\* have as many newer ones among them as may be kept.
Evicted(pending) ==
  LET candidates == Kept \ pending
      newer(l) == {k \in candidates : <<l, k>> \in finishedBefore}
  IN  {l \in candidates : Cardinality(newer(l)) >= MaxRetained}

----------------------------------------------------------------------------
(* What agent_send, subagent and session_shutdown call.                    *)

LaunchLane(l) ==
  /\ status[l] = "none"
  /\ BelowLimit
  /\ lanes' = lanes \cup {l}
  /\ laneEpoch' = [laneEpoch EXCEPT ![l] = epoch]
  /\ StartLane(l)
  /\ runs' = runs \cup {<<l, 1>>}
  /\ UNCHANGED <<epoch, queuedPrompts, windDowns, deliveries, pendingFinal,
                 writes>>

\* Mutant of StopLane: the generation is not bumped, so the interrupted run's
\* own callback is still current.
StopSameGeneration(l) ==
  LET g == runGeneration[l] IN
  /\ l \in lanes
  /\ status[l] = "running"
  /\ g <= MaxGeneration[l]
  /\ queuedPrompts' = [queuedPrompts EXCEPT ![l] = 0]
  /\ status' = [status EXCEPT ![l] = "aborted"]
  /\ finishedBefore' = WithNewest(l)
  /\ pendingFinal' = pendingFinal \cup {l}
  /\ windDowns' = windDowns \cup {<<l, started[l], g>>}
  /\ UNCHANGED <<lanes, started, runGeneration, epoch, laneEpoch, runs,
                 deliveries, notices, answerVars>>

\* stopLane of a running lane; of a finished one it only ends idle children.
StopLane(l) ==
  LET g == runGeneration[l] + 1 IN
  /\ l \in lanes
  /\ status[l] = "running"
  /\ g <= MaxGeneration[l]
  /\ queuedPrompts' = [queuedPrompts EXCEPT ![l] = 0]
  /\ runGeneration' = [runGeneration EXCEPT ![l] = g]
  /\ status' = [status EXCEPT ![l] = "aborted"]
  /\ finishedBefore' = WithNewest(l)
  /\ pendingFinal' = pendingFinal \cup {l}
  /\ windDowns' = windDowns \cup {<<l, started[l], g>>}
  /\ UNCHANGED <<lanes, started, epoch, laneEpoch, runs, deliveries, notices,
                 answerVars>>

\* replyToLane without interrupt while a turn runs that no live child takes.
QueuePrompt(l) ==
  /\ l \in lanes
  /\ status[l] = "running"
  /\ queuedPrompts[l] < MaxQueued
  /\ queuedPrompts' = [queuedPrompts EXCEPT ![l] = @ + 1]
  /\ UNCHANGED <<lanes, status, runGeneration, started, laneEpoch, finishedBefore,
                 epoch, noticeVars, answerVars>>

\* replyToLane, interrupt: the run is aborted and the next one started.
InterruptLane(l) ==
  /\ l \in lanes
  /\ status[l] = "running"
  /\ queuedPrompts' = [queuedPrompts EXCEPT ![l] = 0]
  /\ StartLane(l)
  /\ runs' = runs \cup {<<l, runGeneration[l] + 1>>}
  /\ UNCHANGED <<lanes, epoch, laneEpoch, windDowns, deliveries, pendingFinal,
                 writes>>

\* replyToLane of a finished lane: another turn, within the limit.
ReplyToFinished(l) ==
  /\ l \in lanes
  /\ status[l] \in Finished
  /\ BelowLimit
  /\ StartLane(l)
  /\ runs' = runs \cup {<<l, runGeneration[l] + 1>>}
  /\ UNCHANGED <<lanes, epoch, laneEpoch, queuedPrompts, windDowns, deliveries,
                 pendingFinal, writes>>

Shutdown ==
  /\ epoch < MaxEpoch
  /\ epoch' = epoch + 1
  /\ lanes' = {}
  /\ queuedPrompts' = [l \in Lanes |-> IF l \in lanes THEN 0 ELSE queuedPrompts[l]]
  /\ runGeneration' = [l \in Lanes |-> IF l \in lanes THEN runGeneration[l] + 1
                                                     ELSE runGeneration[l]]
  /\ status' = [l \in Lanes |-> IF l \in Running THEN "aborted" ELSE status[l]]
  /\ finishedBefore' = {}
  /\ UNCHANGED <<started, laneEpoch, noticeVars, answerVars>>

----------------------------------------------------------------------------
(* The run of a turn.                                                      *)

\* onCompletedResponse: the write is chained on the lane.
CompleteResponse(l, g) ==
  /\ <<l, g>> \in runs
  /\ l \notin answered
  /\ IsCurrent(l, g)
  /\ Len(writes[l]) < MaxWrites
  /\ answered' = answered \cup {l}
  /\ writes' = [writes EXCEPT ![l] = Append(@, g)]
  /\ UNCHANGED <<laneVars, noticeVars, journaled, completionError>>

\* The oldest chained write succeeds, or fails; both concern the current turn
\* only if no turn started since. Some time after the shutdown, the lane's
\* retention is closed and the write is dropped.
WriteAnswer(l) ==
  LET g == Head(writes[l]) IN
  /\ writes[l] # << >>
  /\ writes' = [writes EXCEPT ![l] = Tail(@)]
  /\ \/ /\ journaled' = IF g = started[l] THEN journaled \cup {l} ELSE journaled
        /\ UNCHANGED completionError
     \/ /\ completionError' = [completionError EXCEPT ![l] = @ \/ g = started[l]]
        /\ UNCHANGED journaled
     \/ laneEpoch[l] < epoch /\ UNCHANGED <<journaled, completionError>>
  /\ UNCHANGED <<laneVars, noticeVars, answered>>

NewDelivery(l, g) == [lane |-> l, gen |-> g, at |-> "writes"]

\* The turn ended and nothing is queued: deliverFinal starts.
FinishLane(l, g, outcome) ==
  /\ status' = [status EXCEPT ![l] = outcome]
  /\ finishedBefore' = WithNewest(l)
  /\ deliveries' = deliveries \cup {NewDelivery(l, g)}
  /\ pendingFinal' = pendingFinal \cup {l}
  /\ UNCHANGED <<lanes, runGeneration, started, laneEpoch, epoch, windDowns,
                 notices, answerVars>>

\* The run's promise resolves.  A failed result and a completed one are
\* treated alike; both are "completed" here.
RunResolves(l, g) ==
  /\ <<l, g>> \in runs
  /\ IsCurrent(l, g)
  /\ \/ /\ queuedPrompts[l] > 0
        /\ queuedPrompts' = [queuedPrompts EXCEPT ![l] = @ - 1]
        /\ StartLane(l)
        /\ runs' = (runs \ {<<l, g>>}) \cup {<<l, g + 1>>}
        /\ UNCHANGED <<lanes, epoch, laneEpoch, windDowns, deliveries,
                       pendingFinal, writes>>
     \/ \E outcome \in {"completed", "aborted"} :
          /\ queuedPrompts[l] = 0 \/ outcome = "aborted"
          /\ queuedPrompts' = [queuedPrompts EXCEPT ![l] = 0]
          /\ FinishLane(l, g, outcome)
          /\ runs' = runs \ {<<l, g>>}

\* The run's promise rejects: the queued prompts stay.
RunRejects(l, g) ==
  /\ <<l, g>> \in runs
  /\ IsCurrent(l, g)
  /\ FinishLane(l, g, "failed")
  /\ runs' = runs \ {<<l, g>>}
  /\ UNCHANGED queuedPrompts

\* A run that was stopped, interrupted or shut down settles: its callback is
\* not current.
StaleRunSettles(l, g) ==
  /\ <<l, g>> \in runs
  /\ ~IsCurrent(l, g)
  /\ runs' = runs \ {<<l, g>>}
  /\ UNCHANGED <<laneVars, windDowns, deliveries, pendingFinal, notices,
                 answerVars>>

\* Mutant of WindDown: it gives its mark back without delivering.
WindDownSilently(l, run, g) ==
  /\ <<l, run, g>> \in windDowns
  /\ <<l, run>> \notin runs
  /\ windDowns' = windDowns \ {<<l, run, g>>}
  /\ pendingFinal' = pendingFinal \ {l}
  /\ UNCHANGED <<laneVars, runs, deliveries, notices, answerVars>>

\* The callback stopLane chained on the interrupted run.
WindDown(l, run, g) ==
  /\ <<l, run, g>> \in windDowns
  /\ <<l, run>> \notin runs
  /\ windDowns' = windDowns \ {<<l, run, g>>}
  /\ \/ /\ IsCurrent(l, g)
        /\ status[l] = "aborted"
        /\ deliveries' = deliveries \cup {NewDelivery(l, g)}
        /\ pendingFinal' = pendingFinal \cup {l}
     \/ /\ ~(IsCurrent(l, g) /\ status[l] = "aborted")
        /\ pendingFinal' = pendingFinal \ {l}
        /\ UNCHANGED deliveries
  /\ UNCHANGED <<laneVars, runs, notices, answerVars>>

----------------------------------------------------------------------------
(* deliverFinal.                                                           *)

\* Mutant of WritesDone: the chain is not awaited.
WritesIgnored(d) == TRUE

\* The chain the delivery captured has no write left.
WritesDone(d) == \A i \in DOMAIN writes[d.lane] : writes[d.lane][i] > d.gen

\* The finally block: the mark goes, and so do the oldest finished lanes.
EndDelivery(d) ==
  LET pending == pendingFinal \ {d.lane}
      gone == IF laneEpoch[d.lane] = epoch THEN Evicted(pending) ELSE {}
  IN  /\ deliveries' = deliveries \ {d}
      /\ pendingFinal' = pending
      /\ lanes' = lanes \ gone
      /\ finishedBefore' = Without(gone)
      /\ UNCHANGED <<status, runGeneration, started, laneEpoch, queuedPrompts,
                     epoch, runs, windDowns, answerVars>>

AwaitWrites(d) ==
  /\ d \in deliveries /\ d.at = "writes"
  /\ WritesDone(d)
  /\ \/ /\ IsCurrent(d.lane, d.gen)
        /\ deliveries' = (deliveries \ {d}) \cup {[d EXCEPT !.at = "view"]}
        /\ UNCHANGED <<laneVars, runs, windDowns, pendingFinal, notices,
                       answerVars>>
     \/ ~IsCurrent(d.lane, d.gen) /\ EndDelivery(d) /\ UNCHANGED notices

\* Mutant of SendNotice: what was checked before the await is taken to hold.
SendUnchecked(d) ==
  /\ d \in deliveries /\ d.at = "view"
  /\ notices' = [notices EXCEPT ![d.lane] = @ + 1]
  /\ EndDelivery(d)

\* The final view is built (and its output saved): the notice goes out if the
\* delivery is still current.
SendNotice(d) ==
  /\ d \in deliveries /\ d.at = "view"
  /\ notices' = IF IsCurrent(d.lane, d.gen)
                THEN [notices EXCEPT ![d.lane] = @ + 1] ELSE notices
  /\ EndDelivery(d)

----------------------------------------------------------------------------
Callbacks(l) ==
  \/ WriteAnswer(l)
  \/ \E g \in Generations :
       \/ RunResolves(l, g) \/ RunRejects(l, g) \/ StaleRunSettles(l, g)
       \/ \E run \in Generations : WindDown(l, run, g)
  \/ \E d \in deliveries : d.lane = l /\ (AwaitWrites(d) \/ SendNotice(d))

Next ==
  \/ \E l \in Lanes :
       \/ LaunchLane(l) \/ StopLane(l) \/ QueuePrompt(l) \/ InterruptLane(l)
       \/ ReplyToFinished(l)
       \/ \E g \in Generations : CompleteResponse(l, g)
       \/ Callbacks(l)
  \/ Shutdown

Spec == Init /\ [][Next]_vars

----------------------------------------------------------------------------
(* Properties.                                                             *)

(* However launches, replies to finished lanes, queued follow-ups and      *)
(* interrupts interleave, a session never runs more lanes than             *)
(* MAX_RUNNING_LANES: the check and the reservation are one step.          *)
RunningLimit == Cardinality(Running) <= MaxRunning

(* A turn is announced at most once: between two terminal notices of a     *)
(* lane a new turn has started, although a stopped turn has two callbacks  *)
(* that could announce it (its run's and the wind-down's).                 *)
OneNoticePerTurn == \A l \in Lanes : notices[l] <= 1

Sends(l) == notices'[l] > notices[l]

(* A notice goes out only for a lane of the live epoch whose turn is over: *)
(* never for a turn a reply has already restarted, and never after the     *)
(* session was shut down, however late the writes it waited for end.       *)
NoStaleNotice ==
  [][\A l \in Lanes :
       Sends(l) => status[l] \in Finished /\ laneEpoch[l] = epoch]_vars

(* The notice of a turn comes after what the turn answered: its answer is  *)
(* in the parent's journal, or its loss is in completionError, which the   *)
(* notice reports; a stop in between changes neither.                      *)
AnswersBeforeNotice ==
  [][\A l \in answered :
       Sends(l) => l \in journaled \/ completionError[l]]_vars

Announced == {l \in lanes : status[l] \in Finished /\ notices[l] > 0}

(* A session keeps at most MAX_RETAINED_FINISHED_LANES lanes whose end has *)
(* been announced, at every moment: every notice evicts what is too much,  *)
(* whichever marks earlier deliveries and wind-downs have left or cleared. *)
RetentionBounded == Cardinality(Announced) <= MaxRetained

Unannounced(l) ==
  /\ status[l] \in Finished
  /\ laneEpoch[l] = epoch
  /\ notices[l] = 0

(* No finish, failure or stop goes unannounced: as long as its notice is    *)
(* not out, and no new turn or shutdown came first, the delivery or the    *)
(* wind-down that will send it is under way.                               *)
FinishAnnounced ==
  \A l \in Lanes : Unannounced(l) =>
    \/ \E d \in deliveries : d.lane = l /\ d.gen = runGeneration[l]
    \/ \E run \in Generations : <<l, run, runGeneration[l]>> \in windDowns

=============================================================================
