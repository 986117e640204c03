---------------------------- MODULE GoalRuntime ----------------------------
(***************************************************************************)
(* The session goal: StepGoalRuntime and its extension, in                 *)
(* src/packages/coding-agent/src/features/step-schedule.ts.                *)
(*                                                                         *)
(* The runtime owns no loop.  It listens to the host's runs, and when one  *)
(* has settled it hands the host a message that starts the next.  A run    *)
(* has stages: before its first agent_start (compaction may take long, or  *)
(* end the run), attempts, pauses between attempts, and the settled event, *)
(* which reaches the goal only after other listeners, one of which may     *)
(* have started the next run.  The user's commands come at any time, and   *)
(* every write of the goal to the session may fail.                        *)
(*                                                                         *)
(* Every method is synchronous: one action.  A method that throws because  *)
(* the first of its two writes fails changes nothing and is left out.      *)
(* Left out too: the clock, the objective's text, goal ids (a run that     *)
(* participates does so for the present goal) and a host that throws.      *)
(***************************************************************************)
EXTENDS Naturals

CONSTANTS
  Budgets,      \* the token budgets a user may set; 0 is none
  MaxTokens,    \* bound: tokens of a run, and since a goal was set
  MaxPrompts,   \* bound: runs started by the user
  MaxSettles,   \* bound: settled events under way
  MaxQueue,     \* bound: continuations in the host's queue
  MaxRestarts   \* bound: restarts of the session

ASSUME GoalAssumption ==
  /\ Budgets \subseteq Nat
  /\ {MaxTokens, MaxPrompts, MaxSettles, MaxQueue, MaxRestarts} \subseteq Nat

VARIABLES
  g,            \* the runtime, and the goal last stored in the session
  host,         \* the host's run: "idle", "starting", "attempt" or "between"
  starter,      \* who started the attempt: "user" or "goal"
  aborting,     \* the run has been told to stop
  queue,        \* goal messages among the host's queued messages
  settles,      \* settled events that have not reached the goal
  prompts, restarts,
  hindered,     \* history: since the last agent_start, something kept the goal
                \* from asking for a run, or took away what it had asked for
  activeTokens, \* history: tokens of messages that ended while active
  allTokens     \* history: tokens since the goal was set

hostVars == <<host, starter, aborting, queue, settles, prompts, restarts,
              hindered>>
historyVars == <<activeTokens, allTokens>>
vars == <<g, hostVars, historyVars>>
---------------------------------------------------------------------------
NoGoal == [status |-> "none", used |-> 0, budget |-> 0]
NoRun == [on |-> FALSE, attempt |-> FALSE, driven |-> FALSE,
          participated |-> FALSE, tokens |-> 0, baseline |-> 0, base |-> 0]

\* sent: the method handed the host a continuation.
Fresh(goal) ==
  [goal |-> goal, stored |-> goal, run |-> NoRun, stop |-> "none",
   pending |-> FALSE, queued |-> FALSE, outstanding |-> FALSE, sent |-> FALSE]

Init ==
  /\ g = Fresh(NoGoal)
  /\ host = "idle" /\ starter = "user" /\ aborting = FALSE
  /\ queue = 0 /\ settles = 0 /\ prompts = 0 /\ restarts = 0
  /\ hindered = FALSE /\ activeTokens = 0 /\ allTokens = 0
---------------------------------------------------------------------------
(* The methods of the runtime, as functions of its state m. *)

Active(m) == m.goal.status = "active"
Exhausted(goal) == goal.budget > 0 /\ goal.used >= goal.budget

\* Memory follows a write that succeeds.
Store(m, goal) == [m EXCEPT !.goal = goal, !.stored = goal]
SetStatus(m, status) == Store(m, [m.goal EXCEPT !.status = status])

\* Mutant of Commit: a failed write leaves the changed memory.
CommitKept(m, changed, ok) ==
  IF ok THEN [changed EXCEPT !.stored = changed.goal] ELSE changed

\* Memory is changed first, and rolled back when the write fails.
Commit(m, changed, ok) ==
  IF ok THEN [changed EXCEPT !.stored = changed.goal] ELSE m

\* accountRunProgress(): the run's tokens since the goal joined it.
Account(m) ==
  IF m.run.participated
  THEN Store(m, [m.goal EXCEPT !.used =
                   m.run.base + (m.run.tokens - m.run.baseline)])
  ELSE m

\* activateGoalInRun(): the goal joins the run, if there is one.
Join(m) ==
  IF m.run.on
  THEN [m EXCEPT !.run = [@ EXCEPT !.participated = TRUE, !.baseline = m.run.tokens,
                                   !.base = m.goal.used]]
  ELSE m

Leave(m) == [m EXCEPT !.run = [@ EXCEPT !.participated = FALSE]]
Become(m, status) == [m EXCEPT !.goal = [@ EXCEPT !.status = status]]
Quiet(m) == [m EXCEPT !.pending = FALSE, !.queued = FALSE]

\* requestContinuation(); busy: the host holds input that goes first.
Request(m, busy) ==
  IF ~Active(m) \/ m.queued \/ busy THEN m
  ELSE [m EXCEPT !.queued = TRUE, !.outstanding = TRUE,
                 !.pending = FALSE, !.sent = TRUE]

\* Mutant of OnAgentStart: the message asked for stays counted as queued.
OnAgentStartSticky(m) ==
  LET run == IF m.run.on THEN m.run ELSE NoRun
      started == [m EXCEPT
        !.run = [run EXCEPT !.on = TRUE, !.attempt = TRUE, !.driven = m.outstanding],
        !.outstanding = FALSE, !.stop = IF m.run.on THEN m.stop ELSE "none"]
  IN  IF Active(m) /\ ~started.run.participated THEN Join(started) ELSE started

OnAgentStart(m) ==
  LET run == IF m.run.on THEN m.run ELSE NoRun
      started == [m EXCEPT
        !.run = [run EXCEPT !.on = TRUE, !.attempt = TRUE, !.driven = m.outstanding],
        !.outstanding = FALSE, !.queued = FALSE,
        !.stop = IF m.run.on THEN m.stop ELSE "none"]
  IN  IF Active(m) /\ ~started.run.participated THEN Join(started) ELSE started

\* ok: the write of the progress made.
OnAgentEnd(m, outcome, ok) ==
  LET ended == [m EXCEPT !.run = [@ EXCEPT !.attempt = FALSE], !.stop = outcome]
  IN  IF ~m.run.participated THEN ended
      ELSE [(IF ok THEN Account(ended) ELSE ended) EXCEPT !.pending = Active(m)]

\* What the settled run means for an active goal.
Verdict(m, limit) ==
  CASE m.stop = "aborted" -> "paused"
    [] m.stop = "error" -> IF limit THEN "usage_limited" ELSE "blocked"
    [] OTHER -> IF Exhausted(m.goal) THEN "budget_limited" ELSE "active"

Decide(m, limit, ok, busy) ==
  LET verdict == Verdict(m, limit) IN
  IF verdict = "active"
  THEN Request([m EXCEPT !.run = NoRun, !.pending = TRUE], busy)
  ELSE IF ok THEN [SetStatus(Quiet(m), verdict) EXCEPT !.run = NoRun]
       ELSE [Quiet(m) EXCEPT !.pending = TRUE]

\* onAgentSettled(); accounted and ok: the two writes.
OnAgentSettled(m, limit, accounted, ok, busy) ==
  LET a == Account(m) IN
  CASE m.run.attempt -> m
    [] ~m.run.attempt /\ m.run.participated /\ ~accounted -> m
    [] ~m.run.attempt /\ (m.run.participated => accounted) ->
         IF a.goal.status = "none" \/ ~(m.run.participated \/ m.pending)
         THEN [a EXCEPT !.run = NoRun]
         ELSE IF ~Active(a) THEN [a EXCEPT !.run = NoRun, !.pending = FALSE]
         ELSE Decide(a, limit, ok, busy)

OnSessionReady(m, ok, busy) ==
  IF ~Active(m) \/ m.run.on THEN m
  ELSE IF ~Exhausted(m.goal) THEN Request([m EXCEPT !.pending = TRUE], busy)
  ELSE IF ok THEN [SetStatus(m, "budget_limited") EXCEPT !.pending = FALSE]
  ELSE [m EXCEPT !.pending = TRUE]

\* Mutant of SetPaused: the run's tokens are not accounted first.
SetPausedUncounted(m, ok) ==
  Commit(m, Quiet(Become(Leave(m), "paused")), ok)

\* setUserStatus("paused"), of an active goal.
SetPaused(m, ok) ==
  LET a == Account(m)
  IN  Commit(a, Quiet(Become(Leave(a), "paused")), ok)

\* setUserStatus("active"): without a run the goal asks for one at once.
SetActive(m, ok, limit, okStatus, busy) ==
  LET changed == [Become(m, "active") EXCEPT !.pending = TRUE, !.stop = "none"]
      active == Commit(m, changed, ok)
  IN  IF ~ok THEN active
      ELSE IF ~m.run.on THEN OnAgentSettled(active, limit, TRUE, okStatus, busy)
      ELSE IF m.run.participated THEN active ELSE Join(active)

\* setObjective(): editing a finished or exhausted goal reopens it.
SetObjective(m, ok) ==
  LET a == IF Active(m) THEN Account(m) ELSE m
      changed == [Become(a, "active") EXCEPT !.pending = TRUE, !.queued = FALSE,
                                             !.stop = "none"]
      edited == Commit(a, changed, ok)
  IN  IF ok /\ ~(Active(m) /\ m.run.participated) THEN Join(edited) ELSE edited

SetTokenBudget(m, budget, ok) ==
  LET a == IF Active(m) THEN Account(m) ELSE m
      next == [a.goal EXCEPT !.budget = budget]
      status == CASE next.status # "complete" /\ Exhausted(next) -> "budget_limited"
                  [] next.status = "budget_limited" /\ ~Exhausted(next) -> "paused"
                  [] OTHER -> next.status
      set == Store(a, [next EXCEPT !.status = status])
  IN  IF ~ok THEN a ELSE IF status = "active" THEN set ELSE Quiet(set)

\* update(), by the model's tool.
Update(m, status, ok) ==
  LET a == IF Active(m) THEN Account(m) ELSE m
  IN  Commit(a, [Become(a, status) EXCEPT !.pending = FALSE], ok)

\* start(), when there is no goal or a finished one.
StartGoal(m, budget, ok) ==
  LET goal == [status |-> "active", used |-> 0, budget |-> budget]
      started == Commit(m, Quiet([m EXCEPT !.goal = goal]), ok)
  IN  IF ok THEN Join(started) ELSE started

Clear(m, ok) ==
  LET a == IF Active(m) THEN Account(m) ELSE m
  IN  IF ok THEN [Quiet(Leave(Store(a, NoGoal))) EXCEPT !.stop = "none"] ELSE a

\* isContinuationRunActive() and isStaleContinuationAttempt().
ContinuationRunActive(m) ==
  Active(m) /\ m.run.attempt /\ m.run.driven /\ m.run.participated
StaleContinuation(m) == m.run.attempt /\ m.run.driven /\ ~Active(m)
---------------------------------------------------------------------------
(* What the host does with the runtime's answer m. *)

Settings == <<settles, prompts, restarts>>

\* A failed write, or a host with other input to run first, may hinder the goal.
Hinder(failed) == hindered' = (hindered \/ failed)

\* A continuation starts a run of an idle host, and is queued by a busy one.
\* abort: the command also stops the host's run.
Answer(m, abort) ==
  /\ g' = [m EXCEPT !.sent = FALSE]
  /\ queue + (IF m.sent THEN 1 ELSE 0) =< MaxQueue
  /\ IF m.sent /\ host = "idle"
     THEN /\ host' = "starting" /\ starter' = "goal" /\ aborting' = FALSE
          /\ UNCHANGED queue
     ELSE /\ queue' = queue + (IF m.sent THEN 1 ELSE 0)
          /\ aborting' = (aborting \/ (abort /\ host # "idle"))
          /\ UNCHANGED <<host, starter>>

Count(active, all) == activeTokens' = active /\ allTokens' = all
---------------------------------------------------------------------------
(* The host's runs. *)

Prompt ==
  /\ host = "idle" /\ prompts < MaxPrompts
  /\ prompts' = prompts + 1
  /\ host' = "starting" /\ starter' = "user" /\ aborting' = FALSE
  /\ UNCHANGED <<g, queue, settles, restarts, hindered, historyVars>>

\* agent_start; the extension stops an attempt whose goal is not active.
Begin(who) ==
  LET m == OnAgentStart(g)
  IN  /\ g' = m
      /\ host' = "attempt" /\ starter' = who
      /\ aborting' = (aborting \/ StaleContinuation(m))
      /\ hindered' = FALSE
      /\ UNCHANGED <<Settings, historyVars>>

AttemptStarts == host = "starting" /\ Begin(starter) /\ UNCHANGED queue

\* The run goes on with a retry, with what the user queued, or with a queued
\* continuation.
NextAttempt ==
  /\ host = "between" /\ ~aborting
  /\ \/ \E who \in {starter, "user"} : Begin(who) /\ UNCHANGED queue
     \/ queue > 0 /\ queue' = queue - 1 /\ Begin("goal")

\* A queued continuation joins the attempt that is running.
Drain ==
  /\ host = "attempt" /\ queue > 0
  /\ queue' = queue - 1
  /\ UNCHANGED <<g, host, starter, aborting, Settings, hindered, historyVars>>

MessageEnds ==
  /\ host = "attempt"
  /\ g.run.tokens < MaxTokens /\ allTokens < MaxTokens
  /\ g' = [g EXCEPT !.run = [@ EXCEPT !.tokens = g.run.tokens + 1]]
  /\ Count(IF Active(g) THEN activeTokens + 1 ELSE activeTokens, allTokens + 1)
  /\ UNCHANGED hostVars

AttemptEnds(outcome, ok) ==
  /\ host = "attempt"
  /\ outcome = "aborted" => aborting
  /\ g' = OnAgentEnd(g, outcome, ok)
  /\ host' = "between"
  /\ UNCHANGED <<starter, aborting, queue, Settings, hindered, historyVars>>

\* The run is over; one that stops before its first attempt has none.
RunEnds ==
  /\ host \in {"starting", "between"} /\ settles < MaxSettles
  /\ host' = "idle" /\ aborting' = FALSE
  /\ settles' = settles + 1
  /\ Hinder(host = "starting" /\ starter = "goal")
  /\ UNCHANGED <<g, starter, queue, prompts, restarts, historyVars>>

\* agent_settled reaches the goal.
Settled(failed, limit, accounted, ok, busy) ==
  /\ settles > 0
  /\ settles' = settles - 1
  /\ Answer(OnAgentSettled(IF failed THEN [g EXCEPT !.stop = "error"] ELSE g,
                           limit, accounted, ok, busy), FALSE)
  /\ Hinder(~accounted \/ ~ok \/ busy)
  /\ UNCHANGED <<prompts, restarts, historyVars>>

\* The user interrupts the run, and may take back what is queued.
Interrupt ==
  /\ host # "idle" /\ ~aborting
  /\ aborting' = TRUE
  /\ \/ UNCHANGED <<queue, hindered>>
     \/ queue > 0 /\ queue' = 0 /\ Hinder(TRUE)
  /\ UNCHANGED <<g, host, starter, settles, prompts, restarts, historyVars>>

\* The session ends, or its process dies, and is opened again.
Restart(ok) ==
  /\ restarts < MaxRestarts
  /\ restarts' = restarts + 1
  /\ LET m == OnSessionReady(Fresh(g.stored), ok, FALSE)
     IN  /\ g' = [m EXCEPT !.sent = FALSE]
         /\ host' = IF m.sent THEN "starting" ELSE "idle"
         /\ starter' = "goal"
  /\ aborting' = FALSE /\ queue' = 0 /\ settles' = 0 /\ hindered' = ~ok
  /\ Count(g.stored.used, g.stored.used)
  /\ UNCHANGED prompts
---------------------------------------------------------------------------
(* The model's tools and the user's commands. *)

SetGoal(budget, ok, busy) ==
  /\ g.goal.status \in {"none", "complete"}
  /\ Count(IF ok THEN 0 ELSE activeTokens, IF ok THEN 0 ELSE allTokens)
  /\ Hinder(busy)
  /\ UNCHANGED Settings
  /\ \/ /\ host = "attempt" /\ ~busy
        /\ Answer(StartGoal(g, budget, ok), FALSE)
     \/ /\ budget = 0
        /\ Answer(OnSessionReady(StartGoal(g, 0, ok), TRUE, busy), FALSE)

UpdateGoal(status, ok) ==
  /\ host = "attempt" /\ g.goal.status \in {"active", "budget_limited"}
  /\ Answer(Update(g, status, ok), FALSE)
  /\ UNCHANGED <<Settings, hindered, historyVars>>

Pause(ok) ==
  /\ Active(g)
  /\ Answer(SetPaused(g, ok), ok /\ ContinuationRunActive(g))
  /\ UNCHANGED <<Settings, hindered, historyVars>>

Resume(ok, okStatus, busy) ==
  /\ g.goal.status \in {"active", "paused", "blocked", "usage_limited"}
  /\ Answer(SetActive(g, ok, FALSE, okStatus, busy), FALSE)
  /\ Hinder(~okStatus \/ busy)
  /\ UNCHANGED <<Settings, historyVars>>

Edit(ok, okStatus, busy) ==
  /\ g.goal.status \in {"active", "complete", "budget_limited"}
  /\ LET edited == SetObjective(g, ok)
     IN  Answer(IF ok THEN OnSessionReady(edited, okStatus, busy) ELSE edited, FALSE)
  /\ Hinder(~okStatus \/ busy)
  /\ UNCHANGED <<Settings, historyVars>>

ChangeBudget(budget, ok) ==
  /\ g.goal.status # "none"
  /\ LET m == SetTokenBudget(g, budget, ok)
     IN  Answer(m, ContinuationRunActive(g) /\ m.goal.status = "budget_limited")
  /\ UNCHANGED <<Settings, hindered, historyVars>>

\* Cleared first, then the run is stopped, whoever started it.
ClearGoal(ok) ==
  /\ g.goal.status # "none"
  /\ Answer(Clear(g, ok), ok)
  /\ Count(IF ok THEN 0 ELSE activeTokens, IF ok THEN 0 ELSE allTokens)
  /\ UNCHANGED <<Settings, hindered>>

AnyAttemptEnds ==
  \E outcome \in {"stop", "error", "aborted"}, ok \in BOOLEAN : AttemptEnds(outcome, ok)
AnySettled ==
  \E failed, limit, accounted, ok, busy \in BOOLEAN :
    Settled(failed, limit, accounted, ok, busy)

HostStep ==
  \/ Prompt \/ AttemptStarts \/ NextAttempt \/ Drain \/ MessageEnds
  \/ AnyAttemptEnds \/ RunEnds \/ AnySettled \/ Interrupt
  \/ \E ok \in BOOLEAN : Restart(ok)

GoalStep ==
  \/ \E budget \in Budgets, ok, busy \in BOOLEAN : SetGoal(budget, ok, busy)
  \/ \E status \in {"complete", "blocked"}, ok \in BOOLEAN : UpdateGoal(status, ok)
  \/ \E ok \in BOOLEAN : Pause(ok) \/ ClearGoal(ok)
  \/ \E ok, okStatus, busy \in BOOLEAN :
       Resume(ok, okStatus, busy) \/ Edit(ok, okStatus, busy)
  \/ \E budget \in Budgets, ok \in BOOLEAN : ChangeBudget(budget, ok)

Next == HostStep \/ GoalStep
Spec == Init /\ [][Next]_vars
---------------------------------------------------------------------------
(* Properties. *)

\* What the session holds is what the runtime works with, whichever writes
\* fail: a restart never brings back another goal than the user was shown.
StoredMatches == g.stored = g.goal

\* Every token of a message that ended while the goal was active is counted, and none
\* twice, across pauses, edits, budgets, retries and writes that failed.
TokensCounted ==
  (g.goal.status # "none" /\ ~g.run.on) =>
    activeTokens =< g.goal.used /\ g.goal.used =< allTokens

\* An active goal does not come to rest by itself: with no run and no settled event
\* under way, its next message waits in the host's queue, or, since the last attempt
\* began, one of its writes failed, the host had other input to run first, or what it
\* had asked for was taken back or stopped before an attempt.  A message in the queue
\* starts no run: it is delivered in the user's next one.
GoalGoesOn ==
  (Active(g) /\ host = "idle" /\ settles = 0) => hindered \/ queue > 0

=============================================================================
