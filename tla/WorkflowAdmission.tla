------------------------- MODULE WorkflowAdmission -------------------------
(***************************************************************************)
(* Admission of model work: the adaptive FIFO semaphore                    *)
(* (src/packages/coding-agent/src/features/workflow/budget.ts), the pool   *)
(* that shares one of them between all runs of the process (admission.ts), *)
(* and how a workflow run (runtime.ts) and a parallel subagent batch       *)
(* (subagent/execute.ts) take and give back slots and leases.              *)
(*                                                                         *)
(* A workflow call first takes a slot of its run's own semaphore, then one *)
(* of the shared semaphore; a batch call takes only a shared slot.  A      *)
(* runner that does not settle after cancellation keeps its shared slot    *)
(* and a lease of its own.                                                 *)
(*                                                                         *)
(* The generation number is only compared for equality with one sampled    *)
(* earlier, so a semaphore keeps the set of calls whose sample is current. *)
(* Of time only this is kept: whether the cooldown has passed, whether the *)
(* wakeup timer is set, and whether an idle pool has outlived its          *)
(* retention (60 s, longer than any cooldown).  A runner's rejection and   *)
(* its success end a call in the same way.                                 *)
(***************************************************************************)
EXTENDS Integers, Sequences, FiniteSets, FiniteSetsExt, Functions

CONSTANTS
  Runs,            \* the workflow runs and batches of the process
  Batches,         \* those that are parallel subagent batches
  Calls,           \* the agent calls they make
  RunOf,           \* the run a call belongs to
  Ceiling,         \* the provider concurrency limit each run brings
  OwnLimit,        \* the lower maxConcurrency of each workflow run
  RaiseAfter       \* successes that raise the limit by one (4 in the code)

ASSUME AdmissionAssumption ==
  /\ IsFiniteSet(Calls) /\ IsFiniteSet(Runs)
  /\ Batches \subseteq Runs /\ Runs \cap Calls = {}
  /\ RunOf \in [Calls -> Runs]
  /\ Ceiling \in [Runs -> Nat \ {0}]
  /\ OwnLimit \in [Runs -> Nat \ {0}]
  /\ RaiseAfter \in Nat \ {0}

VARIABLES
  run,       \* "idle", "running" or "closing" (aborted or failed)
  phase,     \* where each call is: waiting for a slot, running, or hung
  own,       \* each workflow run's own semaphore
  shared,    \* the semaphore of the current pool
  pooled,    \* there is a current pool
  members    \* its members: runs, and calls whose hung runner kept a lease

vars == <<run, phase, own, shared, pooled, members>>
---------------------------------------------------------------------------
(* WorkflowSemaphore. *)

NewSemaphore(limit) ==
  [limit |-> limit, ceiling |-> limit, disposed |-> FALSE, successes |-> 0,
   current |-> {}, cooling |-> FALSE, wakeup |-> FALSE, active |-> 0,
   admitted |-> {}, waiters |-> <<>>]

\* Mutant of Drain: a timer that fires early is not set again.
DrainNoTimer(s) ==
  LET n == IF s.active >= s.limit THEN 0
           ELSE Min({s.limit - s.active, Len(s.waiters)})
  IN  IF s.disposed \/ s.cooling THEN s
      ELSE [s EXCEPT !.active = @ + n,
                     !.admitted = @ \cup Range(SubSeq(s.waiters, 1, n)),
                     !.waiters = SubSeq(@, n + 1, Len(@))]

\* drain(): a timer instead while the cooldown lasts.
Drain(s) ==
  LET n == IF s.active >= s.limit THEN 0
           ELSE Min({s.limit - s.active, Len(s.waiters)})
  IN  IF s.disposed THEN s
      ELSE IF s.cooling THEN [s EXCEPT !.wakeup = TRUE]
      ELSE [s EXCEPT !.active = @ + n,
                     !.admitted = @ \cup Range(SubSeq(s.waiters, 1, n)),
                     !.waiters = SubSeq(@, n + 1, Len(@))]

SetCeiling(s, ceiling) ==
  IF ceiling = s.ceiling THEN s
  ELSE Drain([s EXCEPT !.ceiling = ceiling,
                       !.limit = IF @ = s.ceiling THEN ceiling
                                 ELSE Min({@, ceiling}),
                       !.current = {}, !.successes = 0])

\* A delay of zero still schedules a drain.
Throttle(s, c, delayed) ==
  IF s.disposed THEN s
  ELSE LET t == [s EXCEPT !.successes = 0, !.cooling = @ \/ delayed,
                          !.wakeup = TRUE]
       IN  IF c \in s.current
           THEN [t EXCEPT !.limit = Max({1, (@ * 3) \div 4}), !.current = {}]
           ELSE t

CanRaise(s) ==
  s.successes + 1 >= RaiseAfter /\ s.waiters # <<>> /\ s.limit < s.ceiling

\* The counter is capped at RaiseAfter: beyond it only >= is asked.
Succeeded(s, c) ==
  IF s.disposed \/ c \notin s.current THEN s
  ELSE IF CanRaise(s)
       THEN Drain([s EXCEPT !.limit = @ + 1, !.successes = 0])
       ELSE [s EXCEPT !.successes = Min({@ + 1, RaiseAfter})]

Throttled(s) == s.limit < s.ceiling \/ s.cooling

Admits(s) == s.active < s.limit /\ ~s.cooling /\ s.waiters = <<>>

\* Mutant of Acquire: a waiter in a parked window sets no timer.
AcquireNoTimer(s, c) ==
  IF Admits(s)
  THEN [s EXCEPT !.active = @ + 1, !.admitted = @ \cup {c}]
  ELSE [s EXCEPT !.waiters = Append(@, c)]

\* acquire(): a slot at once, or the last place in the queue.
Acquire(s, c) ==
  IF Admits(s)
  THEN [s EXCEPT !.active = @ + 1, !.admitted = @ \cup {c}]
  ELSE [s EXCEPT !.waiters = Append(@, c), !.wakeup = @ \/ s.cooling]

\* The release function of c's slot; it acts once.
Release(s, c) ==
  IF c \notin s.admitted THEN s
  ELSE Drain([s EXCEPT !.active = Max({0, @ - 1}), !.admitted = @ \ {c}])

\* The k-th element of q outside C is the one with k such places up to its own.
Without(q, C) ==
  LET keep == {i \in 1..Len(q) : q[i] \notin C}
  IN  [k \in 1..Cardinality(keep) |->
         q[CHOOSE i \in keep : Cardinality(keep \cap (1..i)) = k]]

\* The abort listeners of the calls in C.
Leave(s, C) == [s EXCEPT !.waiters = Without(@, C)]

\* The slots of the calls in C are free again, and nobody is left to take them.
GiveUp(s, C) ==
  [s EXCEPT !.active = @ - Cardinality(C), !.admitted = @ \ C]

Sample(s, c) == [s EXCEPT !.current = @ \cup {c}]

Park(s) == [s EXCEPT !.wakeup = FALSE]

Dispose(s) == [s EXCEPT !.disposed = TRUE, !.wakeup = FALSE, !.waiters = <<>>]
---------------------------------------------------------------------------
(* The pool and its leases. *)

CeilingOf(m) == IF m \in Runs THEN Ceiling[m] ELSE Ceiling[RunOf[m]]
PoolCeiling(M) == Min({CeilingOf(m) : m \in M})

\* acquireWorkflowAdmission for member m; an expired idle pool is replaced.
TakeLease(m, expired) ==
  LET replaced == ~pooled \/ (members = {} /\ expired)
      s == IF replaced THEN NewSemaphore(CeilingOf(m)) ELSE shared
  IN  /\ pooled' = TRUE
      /\ members' = members \cup {m}
      /\ shared' = SetCeiling(s, PoolCeiling(members'))

\* release() of m's lease, when the shared semaphore is s.
DropLease(s, m) ==
  /\ members' = members \ {m}
  /\ IF members' # {}
     THEN shared' = SetCeiling(s, PoolCeiling(members')) /\ UNCHANGED pooled
     ELSE IF Throttled(s)
     THEN shared' = Park(s) /\ UNCHANGED pooled
     ELSE shared' = Dispose(s) /\ pooled' = FALSE
---------------------------------------------------------------------------
CallsOf(r) == {c \in Calls : RunOf[c] = r}
Busy(r) == {c \in CallsOf(r) : phase[c] \notin {"idle", "hung"}}
Aborted(c) == run[RunOf[c]] = "closing"
HasOwn(c) == RunOf[c] \notin Batches

Init ==
  /\ run = [r \in Runs |-> "idle"]
  /\ phase = [c \in Calls |-> "idle"]
  /\ own = [r \in Runs |-> NewSemaphore(OwnLimit[r])]
  /\ shared = NewSemaphore(1)
  /\ pooled = FALSE
  /\ members = {}

\* A run starts with a new own semaphore and a lease.
StartRun(r) ==
  /\ run[r] = "idle" /\ r \notin members
  /\ run' = [run EXCEPT ![r] = "running"]
  /\ own' = [own EXCEPT ![r] = NewSemaphore(Min({Ceiling[r], OwnLimit[r]}))]
  /\ \E expired \in BOOLEAN :
       /\ expired => ~shared.cooling
       /\ TakeLease(r, expired)
  /\ UNCHANGED phase

\* A workflow call asks its run's window first; a batch worker is itself
\* the window, and its call asks the shared one.
StartCall(c) ==
  LET r == RunOf[c] IN
  /\ run[r] = "running" /\ phase[c] = "idle"
  /\ IF HasOwn(c)
     THEN /\ phase' = [phase EXCEPT ![c] = "own"]
          /\ own' = [own EXCEPT ![r] = Acquire(@, c)]
          /\ UNCHANGED shared
     ELSE /\ Cardinality(Busy(r)) < Ceiling[r]
          /\ phase' = [phase EXCEPT ![c] = "shared"]
          /\ shared' = Acquire(shared, c)
          /\ UNCHANGED own
  /\ UNCHANGED <<run, pooled, members>>

\* Admitted to its run's window, a call queues for the shared one.
AcquireShared(c) ==
  /\ phase[c] = "own" /\ c \in own[RunOf[c]].admitted /\ ~Aborted(c)
  /\ phase' = [phase EXCEPT ![c] = "shared"]
  /\ shared' = Acquire(shared, c)
  /\ UNCHANGED <<run, own, pooled, members>>

\* Admitted to both, it samples the epochs and starts its runner.
StartRunner(c) ==
  /\ phase[c] = "shared" /\ c \in shared.admitted
  /\ HasOwn(c) => ~Aborted(c)
  /\ phase' = [phase EXCEPT ![c] = "run"]
  /\ shared' = Sample(shared, c)
  /\ own' = [own EXCEPT ![RunOf[c]] = IF HasOwn(c) THEN Sample(@, c) ELSE @]
  /\ UNCHANGED <<run, pooled, members>>

\* onModelRequest; a workflow call ignores it once its attempt is aborted.
Reporting(c) == phase[c] = "run" /\ (HasOwn(c) => ~Aborted(c))

UpdateBoth(c, Update(_)) ==
  /\ shared' = Update(shared)
  /\ own' = [own EXCEPT ![RunOf[c]] = IF HasOwn(c) THEN Update(@) ELSE @]
  /\ UNCHANGED <<run, phase, pooled, members>>

RequestStarted(c) ==
  Reporting(c) /\ UpdateBoth(c, LAMBDA s : Sample(s, c))

RequestSucceeded(c) ==
  Reporting(c) /\ UpdateBoth(c, LAMBDA s : Sample(Succeeded(s, c), c))

RequestRateLimited(c, delayed) ==
  Reporting(c) /\ UpdateBoth(c, LAMBDA s : Sample(Throttle(s, c, delayed), c))

\* What a call that ends gives back: the shared slot, then its own.
GiveBack(c) ==
  /\ phase' = [phase EXCEPT ![c] = "idle"]
  /\ shared' = Release(shared, c)
  /\ own' = [own EXCEPT ![RunOf[c]] = Release(@, c)]
  /\ UNCHANGED <<run, pooled, members>>

EndCall(c) == phase[c] = "run" /\ GiveBack(c)

\* A call admitted before the abort notices it when it resumes.
EndAborted(c) ==
  /\ Aborted(c) /\ HasOwn(c)
  /\ \/ phase[c] = "own" /\ c \in own[RunOf[c]].admitted
     \/ phase[c] = "shared" /\ c \in shared.admitted
  /\ GiveBack(c)

\* Mutant of Hang: the shared slot is kept without a lease.
HangNoLease(c) ==
  /\ phase[c] = "run" /\ HasOwn(c)
  /\ phase' = [phase EXCEPT ![c] = "hung"]
  /\ own' = [own EXCEPT ![RunOf[c]] = Release(@, c)]
  /\ UNCHANGED <<run, shared, pooled, members>>

\* A cancelled or timed out runner does not settle within its grace: the
\* call ends, the shared slot stays taken under a lease of its own.
Hang(c) ==
  /\ phase[c] = "run" /\ HasOwn(c)
  /\ phase' = [phase EXCEPT ![c] = "hung"]
  /\ TakeLease(c, FALSE)
  /\ own' = [own EXCEPT ![RunOf[c]] = Release(@, c)]
  /\ UNCHANGED run

RunnerSettles(c) ==
  /\ phase[c] = "hung"
  /\ phase' = [phase EXCEPT ![c] = "idle"]
  /\ DropLease(Release(shared, c), c)
  /\ UNCHANGED <<run, own>>

\* Mutant of AbortRun: who waited for the shared window keeps its own slot.
AbortRunLeaky(r) ==
  LET waiting == {c \in CallsOf(r) : \/ c \in Range(own[r].waiters)
                                     \/ c \in Range(shared.waiters)}
  IN  /\ run[r] = "running"
      /\ run' = [run EXCEPT ![r] = "closing"]
      /\ phase' = [c \in Calls |-> IF c \in waiting THEN "idle" ELSE phase[c]]
      /\ own' = [own EXCEPT ![r] = Leave(@, waiting)]
      /\ shared' = Leave(shared, waiting)
      /\ UNCHANGED <<pooled, members>>

\* The signal of a run, or an error that ends it: everyone who waits is
\* rejected, and one who waited for the shared window gives back its own.
AbortRun(r) ==
  LET waiting == {c \in CallsOf(r) : \/ c \in Range(own[r].waiters)
                                     \/ c \in Range(shared.waiters)}
      held == waiting \cap own[r].admitted
  IN  /\ run[r] = "running"
      /\ run' = [run EXCEPT ![r] = "closing"]
      /\ phase' = [c \in Calls |-> IF c \in waiting THEN "idle" ELSE phase[c]]
      /\ own' = [own EXCEPT ![r] = GiveUp(Leave(@, waiting), held)]
      /\ shared' = Leave(shared, waiting)
      /\ UNCHANGED <<pooled, members>>

\* The finally of a run whose calls have all ended.
EndRun(r) ==
  /\ run[r] # "idle" /\ Busy(r) = {}
  /\ run' = [run EXCEPT ![r] = "idle"]
  /\ own' = [own EXCEPT ![r] = Dispose(@)]
  /\ DropLease(shared, r)
  /\ UNCHANGED phase

\* The wakeup timer may fire a little before the cooldown is over.
CooldownEnds(s) == [s EXCEPT !.cooling = FALSE]
Wakeup(s) == Drain([s EXCEPT !.wakeup = FALSE])

SharedClock ==
  /\ \/ shared.cooling /\ shared' = CooldownEnds(shared)
     \/ shared.wakeup /\ shared' = Wakeup(shared)
  /\ UNCHANGED <<run, phase, own, pooled, members>>

OwnClock(r) ==
  /\ \/ own[r].cooling /\ own' = [own EXCEPT ![r] = CooldownEnds(@)]
     \/ own[r].wakeup /\ own' = [own EXCEPT ![r] = Wakeup(@)]
  /\ UNCHANGED <<run, phase, shared, pooled, members>>

EndsCall(c) == EndCall(c) \/ EndAborted(c) \/ RunnerSettles(c)

CallStep(c) ==
  \/ StartCall(c) \/ AcquireShared(c) \/ StartRunner(c)
  \/ RequestStarted(c) \/ RequestSucceeded(c)
  \/ \E delayed \in BOOLEAN : RequestRateLimited(c, delayed)
  \/ EndsCall(c) \/ Hang(c)

Next ==
  \/ \E r \in Runs : StartRun(r) \/ AbortRun(r) \/ EndRun(r) \/ OwnClock(r)
  \/ \E c \in Calls : CallStep(c)
  \/ SharedClock

\* The promise jobs and timers of the event loop run, and runners settle.
Fairness ==
  /\ \A c \in Calls : /\ WF_vars(EndCall(c)) /\ WF_vars(EndAborted(c))
                      /\ WF_vars(RunnerSettles(c))
                      /\ WF_vars(AcquireShared(c)) /\ WF_vars(StartRunner(c))
  /\ WF_vars(SharedClock)
  /\ \A r \in Runs : WF_vars(OwnClock(r))

Spec == Init /\ [][Next]_vars /\ Fairness
---------------------------------------------------------------------------
(* Properties. *)

\* Nobody waits for a slot that nobody will hand out: while calls wait, all
\* the slots the limit allows are taken or the wakeup timer is set.
Served(s) == ~s.disposed /\ s.waiters # <<>> => s.active >= s.limit \/ s.wakeup
NoLostWakeup == Served(shared) /\ \A r \in Runs : Served(own[r])

\* Every slot that counts as active is held by a call that still uses it, and
\* a hung runner keeps its shared slot: no path out of a call leaks a slot or
\* gives one back twice.
SlotsAccounted ==
  /\ shared.active = Cardinality(shared.admitted)
  /\ \A c \in shared.admitted : phase[c] \in {"shared", "run", "hung"}
  /\ \A c \in Calls : phase[c] \in {"run", "hung"} => c \in shared.admitted
  /\ \A r \in Runs : /\ own[r].active = Cardinality(own[r].admitted)
                     /\ \A c \in own[r].admitted :
                          RunOf[c] = r /\ phase[c] \in {"own", "shared", "run"}

\* Across pools that come and go, no call is admitted while as many as the
\* smallest ceiling attached are running or still hung in the backend.
Using == {c \in Calls : phase[c] \in {"run", "hung"}} \cup shared.admitted
HostCeiling ==
  [][Using' \subseteq Using \/ Cardinality(Using') =< PoolCeiling(members')]_vars

\* Every call ends: one that waits is admitted or rejected, whatever is
\* throttled, aborted, attached or detached meanwhile.
CallsEnd == \A c \in Calls : (phase[c] # "idle") ~> (phase[c] = "idle")
============================================================================
