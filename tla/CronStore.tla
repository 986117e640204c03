----------------------------- MODULE CronStore -----------------------------
(***************************************************************************)
(* Durable cron jobs: src/packages/coding-agent/src/features/step-cron.ts. *)
(*                                                                         *)
(* Several sessions of one project share a file of jobs.  Each keeps a     *)
(* copy in memory that it refreshes now and then; every change goes        *)
(* through update(), which holds a lock file across the read, the change   *)
(* (delivery of messages included) and the replacement of the file.        *)
(*                                                                         *)
(* A process is synchronous inside update(), but the other processes are   *)
(* not: each system call is a step of its own.  A process may die between  *)
(* any two; what it leaves is the lock file, which goes stale after a      *)
(* minute.  The model assumes that a live holder needs less than that.     *)
(*                                                                         *)
(* Here: the jobs of command line sessions, which have no status, all of   *)
(* them durable and owned by every session.  Not here: update and runNow,  *)
(* session jobs, jitter, rows of other schema versions, the text of jobs.  *)
(* The gates that ask whether the host is idle, and a host that refuses a  *)
(* message, are the free choice of which due jobs a drain delivers.        *)
(***************************************************************************)
EXTENDS Naturals, FiniteSets

CONSTANTS
  Sessions,      \* the processes
  Jobs,          \* the job ids; each is created once
  Recurring,     \* the jobs that repeat
  NoJob,         \* no row in the file
  Period,        \* distance between occurrences
  Lifetime,      \* autoExpireMs of a recurring job
  MaxTime,       \* bound: the clock
  MaxHalts,      \* bound: sessions that stop or die
  MaxFailures    \* bound: writes that fail

ASSUME CronAssumption ==
  /\ Recurring \subseteq Jobs /\ NoJob \notin Nat \X Nat
  /\ {Period, Lifetime} \subseteq Nat \ {0}
  /\ {MaxTime, MaxHalts, MaxFailures} \subseteq Nat

VARIABLES
  now,         \* the clock
  file,        \* the rows: <<nextFireAt, autoExpireAt>> of each job
  lock,        \* the lock file: "free", "held", or left behind by a process
               \* that died ("orphan"), possibly a minute ago ("stale")
  pc,          \* where each session is in update()
  op,          \* what it wants to do there
  jobs,        \* its copy of the rows
  pendingMissed, \* the one-shots it holds for the batched notice
  recoveryPending, \* the import at its start has not succeeded yet
  previous,    \* what withLatestJobs restores: <<jobs, pendingMissed>>
  halts, failures,
  sending,     \* history: occurrences it sent in the current update()
  settled,     \* history: occurrences whose delivery reached the file
  created,     \* history: jobs whose creation reached the file
  deleted,     \* history: jobs whose deletion reached the file
  broken       \* history: somebody unlinked the lock of a live holder

sessionVars == <<pc, op, jobs, pendingMissed, recoveryPending, previous, sending>>
historyVars == <<settled, created, deleted, broken>>
vars == <<now, file, lock, sessionVars, halts, failures, historyVars>>
---------------------------------------------------------------------------
NextFireAt(job) == job[1]
ExpiresAt(job) == job[2]

\* A one-shot never expires: its bound lies beyond the clock.
NewJob(j) ==
  <<now + Period, IF j \in Recurring THEN now + Lifetime ELSE MaxTime + 1>>

Present(rows) == {j \in Jobs : rows[j] # NoJob}
Due(rows) == {j \in Present(rows) : NextFireAt(rows[j]) =< now}
Expired(rows) == {j \in Present(rows) : ExpiresAt(rows[j]) =< now}
Remove(rows, gone) == [j \in Jobs |-> IF j \in gone THEN NoJob ELSE rows[j]]

\* fire(): the last occurrence removes the job, another one advances it.
Fire(rows, fired) ==
  [j \in Jobs |->
     IF j \notin fired THEN rows[j]
     ELSE IF j \notin Recurring \/ j \in Expired(rows) THEN NoJob
     ELSE <<now + Period, ExpiresAt(rows[j])>>]

Occurrence(rows, sent) == {<<j, NextFireAt(rows[j])>> : j \in sent}

\* Sessions inside update().  Bound: once there are two, neither goes on.
Holders == {s \in Sessions : pc[s] \in {"locked", "replace", "unlock"}}
Exclusive == \A s, t \in Holders : s = t

Empty == [j \in Jobs |-> NoJob]
NothingSaved == <<Empty, {}>>

Init ==
  /\ now = 0
  /\ file = Empty
  /\ lock = "free"
  /\ pc = [s \in Sessions |-> "off"]
  /\ op = [s \in Sessions |-> [kind |-> "none"]]
  /\ jobs = [s \in Sessions |-> Empty]
  /\ pendingMissed = [s \in Sessions |-> {}]
  /\ recoveryPending = [s \in Sessions |-> FALSE]
  /\ previous = [s \in Sessions |-> NothingSaved]
  /\ halts = 0 /\ failures = 0
  /\ sending = [s \in Sessions |-> {}]
  /\ settled = {} /\ created = {} /\ deleted = {}
  /\ broken = FALSE
---------------------------------------------------------------------------
(* The lock. *)

Enter(s, request, place) ==
  /\ pc' = [pc EXCEPT ![s] = place]
  /\ op' = [op EXCEPT ![s] = request]
  /\ previous' = [previous EXCEPT ![s] = <<jobs[s], pendingMissed[s]>>]

\* acquireLock(): exclusive creation; a lock that looks stale will be
\* unlinked; otherwise the request fails and nothing has changed.
Request(s, request) ==
  \/ /\ lock = "free"
     /\ lock' = "held"
     /\ Enter(s, request, "locked")
  \/ /\ lock = "stale"
     /\ Enter(s, request, "stale")
     /\ UNCHANGED lock

Fail(s) ==
  /\ pc' = [pc EXCEPT ![s] = "up"]
  /\ op' = [op EXCEPT ![s] = [kind |-> "none"]]
  /\ jobs' = [jobs EXCEPT ![s] = previous[s][1]]
  /\ pendingMissed' = [pendingMissed EXCEPT ![s] = previous[s][2]]
  /\ previous' = [previous EXCEPT ![s] = NothingSaved]
  /\ sending' = [sending EXCEPT ![s] = {}]

\* Unlinks whatever lock file is there by now.
UnlinkStale(s) ==
  /\ pc[s] = "stale"
  /\ IF lock = "free"
     THEN Fail(s) /\ UNCHANGED <<lock, broken, recoveryPending>>
     ELSE /\ lock' = "free"
          /\ broken' = (broken \/ lock = "held")
          /\ pc' = [pc EXCEPT ![s] = "reopen"]
          /\ UNCHANGED <<op, jobs, pendingMissed, recoveryPending, previous, sending>>
  /\ UNCHANGED <<now, file, halts, failures, settled, created, deleted>>

Reopen(s) ==
  /\ pc[s] = "reopen"
  /\ IF lock = "free"
     THEN /\ lock' = "held"
          /\ pc' = [pc EXCEPT ![s] = "locked"]
          /\ UNCHANGED <<op, jobs, pendingMissed, recoveryPending, previous, sending>>
     ELSE Fail(s) /\ UNCHANGED <<lock, recoveryPending>>
  /\ UNCHANGED <<now, file, halts, failures, historyVars>>

LockAges ==
  /\ lock = "orphan"
  /\ lock' = "stale"
  /\ UNCHANGED <<now, file, sessionVars, halts, failures, historyVars>>
---------------------------------------------------------------------------
(* The changes made under the lock, on the rows just read.  Allowed are the *)
(* jobs whose message the host takes, missedAllowed whether it takes the   *)
(* batched notice. *)

\* deliverMissed(): what is left, and what has been sent.
MissedSent(rows, missed, missedAllowed) ==
  IF missedAllowed THEN missed \cap Present(rows) ELSE {}

\* loadDurable(): missed one-shots are kept for the notice, missed recurring
\* jobs advance without a message, except one that has reached its expiry.
Recover(s, allowed, missedAllowed) ==
  LET last == Expired(file) \cap Due(file) \cap allowed
      over == Expired(file) \ Due(file)
      missed == (pendingMissed[s] \cap Present(file))
                  \cup ((Due(file) \ Expired(file)) \ Recurring)
      skipped == (Due(file) \ Expired(file)) \cap Recurring
      noticed == MissedSent(file, missed, missedAllowed)
  IN  /\ jobs' = [jobs EXCEPT ![s] =
                    Remove(Fire(file, last \cup skipped), over \cup noticed)]
      /\ pendingMissed' = [pendingMissed EXCEPT ![s] = missed \ noticed]
      /\ sending' = [sending EXCEPT ![s] = Occurrence(file, last \cup noticed)]
      /\ recoveryPending' = recoveryPending

\* Mutant of Drain: it works on the copy in memory.
DrainStale(s, allowed, missedAllowed) ==
  LET rows == jobs[s]
      missed == pendingMissed[s] \cap Present(rows)
      noticed == MissedSent(rows, missed, missedAllowed)
      fired == (Due(rows) \ missed) \cap allowed
  IN  /\ jobs' = [jobs EXCEPT ![s] =
                    Remove(Fire(rows, fired), (Expired(rows) \ Due(rows)) \cup noticed)]
      /\ pendingMissed' = [pendingMissed EXCEPT ![s] = missed \ noticed]
      /\ sending' = [sending EXCEPT ![s] = Occurrence(rows, fired \cup noticed)]
      /\ UNCHANGED recoveryPending

\* drain(): the notice first, then every job that is due and not in it.
Drain(s, allowed, missedAllowed) ==
  LET missed == pendingMissed[s] \cap Present(file)
      noticed == MissedSent(file, missed, missedAllowed)
      over == Expired(file) \ Due(file)
      fired == (Due(file) \ missed) \cap allowed
  IN  /\ jobs' = [jobs EXCEPT ![s] =
                    Remove(Fire(file, fired), over \cup noticed)]
      /\ pendingMissed' = [pendingMissed EXCEPT ![s] = missed \ noticed]
      /\ sending' = [sending EXCEPT ![s] = Occurrence(file, fired \cup noticed)]
      /\ UNCHANGED recoveryPending

\* Mutant of SetRow: the rows are not read again under the lock.
SetRowStale(s, j, row) ==
  /\ jobs' = [jobs EXCEPT ![s][j] = row]
  /\ pendingMissed' = [pendingMissed EXCEPT ![s] = @ \ {j}]
  /\ UNCHANGED <<sending, recoveryPending>>

SetRow(s, j, row) ==
  /\ jobs' = [jobs EXCEPT ![s] = [file EXCEPT ![j] = row]]
  /\ pendingMissed' = [pendingMissed EXCEPT
                         ![s] = (@ \cap Present(file)) \ {j}]
  /\ UNCHANGED <<sending, recoveryPending>>

\* readRecords() and the change itself.
Mutate(s, allowed, missedAllowed) ==
  /\ pc[s] = "locked" /\ Exclusive
  /\ CASE op[s].kind = "recover" -> Recover(s, allowed, missedAllowed)
       [] op[s].kind = "drain" -> Drain(s, allowed, missedAllowed)
       [] op[s].kind = "create" -> SetRow(s, op[s].job, NewJob(op[s].job))
       [] op[s].kind = "delete" -> SetRow(s, op[s].job, NoJob)
  /\ pc' = [pc EXCEPT ![s] = "replace"]
  /\ UNCHANGED <<now, file, lock, op, previous, halts, failures, historyVars>>

\* The temporary file is written and renamed.
Replace(s) ==
  /\ pc[s] = "replace" /\ Exclusive
  /\ file' = jobs[s]
  /\ pc' = [pc EXCEPT ![s] = "unlock"]
  /\ settled' = settled \cup sending[s]
  /\ sending' = [sending EXCEPT ![s] = {}]
  /\ created' = created \cup {j \in Jobs : op[s] = [kind |-> "create", job |-> j]}
  /\ deleted' = deleted \cup {j \in Jobs : op[s] = [kind |-> "delete", job |-> j]}
  /\ UNCHANGED <<now, lock, op, jobs, pendingMissed, recoveryPending, previous,
                 halts, failures, broken>>

\* Mutant of ReplaceFails: the lock is not unlinked.
ReplaceFailsLocked(s) ==
  /\ pc[s] = "replace" /\ Exclusive /\ failures < MaxFailures
  /\ failures' = failures + 1
  /\ Fail(s)
  /\ UNCHANGED <<now, file, lock, recoveryPending, halts, historyVars>>

\* The write fails: what was sent stays sent, the memory is rolled back, and
\* the finally block unlinks the lock.
ReplaceFails(s) ==
  /\ pc[s] = "replace" /\ Exclusive /\ failures < MaxFailures
  /\ failures' = failures + 1
  /\ Fail(s)
  /\ lock' = "free"
  /\ UNCHANGED <<now, file, recoveryPending, halts, historyVars>>

\* The lock file is unlinked, whoever made it, and the request returns.
Unlock(s) ==
  /\ pc[s] = "unlock" /\ Exclusive
  /\ lock' = "free"
  /\ pc' = [pc EXCEPT ![s] = "up"]
  /\ op' = [op EXCEPT ![s] = [kind |-> "none"]]
  /\ recoveryPending' = [recoveryPending EXCEPT
                           ![s] = @ /\ op[s].kind # "recover"]
  /\ previous' = [previous EXCEPT ![s] = NothingSaved]
  /\ UNCHANGED <<now, file, jobs, pendingMissed, halts, failures, sending,
                 historyVars>>
---------------------------------------------------------------------------
(* What starts a change. *)

Keep == UNCHANGED <<now, file, halts, failures, sending, historyVars>>

\* start() and the first tick after one whose import failed: the file is read
\* without the lock, and the lock taken only if something was missed.
LoadDurable(s) ==
  LET rows == file IN
  /\ jobs' = [jobs EXCEPT ![s] = rows]
  /\ pendingMissed' = [pendingMissed EXCEPT ![s] = @ \cap Present(rows)]
  /\ IF Due(rows) \cup Expired(rows) = {}
     THEN /\ pc' = [pc EXCEPT ![s] = "up"]
          /\ recoveryPending' = [recoveryPending EXCEPT ![s] = FALSE]
          /\ UNCHANGED <<op, previous, lock>>
     ELSE /\ recoveryPending' = [recoveryPending EXCEPT ![s] = TRUE]
          /\ \/ lock \in {"held", "orphan"} /\ pc' = [pc EXCEPT ![s] = "up"]
                /\ UNCHANGED <<lock, op, previous>>
             \/ /\ lock \in {"free", "stale"}
                /\ lock' = IF lock = "free" THEN "held" ELSE lock
                /\ pc' = [pc EXCEPT ![s] = IF lock = "free" THEN "locked" ELSE "stale"]
                /\ op' = [op EXCEPT ![s] = [kind |-> "recover"]]
                /\ previous' = [previous EXCEPT ![s] =
                                  <<rows, pendingMissed[s] \cap Present(rows)>>]

Start(s) == pc[s] = "off" /\ LoadDurable(s) /\ Keep

RetryRecovery(s) ==
  pc[s] = "up" /\ recoveryPending[s] /\ LoadDurable(s) /\ Keep

\* refreshDurable(), by a tick every 30 seconds and by list().
Refresh(s) ==
  /\ pc[s] = "up" /\ ~recoveryPending[s]
  /\ jobs' = [jobs EXCEPT ![s] = file]
  /\ pendingMissed' = [pendingMissed EXCEPT ![s] = @ \cap Present(file)]
  /\ UNCHANGED <<lock, pc, op, recoveryPending, previous>> /\ Keep

\* needsLockedDrain(), judged on the copy in memory.
NeedsLockedDrain(s) ==
  \/ pendingMissed[s] # {}
  \/ Expired(jobs[s]) \ Due(jobs[s]) # {}
  \/ Due(jobs[s]) \ pendingMissed[s] # {}

Tick(s) ==
  /\ pc[s] = "up" /\ ~recoveryPending[s] /\ NeedsLockedDrain(s)
  /\ Request(s, [kind |-> "drain"])
  /\ UNCHANGED <<jobs, pendingMissed, recoveryPending>> /\ Keep

Create(s, j) ==
  /\ pc[s] = "up" /\ j \notin created
  /\ \A t \in Sessions : op[t] # [kind |-> "create", job |-> j]
  /\ file[j] = NoJob
  /\ now + Period =< MaxTime
  /\ Request(s, [kind |-> "create", job |-> j])
  /\ UNCHANGED <<jobs, pendingMissed, recoveryPending>> /\ Keep

Delete(s, j) ==
  /\ pc[s] = "up" /\ j \in created \ deleted
  /\ Request(s, [kind |-> "delete", job |-> j])
  /\ UNCHANGED <<jobs, pendingMissed, recoveryPending>> /\ Keep

Forget(s) ==
  /\ pc' = [pc EXCEPT ![s] = "off"]
  /\ op' = [op EXCEPT ![s] = [kind |-> "none"]]
  /\ jobs' = [jobs EXCEPT ![s] = Empty]
  /\ pendingMissed' = [pendingMissed EXCEPT ![s] = {}]
  /\ recoveryPending' = [recoveryPending EXCEPT ![s] = FALSE]
  /\ previous' = [previous EXCEPT ![s] = NothingSaved]
  /\ sending' = [sending EXCEPT ![s] = {}]
  /\ halts < MaxHalts /\ halts' = halts + 1
  /\ UNCHANGED <<now, file, failures, historyVars>>

\* stop(), at the end of a session.
Stop(s) == pc[s] = "up" /\ Forget(s) /\ UNCHANGED lock

\* The process dies, between any two system calls.
Crash(s) ==
  /\ pc[s] \in {"stale", "reopen", "locked", "replace", "unlock"}
  /\ Forget(s)
  /\ lock' = IF lock = "held" /\ pc[s] \in {"locked", "replace", "unlock"}
             THEN "orphan" ELSE lock

TimePasses ==
  /\ now < MaxTime
  /\ now' = now + 1
  /\ UNCHANGED <<file, lock, sessionVars, halts, failures, historyVars>>

MutateAny(s) ==
  \E allowed \in SUBSET Jobs, missedAllowed \in BOOLEAN :
    Mutate(s, allowed, missedAllowed)

SessionStep(s) ==
  \/ Start(s) \/ RetryRecovery(s) \/ Refresh(s) \/ Tick(s)
  \/ \E j \in Jobs : Create(s, j) \/ Delete(s, j)
  \/ UnlinkStale(s) \/ Reopen(s) \/ MutateAny(s)
  \/ Replace(s) \/ ReplaceFails(s) \/ Unlock(s)
  \/ Stop(s) \/ Crash(s)

Next ==
  \/ \E s \in Sessions : SessionStep(s)
  \/ LockAges
  \/ TimePasses

Spec == Init /\ [][Next]_vars
---------------------------------------------------------------------------
(* Properties.  Those that need an exclusive lock say so: see ExclusiveLock. *)

\* The lock file is exclusive: one session at a time is inside update().
ExclusiveLock == Exclusive

\* A lock file that is not a dead process's belongs to a session still inside
\* update(): no way out of it, a failed write included, leaves the lock behind
\* for every later change to run into.
LockReleased == broken \/ (lock = "held" <=> Holders # {})

\* An occurrence whose delivery reached the file is never sent again, by no
\* session, whether as a firing or in the notice of missed jobs, through
\* crashes, restarts and failed writes.
FiredOnce == broken \/ \A s \in Sessions : sending[s] \cap settled = {}

\* Changes of different sessions do not undo each other: a job once in
\* the file leaves it only by a delivery, its expiry or a deletion, and one that
\* was deleted does not come back.
NoLostUpdate ==
  broken \/ /\ \A j \in created \ deleted :
                 \/ file[j] # NoJob
                 \/ j \in Recurring /\ now >= Lifetime
                 \/ \E p \in settled : p[1] = j
            /\ \A j \in deleted : file[j] = NoJob

============================================================================
