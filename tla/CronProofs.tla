----------------------------- MODULE CronProofs -----------------------------
(***************************************************************************)
(* Proofs about CronStore for any number of sessions and jobs, any clock,  *)
(* and any number of crashes and failed writes: as long as nobody has      *)
(* unlinked a live lock, the lock is exclusive, a delivered occurrence     *)
(* stays delivered and no change is lost.                                  *)
(***************************************************************************)
EXTENDS CronStore, TLAPS

USE DEF sessionVars, historyVars

Places == {"off", "up", "stale", "reopen", "locked", "replace", "unlock"}
Requests == [kind : {"none", "recover", "drain"}]
              \cup [kind : {"create", "delete"}, job : Jobs]

RowOK(j, row) ==
  /\ row \in Nat \X Nat
  /\ j \in Recurring => ExpiresAt(row) >= Lifetime
  /\ j \notin Recurring => ExpiresAt(row) > MaxTime

RowsOK(rows) ==
  /\ rows \in [Jobs -> (Nat \X Nat) \cup {NoJob}]
  /\ \A j \in Jobs : rows[j] # NoJob => RowOK(j, rows[j])

Types ==
  /\ now \in 0 .. MaxTime
  /\ lock \in {"free", "held", "orphan", "stale"}
  /\ pc \in [Sessions -> Places]
  /\ op \in [Sessions -> Requests]
  /\ broken \in BOOLEAN
  /\ jobs = [s \in Sessions |-> jobs[s]]
  /\ sending = [s \in Sessions |-> sending[s]]
  /\ created \subseteq Jobs /\ deleted \subseteq created

\* The lock while it has not been broken.
LockInv == broken \/ (Exclusive /\ (lock = "held" <=> Holders # {}))

\* What a session asks for.  A job is created by one session, once.
RequestInv ==
  \A s \in Sessions :
    /\ pc[s] \in {"stale", "reopen", "locked"} => op[s].kind # "none"
    /\ \A j \in Jobs :
         /\ op[s] = [kind |-> "create", job |-> j] =>
              /\ pc[s] # "unlock" => j \notin created
              /\ \A t \in Sessions : op[t] = op[s] => t = s
         /\ op[s] = [kind |-> "delete", job |-> j] => j \in created

\* A settled occurrence lies behind the row of its job.
FileInv ==
  /\ RowsOK(file)
  /\ \A j \in Jobs : file[j] # NoJob => j \in created /\ j \notin deleted
  /\ settled \subseteq Jobs \X Nat
  /\ \A p \in settled : /\ p[1] \in created
                        /\ file[p[1]] # NoJob => NextFireAt(file[p[1]]) > p[2]
  /\ \A j \in created \ deleted :
       \/ file[j] # NoJob
       \/ (j \in Recurring /\ now >= Lifetime)
       \/ \E p \in settled : p[1] = j

\* How the rows a session is about to write differ from the file.
Staged(s) ==
  /\ RowsOK(jobs[s])
  /\ \A p \in sending[s] :
       /\ p \in Jobs \X Nat
       /\ file[p[1]] # NoJob /\ NextFireAt(file[p[1]]) = p[2]
       /\ jobs[s][p[1]] # NoJob => NextFireAt(jobs[s][p[1]]) > p[2]
  /\ \A j \in Jobs : jobs[s][j] # NoJob =>
       \/ op[s] = [kind |-> "create", job |-> j]
       \/ /\ file[j] # NoJob /\ op[s] # [kind |-> "delete", job |-> j]
          /\ NextFireAt(jobs[s][j]) >= NextFireAt(file[j])
  /\ \A j \in Jobs : jobs[s][j] = NoJob =>
       /\ op[s] # [kind |-> "create", job |-> j]
       /\ \/ file[j] = NoJob
          \/ op[s] = [kind |-> "delete", job |-> j]
          \/ (j \in Recurring /\ now >= Lifetime)
          \/ <<j, NextFireAt(file[j])>> \in sending[s]

StageInv ==
  \A s \in Sessions :
    IF pc[s] = "replace" THEN Staged(s) ELSE sending[s] = {}

CronInv == Types /\ RequestInv /\ LockInv
             /\ (broken \/ (FileInv /\ StageInv))

-----------------------------------------------------------------------------
(* The operators on rows. *)

Fired(rows, fired, gone) == Remove(Fire(rows, fired), gone)

\* Firing keeps a row well formed, removes it or moves it past the clock.
FiredOK(rows, fired, gone, next) ==
  /\ RowsOK(next)
  /\ \A j \in Jobs : next[j] # NoJob =>
       /\ j \notin gone /\ rows[j] # NoJob
       /\ NextFireAt(next[j]) >= NextFireAt(rows[j])
       /\ j \in fired => NextFireAt(next[j]) > NextFireAt(rows[j])
  /\ \A j \in Jobs : next[j] = NoJob =>
       \/ rows[j] = NoJob \/ j \in gone
       \/ (j \in fired /\ (j \notin Recurring \/ j \in Expired(rows)))

LEMMA FiredRows ==
  ASSUME NEW rows, RowsOK(rows), now \in Nat,
         NEW fired, fired \subseteq Due(rows), NEW gone, gone \subseteq Jobs
  PROVE  FiredOK(rows, fired, gone, Fired(rows, fired, gone))
<1> DEFINE next == Fired(rows, fired, gone)
<1> USE DEF RowsOK, RowOK, NextFireAt, ExpiresAt
<1>1. /\ fired \subseteq Jobs
      /\ \A j \in fired : rows[j] # NoJob /\ NextFireAt(rows[j]) =< now
  BY DEF Due, Present
<1>0. ASSUME NEW j \in Jobs, rows[j] # NoJob
      PROVE  rows[j] \in Nat \X Nat /\ rows[j][1] \in Nat /\ rows[j][2] \in Nat
  <2>1. rows[j] \in Nat \X Nat
    BY <1>0
  <2> QED
    BY <2>1
<1>2. ASSUME NEW j \in Jobs
      PROVE  next[j] = IF j \in gone THEN NoJob
                       ELSE IF j \notin fired THEN rows[j]
                       ELSE IF j \notin Recurring \/ j \in Expired(rows) THEN NoJob
                       ELSE <<now + Period, ExpiresAt(rows[j])>>
  BY DEF Fired, Remove, Fire
<1>3. next \in [Jobs -> (Nat \X Nat) \cup {NoJob}]
  <2>1. next = [j \in Jobs |-> next[j]]
    BY DEF Fired, Remove
  <2>2. Period \in Nat /\ Lifetime \in Nat
    BY CronAssumption
  <2>3. ASSUME NEW j \in Jobs
        PROVE  next[j] \in (Nat \X Nat) \cup {NoJob}
    <3>1. CASE j \in fired
      <4>1. <<now + Period, rows[j][2]>> \in Nat \X Nat
        BY <1>0, <1>1, <2>2, <3>1
      <4> QED
        BY <1>2, <3>1, <4>1
    <3>2. CASE j \notin fired
      BY <1>2, <3>2
    <3> QED
      BY <3>1, <3>2
  <2> QED
    BY <2>1, <2>3
<1>4. Period \in Nat \ {0} /\ Lifetime \in Nat
  BY CronAssumption
<1>5. ASSUME NEW j \in Jobs, next[j] # NoJob
      PROVE  /\ RowOK(j, next[j])
             /\ j \notin gone /\ rows[j] # NoJob
             /\ NextFireAt(next[j]) >= NextFireAt(rows[j])
             /\ j \in fired => NextFireAt(next[j]) > NextFireAt(rows[j])
  <2>1. j \notin gone /\ rows[j] # NoJob /\ RowOK(j, rows[j])
    BY <1>1, <1>2, <1>5
  <2>2. CASE j \in fired
    <3>1. next[j] = <<now + Period, rows[j][2]>> /\ rows[j][1] =< now
      BY <1>1, <1>2, <1>5, <2>1, <2>2
    <3>2. next[j] \in Nat \X Nat /\ next[j][1] = now + Period /\ next[j][2] = rows[j][2]
      BY <1>0, <1>4, <2>1, <3>1
    <3> QED
      BY <1>0, <2>1, <3>1, <3>2, <1>4
  <2>3. CASE j \notin fired
    <3>1. next[j] = rows[j]
      BY <1>2, <2>1, <2>3
    <3> QED
      BY <1>0, <2>1, <2>3, <3>1
  <2> QED
    BY <2>2, <2>3
<1>6. ASSUME NEW j \in Jobs, next[j] = NoJob
      PROVE  \/ rows[j] = NoJob \/ j \in gone
             \/ (j \in fired /\ (j \notin Recurring \/ j \in Expired(rows)))
  <2>2. SUFFICES ASSUME rows[j] # NoJob, j \in fired, j \notin gone,
                        j \in Recurring, j \notin Expired(rows)
                 PROVE  FALSE
    BY <1>2, <1>6
  <2>3. next[j] \in Nat \X Nat
    <3>1. <<now + Period, rows[j][2]>> \in Nat \X Nat
      BY <1>0, <1>4, <2>2
    <3> QED
      BY <1>2, <2>2, <3>1
  <2> QED
    BY <2>3, <1>6, CronAssumption
<1> QED
  BY <1>3, <1>5, <1>6 DEF FiredOK

-----------------------------------------------------------------------------
(* What every change of a session leaves as it should be, whatever the lock. *)

\* What a change under the lock does to the state beside the rows.
LEMMA MutateFrame ==
  ASSUME Types, RequestInv, NEW s \in Sessions, MutateAny(s)
  PROVE  /\ pc[s] = "locked" /\ pc' = [pc EXCEPT ![s] = "replace"]
         /\ jobs' = [t \in Sessions |-> jobs'[t]]
         /\ sending' = [t \in Sessions |-> sending'[t]]
         /\ \A t \in Sessions \ {s} : jobs'[t] = jobs[t] /\ sending'[t] = sending[t]
         /\ UNCHANGED <<now, file, lock, op, historyVars>>
<1> USE DEF MutateAny, Mutate
<1>0. op[s].kind \in {"recover", "drain", "create", "delete"}
  BY DEF Types, Requests, RequestInv
<1>1. PICK allowed \in SUBSET Jobs, missedAllowed \in BOOLEAN :
        Mutate(s, allowed, missedAllowed)
  OBVIOUS
<1>2. CASE op[s].kind = "recover"
  BY <1>1, <1>2 DEF Recover, Types
<1>3. CASE op[s].kind = "drain"
  BY <1>1, <1>3 DEF Drain, Types
<1>4. CASE op[s].kind = "create"
  BY <1>1, <1>4 DEF SetRow, Types
<1>5. CASE op[s].kind = "delete"
  BY <1>1, <1>5 DEF SetRow, Types
<1> QED
  BY <1>0, <1>2, <1>3, <1>4, <1>5

\* Every action keeps the types.
LEMMA TypesStep ==
  ASSUME Types, RequestInv, [Next]_vars
  PROVE  Types'
<1> USE DEF Types, Places, Requests
<1>1. CASE UNCHANGED vars
  BY <1>1 DEF vars
<1>2. CASE LockAges \/ TimePasses
  BY <1>2, CronAssumption DEF LockAges, TimePasses
<1>3. ASSUME NEW s \in Sessions, SessionStep(s)
      PROVE  Types'
  <2>1. CASE Start(s) \/ RetryRecovery(s)
    BY <2>1 DEF Start, RetryRecovery, LoadDurable, Keep
  <2>2. CASE Refresh(s)
    BY <2>2 DEF Refresh, Keep
  <2>3. CASE Tick(s)
    BY <2>3 DEF Tick, Request, Enter, Keep
  <2>4. CASE \E j \in Jobs : Create(s, j) \/ Delete(s, j)
    BY <2>4 DEF Create, Delete, Request, Enter, Keep
  <2>5. CASE UnlinkStale(s)
    <3>1. broken' \in BOOLEAN
      <4>1. broken' = broken \/ broken' = (broken \/ lock = "held")
        BY <2>5 DEF UnlinkStale
      <4>2. broken \in BOOLEAN /\ (broken \/ lock = "held") \in BOOLEAN
        OBVIOUS
      <4> QED
        BY <4>1, <4>2
    <3>2. /\ lock' \in {lock, "free"} /\ now' = now
          /\ created' = created /\ deleted' = deleted
          /\ pc' \in [Sessions -> Places] /\ op' \in [Sessions -> Requests]
      BY <2>5 DEF UnlinkStale, Fail
    <3>3. jobs' = [t \in Sessions |-> jobs'[t]] /\ sending' = [t \in Sessions |-> sending'[t]]
      BY <2>5 DEF UnlinkStale, Fail
    <3> QED
      BY <3>1, <3>2, <3>3
  <2>6. CASE Reopen(s)
    BY <2>6 DEF Reopen, Fail
  <2>7. CASE MutateAny(s)
    BY <2>7, MutateFrame
  <2>8. CASE Replace(s)
    BY <2>8 DEF Replace, RequestInv
  <2>9. CASE ReplaceFails(s)
    BY <2>9 DEF ReplaceFails, Fail
  <2>10. CASE Unlock(s)
    BY <2>10 DEF Unlock
  <2>11. CASE Stop(s) \/ Crash(s)
    BY <2>11 DEF Stop, Crash, Forget
  <2> QED
    BY <1>3, <2>1, <2>2, <2>3, <2>4, <2>5, <2>6, <2>7, <2>8, <2>9, <2>10, <2>11
       DEF SessionStep
<1> QED
  BY <1>1, <1>2, <1>3 DEF Next

\* A session asks for one thing at a time, and a job for one creation.
LEMMA RequestStep ==
  ASSUME Types, RequestInv, [Next]_vars
  PROVE  RequestInv'
<1> USE DEF Types, Places, Requests, RequestInv
<1>1. CASE UNCHANGED vars
  BY <1>1 DEF vars
<1>2. CASE LockAges \/ TimePasses
  BY <1>2 DEF LockAges, TimePasses
<1>3. ASSUME NEW s \in Sessions, SessionStep(s)
      PROVE  RequestInv'
  <2>1. CASE Start(s) \/ RetryRecovery(s)
    BY <2>1 DEF Start, RetryRecovery, LoadDurable, Keep
  <2>2. CASE Refresh(s)
    BY <2>2 DEF Refresh, Keep
  <2>3. CASE Tick(s)
    BY <2>3 DEF Tick, Request, Enter, Keep
  <2>4. CASE \E j \in Jobs : Create(s, j)
    BY <2>4 DEF Create, Request, Enter, Keep
  <2>5. CASE \E j \in Jobs : Delete(s, j)
    <3>1. PICK k \in Jobs : Delete(s, k)
      BY <2>5
    <3>2. /\ k \in created /\ created' = created
          /\ op' = [op EXCEPT ![s] = [kind |-> "delete", job |-> k]]
          /\ \E place \in {"locked", "stale"} : pc' = [pc EXCEPT ![s] = place]
          /\ pc[s] = "up"
      BY <3>1 DEF Delete, Request, Enter, Keep
    <3>3. op'[s].kind = "delete" /\ \A t \in Sessions \ {s} : op'[t] = op[t] /\ pc'[t] = pc[t]
      BY <3>2
    <3>4. \A j \in Jobs : op'[s] # [kind |-> "create", job |-> j]
      BY <3>3
    <3>5. \A j \in Jobs : op'[s] = [kind |-> "delete", job |-> j] => j = k
      <4>1. op'[s].job = k
        BY <3>2
      <4> QED
        BY <4>1
    <3>6. /\ pc'[s] # "unlock"
          /\ \A t \in Sessions :
               pc'[t] \in {"stale", "reopen", "locked"} => op'[t].kind # "none"
      BY <3>2, <3>3
    <3>7. ASSUME NEW t \in Sessions, NEW j \in Jobs, op'[t] = [kind |-> "create", job |-> j]
          PROVE  t # s /\ op[t] = op'[t] /\ pc'[t] = pc[t]
      BY <3>3, <3>4, <3>7
    <3>8. ASSUME NEW t \in Sessions, NEW j \in Jobs, op'[t] = [kind |-> "create", job |-> j]
          PROVE  /\ pc'[t] # "unlock" => j \notin created'
                 /\ \A u \in Sessions : op'[u] = op'[t] => u = t
      BY <3>2, <3>7, <3>8
    <3>9. ASSUME NEW t \in Sessions, NEW j \in Jobs, op'[t] = [kind |-> "delete", job |-> j]
          PROVE  j \in created'
      BY <3>2, <3>3, <3>5, <3>9
    <3> QED
      BY <3>6, <3>8, <3>9
  <2>6. CASE UnlinkStale(s) \/ Reopen(s)
    <3>1. /\ created' = created /\ pc[s] # "unlock"
          /\ \/ op' = op /\ \E place \in {"locked", "reopen"} : pc' = [pc EXCEPT ![s] = place]
             \/ /\ op' = [op EXCEPT ![s] = [kind |-> "none"]]
                /\ pc' = [pc EXCEPT ![s] = "up"]
          /\ op'= op => op[s].kind # "none"
      BY <2>6 DEF UnlinkStale, Reopen, Fail
    <3>2. CASE op' = op
      BY <3>1, <3>2
    <3>3. CASE op' # op
      BY <3>1, <3>3
    <3> QED
      BY <3>2, <3>3
  <2>7. CASE MutateAny(s)
    BY <2>7, MutateFrame
  <2>8. CASE Replace(s)
    BY <2>8 DEF Replace
  <2>9. CASE ReplaceFails(s)
    BY <2>9 DEF ReplaceFails, Fail
  <2>10. CASE Unlock(s)
    BY <2>10 DEF Unlock
  <2>11. CASE Stop(s) \/ Crash(s)
    BY <2>11 DEF Stop, Crash, Forget
  <2> QED
    BY <1>3, <2>1, <2>2, <2>3, <2>4, <2>5, <2>6, <2>7, <2>8, <2>9, <2>10, <2>11
       DEF SessionStep
<1> QED
  BY <1>1, <1>2, <1>3 DEF Next

\* While no live lock is unlinked, the lock admits one session and leaves with it.
LEMMA LockStep ==
  ASSUME Types, RequestInv, LockInv, [Next]_vars
  PROVE  LockInv'
<1> USE DEF Types, Places, LockInv, Exclusive, Holders
<1>1. CASE UNCHANGED vars
  BY <1>1 DEF vars
<1>2. CASE LockAges \/ TimePasses
  BY <1>2 DEF LockAges, TimePasses
<1>3. ASSUME NEW s \in Sessions, SessionStep(s)
      PROVE  LockInv'
  <2>1. CASE Start(s) \/ RetryRecovery(s)
    BY <2>1 DEF Start, RetryRecovery, LoadDurable, Keep
  <2>2. CASE Refresh(s)
    BY <2>2 DEF Refresh, Keep
  <2>3. CASE Tick(s)
    BY <2>3 DEF Tick, Request, Enter, Keep
  <2>4. CASE \E j \in Jobs : Create(s, j) \/ Delete(s, j)
    BY <2>4 DEF Create, Delete, Request, Enter, Keep
  <2>5. CASE UnlinkStale(s)
    BY <2>5 DEF UnlinkStale, Fail
  <2>6. CASE Reopen(s)
    BY <2>6 DEF Reopen, Fail
  <2>7. CASE MutateAny(s)
    BY <2>7, MutateFrame
  <2>8. CASE Replace(s)
    BY <2>8 DEF Replace
  <2>9. CASE ReplaceFails(s)
    BY <2>9 DEF ReplaceFails, Fail
  <2>10. CASE Unlock(s)
    BY <2>10 DEF Unlock
  <2>11. CASE Stop(s) \/ Crash(s)
    BY <2>11 DEF Stop, Crash, Forget
  <2> QED
    BY <1>3, <2>1, <2>2, <2>3, <2>4, <2>5, <2>6, <2>7, <2>8, <2>9, <2>10, <2>11
       DEF SessionStep
<1> QED
  BY <1>1, <1>2, <1>3 DEF Next

-----------------------------------------------------------------------------
(* The rows, while the lock is exclusive. *)

\* A step that leaves the file alone, and the rows about to be written.
LEMMA DataKept ==
  ASSUME Types, Types', FileInv, StageInv, now' >= now,
         UNCHANGED <<file, settled, created, deleted>>,
         \A t \in Sessions :
           \/ pc'[t] # "replace" /\ sending'[t] = {}
           \/ /\ pc[t] = "replace" /\ pc'[t] = "replace" /\ op'[t] = op[t]
              /\ jobs'[t] = jobs[t] /\ sending'[t] = sending[t]
  PROVE  FileInv' /\ StageInv'
<1>1. now >= Lifetime => now' >= Lifetime
  BY CronAssumption DEF Types
<1>2. FileInv'
  BY <1>1 DEF FileInv, RowsOK
<1>3. ASSUME NEW t \in Sessions, pc[t] = "replace", Staged(t), op'[t] = op[t],
             jobs'[t] = jobs[t], sending'[t] = sending[t]
      PROVE  Staged(t)'
  BY <1>1, <1>3 DEF Staged, RowsOK
<1> QED
  BY <1>2, <1>3 DEF StageInv

\* A drain or an import: what it fires, what it puts in the notice of missed
\* jobs, and what of it is sent.
Firing(s, fired, noticed, sent) ==
  /\ fired \subseteq Due(file) /\ noticed \subseteq Present(file)
  /\ noticed \subseteq sent /\ sent \subseteq fired \cup noticed
  /\ \A j \in fired \ sent : j \in Recurring \ Expired(file)
  /\ jobs'[s] = Fired(file, fired, (Expired(file) \ Due(file)) \cup noticed)
  /\ sending'[s] = Occurrence(file, sent)

\* What it fires moves on or goes.
LEMMA FiringStaged ==
  ASSUME Types, FileInv, NEW s \in Sessions,
         op[s].kind \in {"recover", "drain"},
         NEW fired, NEW noticed, NEW sent, Firing(s, fired, noticed, sent),
         UNCHANGED <<now, file, op>>
  PROVE  Staged(s)'
<1> DEFINE gone == (Expired(file) \ Due(file)) \cup noticed
           next == Fired(file, fired, gone)
<1>0. /\ fired \subseteq Due(file) /\ noticed \subseteq Present(file)
      /\ noticed \subseteq sent /\ sent \subseteq fired \cup noticed
      /\ \A j \in fired \ sent : j \in Recurring \ Expired(file)
      /\ next = jobs'[s] /\ sending'[s] = Occurrence(file, sent)
  BY DEF Firing
<1>1. RowsOK(file) /\ now \in Nat /\ gone \subseteq Jobs
  BY <1>0, CronAssumption DEF FileInv, Types, Expired, Present
<1>2. FiredOK(file, fired, gone, next)
  BY <1>0, <1>1, FiredRows
<1> HIDE DEF next, gone
<1> USE <1>0 DEF FiredOK
<1>3. RowsOK(jobs[s])'
  BY <1>1, <1>2 DEF RowsOK, RowOK
<1>4. ASSUME NEW p \in sending'[s]
      PROVE  /\ p \in Jobs \X Nat
             /\ file[p[1]] # NoJob /\ NextFireAt(file[p[1]]) = p[2]
             /\ jobs'[s][p[1]] # NoJob => NextFireAt(jobs'[s][p[1]]) > p[2]
  <2>1. PICK j \in sent : p = <<j, NextFireAt(file[j])>>
    BY <1>4 DEF Occurrence
  <2>2. j \in Jobs /\ file[j] # NoJob /\ (j \in fired \/ j \in noticed)
    BY <2>1 DEF Due, Present
  <2>3. file[j] \in Nat \X Nat
    BY <2>2, <1>1 DEF RowsOK
  <2>4. NextFireAt(file[j]) \in Nat
    BY <2>3 DEF NextFireAt
  <2>5. next[j] # NoJob => j \in fired
    BY <1>2, <2>2 DEF gone
  <2> QED
    BY <1>1, <1>2, <2>1, <2>2, <2>4, <2>5
<1>5. \A j \in Jobs : /\ op'[s] # [kind |-> "create", job |-> j]
                      /\ op'[s] # [kind |-> "delete", job |-> j]
  OBVIOUS
<1>6. ASSUME NEW j \in Expired(file)
      PROVE  j \in Recurring /\ now >= Lifetime
  <2>1. j \in Jobs /\ file[j] # NoJob /\ ExpiresAt(file[j]) =< now
    BY DEF Expired, Present
  <2>2. RowOK(j, file[j])
    BY <1>1, <2>1 DEF RowsOK
  <2>3. ExpiresAt(file[j]) \in Nat
    BY <2>2 DEF RowOK, ExpiresAt
  <2> QED
    BY <1>1, <2>1, <2>2, <2>3, CronAssumption DEF RowOK, Types
<1>7. ASSUME NEW j \in Jobs, next[j] = NoJob
      PROVE  \/ file[j] = NoJob
             \/ j \in Recurring /\ now >= Lifetime
             \/ <<j, NextFireAt(file[j])>> \in sending'[s]
  <2>1. j \in sent => <<j, NextFireAt(file[j])>> \in sending'[s]
    BY DEF Occurrence
  <2>2. j \in noticed => j \in sent
    OBVIOUS
  <2>3. j \in fired \ sent => j \in Recurring \ Expired(file)
    OBVIOUS
  <2> QED
    BY <1>2, <1>6, <1>7, <2>1, <2>2, <2>3 DEF gone
<1> QED
  BY <1>1, <1>2, <1>3, <1>4, <1>5, <1>7 DEF Staged

\* A change under the lock stages rows that fit the file it has read.
LEMMA MutateData ==
  ASSUME Types, Types', RequestInv, FileInv, StageInv,
         NEW s \in Sessions, MutateAny(s)
  PROVE  FileInv' /\ StageInv'
<1>1. PICK allowed \in SUBSET Jobs, missedAllowed \in BOOLEAN :
        Mutate(s, allowed, missedAllowed)
  BY DEF MutateAny
<1>2. /\ pc[s] = "locked" /\ pc' = [pc EXCEPT ![s] = "replace"]
      /\ \A t \in Sessions \ {s} : jobs'[t] = jobs[t] /\ sending'[t] = sending[t]
      /\ UNCHANGED <<now, file, lock, op, historyVars>>
  BY MutateFrame
<1>3. FileInv'
  BY <1>2 DEF FileInv, RowsOK
<1>4. op[s].kind \in {"recover", "drain", "create", "delete"}
  BY <1>2 DEF Types, Requests, RequestInv
<1>5. Staged(s)'
  <2>1. CASE op[s].kind = "recover"
    <3> DEFINE last == Expired(file) \cap Due(file) \cap allowed
               skipped == (Due(file) \ Expired(file)) \cap Recurring
               missed == (pendingMissed[s] \cap Present(file))
                           \cup ((Due(file) \ Expired(file)) \ Recurring)
               noticed == MissedSent(file, missed, missedAllowed)
    <3>1. /\ jobs'[s] = Remove(Fire(file, last \cup skipped),
                               (Expired(file) \ Due(file)) \cup noticed)
          /\ sending'[s] = Occurrence(file, last \cup noticed)
      BY <1>1, <2>1 DEF Mutate, Recover, Types
    <3> HIDE DEF noticed
    <3>2. noticed \subseteq Present(file)
      BY DEF noticed, MissedSent
    <3>3. Firing(s, last \cup skipped, noticed, last \cup noticed)
      BY <3>1, <3>2 DEF Firing, Fired
    <3> HIDE DEF last, skipped
    <3> QED
      BY <1>2, <2>1, <3>3, FiringStaged
  <2>2. CASE op[s].kind = "drain"
    <3> DEFINE missed == pendingMissed[s] \cap Present(file)
               noticed == MissedSent(file, missed, missedAllowed)
               fired == (Due(file) \ missed) \cap allowed
    <3>1. /\ jobs'[s] = Remove(Fire(file, fired),
                               (Expired(file) \ Due(file)) \cup noticed)
          /\ sending'[s] = Occurrence(file, fired \cup noticed)
      BY <1>1, <2>2 DEF Mutate, Drain, Types
    <3> HIDE DEF noticed
    <3>2. noticed \subseteq Present(file)
      BY DEF noticed, MissedSent
    <3>3. Firing(s, fired, noticed, fired \cup noticed)
      BY <3>1, <3>2 DEF Firing, Fired
    <3> HIDE DEF fired
    <3> QED
      BY <1>2, <2>2, <3>3, FiringStaged
  <2>3. CASE op[s].kind \in {"create", "delete"}
    <3>1. PICK j \in Jobs :
            \/ op[s] = [kind |-> "create", job |-> j] /\ j \notin created
            \/ op[s] = [kind |-> "delete", job |-> j] /\ j \in created
      BY <1>2, <2>3 DEF Types, Requests, RequestInv
    <3> DEFINE row == IF op[s].kind = "create" THEN NewJob(j) ELSE NoJob
    <3>2. /\ jobs'[s] = [file EXCEPT ![j] = row] /\ sending'[s] = sending[s]
          /\ sending'[s] = {}
      <4>1. SetRow(s, op[s].job, row)
        <5>1. op[s].job = j
          BY <3>1
        <5> QED
          BY <1>1, <2>3, <5>1 DEF Mutate
      <4>2. op[s].job = j
        BY <3>1
      <4>3. sending[s] = {}
        BY <1>2 DEF StageInv
      <4> HIDE DEF row
      <4> QED
        BY <4>1, <4>2, <4>3 DEF SetRow, Types
    <3>3. op[s].kind = "create" => row # NoJob /\ RowOK(j, row) /\ row \in Nat \X Nat
      <4>1. {now, Period, Lifetime, MaxTime, now + Period, now + Lifetime, MaxTime + 1} \subseteq Nat
        BY CronAssumption DEF Types
      <4>2. ASSUME op[s].kind = "create"
            PROVE  row = <<now + Period,
                           IF j \in Recurring THEN now + Lifetime ELSE MaxTime + 1>>
        BY <4>2 DEF NewJob
      <4>3. CASE j \in Recurring
        BY <4>1, <4>2, <4>3, CronAssumption DEF RowOK, ExpiresAt
      <4>4. CASE j \notin Recurring
        BY <4>1, <4>2, <4>4, CronAssumption DEF RowOK, ExpiresAt
      <4> QED
        BY <4>3, <4>4
    <3>4. ASSUME NEW k \in Jobs
          PROVE  jobs'[s][k] = IF k = j THEN row ELSE file[k]
      BY <3>2 DEF FileInv, RowsOK
    <3>5. RowsOK(jobs[s])'
      <4>1. jobs'[s] \in [Jobs -> (Nat \X Nat) \cup {NoJob}]
        BY <3>2, <3>3 DEF FileInv, RowsOK
      <4>2. ASSUME NEW k \in Jobs, jobs'[s][k] # NoJob
            PROVE  RowOK(k, jobs'[s][k])
        BY <3>3, <3>4, <4>2 DEF FileInv, RowsOK
      <4> QED
        BY <4>1, <4>2 DEF RowsOK, RowOK
    <3>6. /\ op'[s].kind = "create" => op'[s] = [kind |-> "create", job |-> j]
          /\ op'[s].kind = "delete" => op'[s] = [kind |-> "delete", job |-> j]
          /\ op'[s].kind = "create" => op'[s].kind # "delete"
          /\ op'[s].job = j
      BY <1>2, <3>1
    <3>7. ASSUME NEW k \in Jobs, jobs'[s][k] # NoJob
          PROVE  \/ op'[s] = [kind |-> "create", job |-> k]
                 \/ /\ file[k] # NoJob /\ op'[s] # [kind |-> "delete", job |-> k]
                    /\ NextFireAt(jobs'[s][k]) >= NextFireAt(file[k])
      <4>1. CASE k = j
        BY <1>2, <3>4, <3>6, <3>7, <4>1
      <4>2. CASE k # j
        <5>1. jobs'[s][k] = file[k] /\ file[k] \in Nat \X Nat
          BY <3>4, <3>7, <4>2 DEF FileInv, RowsOK
        <5>2. NextFireAt(jobs'[s][k]) >= NextFireAt(file[k])
          BY <5>1 DEF NextFireAt
        <5>3. op'[s] # [kind |-> "delete", job |-> k]
          BY <3>6, <4>2
        <5> QED
          BY <3>7, <5>1, <5>2, <5>3
      <4> QED
        BY <4>1, <4>2
    <3>8. ASSUME NEW k \in Jobs, jobs'[s][k] = NoJob
          PROVE  /\ op'[s] # [kind |-> "create", job |-> k]
                 /\ file[k] = NoJob \/ op'[s] = [kind |-> "delete", job |-> k]
      <4>1. CASE k = j
        <5>1. op[s].kind # "create"
          BY <3>3, <3>4, <3>8, <4>1
        <5> QED
          BY <1>2, <2>3, <3>6, <4>1, <5>1
      <4>2. CASE k # j
        BY <3>4, <3>6, <3>8, <4>2
      <4> QED
        BY <4>1, <4>2
    <3> QED
      BY <1>2, <3>2, <3>5, <3>7, <3>8 DEF Staged
  <2> QED
    BY <1>4, <2>1, <2>2, <2>3
<1> QED
  BY <1>2, <1>3, <1>5 DEF StageInv, Staged, Types

\* What was staged replaces the file.
LEMMA ReplaceData ==
  ASSUME Types, RequestInv, FileInv, StageInv, NEW s \in Sessions, Replace(s)
  PROVE  FileInv' /\ StageInv'
<1> USE DEF Replace
<1>1. Staged(s) /\ file' = jobs[s] /\ settled' = settled \cup sending[s]
  BY DEF StageInv
<1>2. /\ \A j \in Jobs : op[s] = [kind |-> "create", job |-> j] => j \notin created
      /\ created \subseteq created' /\ deleted \subseteq deleted'
      /\ deleted \subseteq created
  BY DEF RequestInv, Types
<1>3. \A j \in Jobs : /\ j \in created' <=> j \in created
                                     \/ op[s] = [kind |-> "create", job |-> j]
                      /\ j \in deleted' <=> j \in deleted
                                     \/ op[s] = [kind |-> "delete", job |-> j]
  OBVIOUS
<1>4. RowsOK(file)'
  BY <1>1 DEF Staged, RowsOK
<1>5. ASSUME NEW j \in Jobs, file'[j] # NoJob
      PROVE  j \in created' /\ j \notin deleted'
  <2>1. CASE op[s] = [kind |-> "create", job |-> j]
    <3>1. op[s] # [kind |-> "delete", job |-> j]
      BY <2>1
    <3> QED
      BY <1>2, <1>3, <2>1, <3>1
  <2>2. CASE op[s] # [kind |-> "create", job |-> j]
    <3>1. file[j] # NoJob /\ op[s] # [kind |-> "delete", job |-> j]
      BY <1>1, <1>5, <2>2 DEF Staged
    <3> QED
      BY <1>3, <3>1 DEF FileInv
  <2> QED
    BY <2>1, <2>2
<1>6. settled' \subseteq Jobs \X Nat
  BY <1>1 DEF Staged, FileInv
<1>7. ASSUME NEW p \in settled'
      PROVE  /\ p[1] \in created'
             /\ file'[p[1]] # NoJob => NextFireAt(file'[p[1]]) > p[2]
  <2>0. p[1] \in Jobs /\ p[2] \in Nat
    BY <1>6
  <2>1. CASE p \in sending[s]
    BY <1>1, <1>2, <2>0, <2>1 DEF Staged, FileInv
  <2>2. CASE p \in settled
    <3>1. p[1] \in created /\ (file[p[1]] # NoJob => NextFireAt(file[p[1]]) > p[2])
      BY <2>2 DEF FileInv
    <3>2. ASSUME file'[p[1]] # NoJob
          PROVE  /\ file[p[1]] # NoJob
                 /\ NextFireAt(file'[p[1]]) >= NextFireAt(file[p[1]])
      BY <1>1, <1>2, <2>0, <3>1, <3>2 DEF Staged
    <3>3. ASSUME file'[p[1]] # NoJob
          PROVE  NextFireAt(file'[p[1]]) \in Nat /\ NextFireAt(file[p[1]]) \in Nat
      <4>1. file'[p[1]] \in Nat \X Nat
        BY <1>4, <2>0, <3>3 DEF RowsOK
      <4>2. file[p[1]] \in Nat \X Nat
        BY <2>0, <3>2, <3>3 DEF FileInv, RowsOK
      <4> QED
        BY <4>1, <4>2 DEF NextFireAt
    <3> QED
      BY <1>2, <2>0, <3>1, <3>2, <3>3
  <2> QED
    BY <1>1, <2>1, <2>2
<1>8. ASSUME NEW j \in created' \ deleted', file'[j] = NoJob
      PROVE  (j \in Recurring /\ now >= Lifetime) \/ \E p \in settled' : p[1] = j
  <2>1. j \in Jobs
    BY DEF Types
  <2>2. /\ op[s] # [kind |-> "create", job |-> j] /\ j \in created \ deleted
        /\ op[s] # [kind |-> "delete", job |-> j]
    BY <1>1, <1>3, <1>8, <2>1 DEF Staged
  <2>3. CASE file[j] = NoJob
    BY <1>1, <2>2, <2>3 DEF FileInv
  <2>4. CASE <<j, NextFireAt(file[j])>> \in sending[s]
    BY <1>1, <2>4
  <2> QED
    BY <1>1, <1>8, <2>1, <2>2, <2>3, <2>4 DEF Staged
<1>9. FileInv'
  BY <1>4, <1>5, <1>6, <1>7, <1>8 DEF FileInv
<1>10. ASSUME NEW t \in Sessions
       PROVE  pc'[t] # "replace" /\ sending'[t] = {}
  BY DEF StageInv, Types, Exclusive, Holders
<1> QED
  BY <1>9, <1>10 DEF StageInv

\* Every action keeps the file and what is about to be written to it.
LEMMA DataStep ==
  ASSUME Types, Types', RequestInv, LockInv, FileInv, StageInv,
         ~broken, [Next]_vars
  PROVE  FileInv' /\ StageInv'
<1> DEFINE Kept(t) ==
      \/ pc'[t] # "replace" /\ sending'[t] = {}
      \/ /\ pc[t] = "replace" /\ pc'[t] = "replace" /\ op'[t] = op[t]
         /\ jobs'[t] = jobs[t] /\ sending'[t] = sending[t]
    Calm == /\ now' >= now /\ UNCHANGED <<file, settled, created, deleted>>
            /\ \A t \in Sessions : Kept(t)
<1>1. ASSUME Calm
      PROVE  FileInv' /\ StageInv'
  BY <1>1, DataKept
<1>2. now \in Nat /\ now >= now /\ \A t \in Sessions :
        pc[t] # "replace" => sending[t] = {}
  BY DEF Types, StageInv
<1>3. CASE UNCHANGED vars
  <2>1. Calm
    BY <1>2, <1>3 DEF vars
  <2> QED
    BY <1>1, <2>1
<1>4. CASE LockAges \/ TimePasses
  <2>1. Calm
    BY <1>2, <1>4 DEF LockAges, TimePasses
  <2> QED
    BY <1>1, <2>1
<1>5. ASSUME NEW s \in Sessions, SessionStep(s)
      PROVE  FileInv' /\ StageInv'
  <2> USE DEF Types
  <2>1. CASE Start(s) \/ RetryRecovery(s)
    <3>1. Calm
      BY <1>2, <2>1 DEF Start, RetryRecovery, LoadDurable, Keep
    <3> QED
      BY <1>1, <3>1
  <2>2. CASE Refresh(s)
    <3>1. Calm
      BY <1>2, <2>2 DEF Refresh, Keep
    <3> QED
      BY <1>1, <3>1
  <2>3. CASE Tick(s) \/ \E j \in Jobs : Create(s, j) \/ Delete(s, j)
    <3>1. Calm
      BY <1>2, <2>3 DEF Tick, Create, Delete, Request, Enter, Keep
    <3> QED
      BY <1>1, <3>1
  <2>4. CASE UnlinkStale(s) \/ Reopen(s)
    <3>1. Calm
      BY <1>2, <2>4 DEF UnlinkStale, Reopen, Fail
    <3> QED
      BY <1>1, <3>1
  <2>5. CASE MutateAny(s)
    BY <2>5, MutateData
  <2>6. CASE Replace(s)
    BY <2>6, ReplaceData
  <2>7. CASE ReplaceFails(s)
    <3>1. Calm
      BY <1>2, <2>7 DEF ReplaceFails, Fail
    <3> QED
      BY <1>1, <3>1
  <2>8. CASE Unlock(s)
    <3>1. Calm
      BY <1>2, <2>8 DEF Unlock
    <3> QED
      BY <1>1, <3>1
  <2>9. CASE Stop(s) \/ Crash(s)
    <3>1. Calm
      BY <1>2, <2>9 DEF Stop, Crash, Forget
    <3> QED
      BY <1>1, <3>1
  <2> QED
    BY <1>5, <2>1, <2>2, <2>3, <2>4, <2>5, <2>6, <2>7, <2>8, <2>9
       DEF SessionStep
<1> QED
  BY <1>3, <1>4, <1>5 DEF Next

LEMMA InitInv == Init => CronInv
<1> SUFFICES ASSUME Init
             PROVE  CronInv
  OBVIOUS
<1> USE DEF Init, Empty
<1>1. Types
  <2>1. now \in 0 .. MaxTime
    BY CronAssumption
  <2>2. /\ lock \in {"free", "held", "orphan", "stale"} /\ broken \in BOOLEAN
        /\ pc \in [Sessions -> Places]
        /\ created \subseteq Jobs /\ deleted \subseteq created
    BY DEF Places
  <2>3. op \in [Sessions -> Requests]
    <3>1. [kind |-> "none"] \in Requests
      BY DEF Requests
    <3> QED
      BY <3>1
  <2>4. /\ jobs = [s \in Sessions |-> jobs[s]]
        /\ sending = [s \in Sessions |-> sending[s]]
    OBVIOUS
  <2> QED
    BY <2>1, <2>2, <2>3, <2>4 DEF Types
<1>2. RequestInv
  BY DEF RequestInv
<1>3. LockInv
  BY DEF LockInv, Exclusive, Holders
<1>4. FileInv /\ StageInv
  BY DEF FileInv, RowsOK, StageInv
<1> QED
  BY <1>1, <1>2, <1>3, <1>4 DEF CronInv

LEMMA NextInv == CronInv /\ [Next]_vars => CronInv'
<1> SUFFICES ASSUME CronInv, [Next]_vars
             PROVE  CronInv'
  OBVIOUS
<1>1. Types' /\ RequestInv' /\ LockInv'
  BY TypesStep, RequestStep, LockStep DEF CronInv
<1>2. broken => broken'
  <2>1. broken' = broken \/ broken' = (broken \/ lock = "held")
    BY DEF Next, vars, SessionStep, LockAges, TimePasses, Start, RetryRecovery,
           Refresh, Tick, Create, Delete, UnlinkStale, Reopen, MutateAny, Mutate,
           Replace, ReplaceFails, Unlock, Stop, Crash, Forget, Keep
  <2> QED
    BY <2>1
<1>3. broken' \/ (FileInv' /\ StageInv')
  BY <1>1, <1>2, DataStep DEF CronInv
<1> QED
  BY <1>1, <1>3 DEF CronInv

-----------------------------------------------------------------------------
(* The theorems. *)

\* The inductive invariant.
THEOREM Invariance == Spec => []CronInv
<1>1. Init => CronInv
  BY InitInv
<1>2. CronInv /\ [Next]_vars => CronInv'
  BY NextInv
<1> QED
  BY <1>1, <1>2, PTL DEF Spec

\* The lock file never outlives the session that made it, short of a crash.
THEOREM LockReleasedHolds == Spec => []LockReleased
<1>1. CronInv => LockReleased
  BY DEF CronInv, LockInv, LockReleased
<1> QED
  BY <1>1, Invariance, PTL

\* No session sends an occurrence whose delivery has reached the file.
THEOREM FiredOnceHolds == Spec => []FiredOnce
<1>1. ASSUME CronInv
      PROVE  FiredOnce
  <2>1. SUFFICES ASSUME ~broken, NEW s \in Sessions, NEW p \in sending[s], p \in settled
                 PROVE  FALSE
    BY DEF FiredOnce
  <2>2. FileInv /\ StageInv
    BY <1>1, <2>1 DEF CronInv
  <2>3. Staged(s)
    BY <2>1, <2>2 DEF StageInv
  <2>4. /\ p \in Jobs \X Nat /\ file[p[1]] # NoJob
        /\ NextFireAt(file[p[1]]) = p[2]
    BY <2>1, <2>3 DEF Staged
  <2>5. NextFireAt(file[p[1]]) > p[2]
    BY <2>1, <2>2, <2>4 DEF FileInv
  <2>6. p[2] \in Nat
    BY <2>4
  <2> QED
    BY <2>4, <2>5, <2>6
<1> QED
  BY <1>1, Invariance, PTL

\* No session undoes another one's creation or deletion.
THEOREM NoLostUpdateHolds == Spec => []NoLostUpdate
<1>1. ASSUME CronInv
      PROVE  NoLostUpdate
  <2>1. SUFFICES ASSUME ~broken
                 PROVE  NoLostUpdate
    BY DEF NoLostUpdate
  <2>2. FileInv /\ deleted \subseteq Jobs
    BY <1>1, <2>1 DEF CronInv, Types
  <2> QED
    BY <2>2 DEF FileInv, NoLostUpdate
<1> QED
  BY <1>1, Invariance, PTL

=============================================================================
