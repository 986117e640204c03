----------------------------- MODULE GoalProofs -----------------------------
(***************************************************************************)
(* Proofs about GoalRuntime for all budgets and any number of tokens,      *)
(* runs, settled events and restarts: the session holds the goal that the  *)
(* runtime works with, every token is counted once, and an active goal     *)
(* does not come to rest by itself.                                        *)
(***************************************************************************)
EXTENDS GoalRuntime, Integers, TLAPS

Statuses == {"none", "active", "paused", "blocked", "usage_limited",
             "budget_limited", "complete"}
Goals == [status : Statuses, used : Nat, budget : Nat]
Runs == [on : BOOLEAN, attempt : BOOLEAN, driven : BOOLEAN,
         participated : BOOLEAN, tokens : Nat, baseline : Nat, base : Nat]
States == [goal : Goals, stored : Goals, run : Runs,
           stop : {"none", "stop", "error", "aborted"}, pending : BOOLEAN,
           queued : BOOLEAN, outstanding : BOOLEAN, sent : BOOLEAN]

\* What the goal has used, with what is not accounted yet.
Progress(m) ==
  IF m.run.participated THEN m.run.base + (m.run.tokens - m.run.baseline)
  ELSE m.goal.used

\* An active goal takes part in every run there is.
Joined(m) ==
  /\ m.run.attempt => m.run.on
  /\ m.run.participated =>
       m.run.on /\ m.run.baseline =< m.run.tokens /\ m.goal.status # "none"
  /\ (Active(m) /\ m.run.on) => m.run.participated

\* The tokens of active messages are accounted before the goal stops.
Counted(m, active, all) ==
  m.goal.status # "none" =>
    /\ active =< (IF Active(m) THEN Progress(m) ELSE m.goal.used)
    /\ m.goal.used =< Progress(m) /\ Progress(m) =< all

Sound(m, active, all) ==
  m \in States /\ m.stored = m.goal /\ Joined(m) /\ Counted(m, active, all)

GoalInv ==
  /\ activeTokens \in Nat /\ allTokens \in Nat
  /\ Sound(g, activeTokens, allTokens)
  /\ host = "attempt" => g.run.attempt

-----------------------------------------------------------------------------
(* The methods of the runtime, each of which keeps its state sound. *)

USE DEF Active

\* Accounting: the goal has used what the run has made of it.
LEMMA AccountSound ==
  ASSUME NEW m, NEW active \in Nat, NEW all \in Nat, Sound(m, active, all)
  PROVE  /\ Sound(Account(m), active, all)
         /\ Account(m).run = m.run /\ Account(m).pending = m.pending
         /\ Account(m).goal.status = m.goal.status
         /\ Account(m).goal.used = Progress(m)
         /\ Progress(Account(m)) = Progress(m)
<1>0. m \in States /\ m.run \in Runs /\ m.goal \in Goals
  BY DEF Sound, States
<1>1. CASE ~m.run.participated
  BY <1>1 DEF Account, Sound, Progress
<1>2. CASE m.run.participated
  <2> DEFINE used == m.run.base + (m.run.tokens - m.run.baseline)
             goal == [m.goal EXCEPT !.used = used]
  <2>1. used \in Nat
    BY <1>0, <1>2 DEF Runs, Sound, Joined
  <2>2. goal \in Goals /\ goal.used = used /\ goal.status = m.goal.status
    BY <1>0, <2>1 DEF Goals
  <2>3. used = Progress(m)
    BY <1>2 DEF Progress
  <2> HIDE DEF used, goal
  <2>4. Account(m) = [m EXCEPT !.goal = goal, !.stored = goal]
    BY <1>2 DEF Account, Store, goal, used
  <2>5. /\ Account(m) \in States /\ Account(m).stored = Account(m).goal
        /\ Account(m).run = m.run /\ Account(m).goal = goal
        /\ Account(m).pending = m.pending
    BY <1>0, <2>2, <2>4 DEF States
  <2>6. Joined(Account(m))
    BY <2>2, <2>5 DEF Sound, Joined
  <2>7. Progress(Account(m)) = Progress(m)
    BY <1>2, <2>5 DEF Progress
  <2>8. Counted(Account(m), active, all)
    <3>1. m.goal.used \in Nat
      BY <1>0 DEF Goals
    <3>2. m.goal.status # "none" => /\ active =< used /\ used =< all
      BY <2>1, <2>3, <3>1 DEF Sound, Counted
    <3>3. Account(m).goal.used = used /\ Progress(Account(m)) = used
          /\ Account(m).goal.status = m.goal.status
      BY <2>2, <2>3, <2>5, <2>7
    <3> QED
      BY <2>1, <3>2, <3>3 DEF Counted
  <2> QED
    BY <2>2, <2>3, <2>5, <2>6, <2>7, <2>8 DEF Sound
<1> QED
  BY <1>1, <1>2

\* The goal joins the run with what it has used so far.
LEMMA JoinSound ==
  ASSUME NEW m, NEW active \in Nat, NEW all \in Nat,
         m \in States, m.stored = m.goal, m.run.attempt => m.run.on,
         m.run.participated => m.run.on, m.goal.status # "none",
         active =< m.goal.used, m.goal.used =< all
  PROVE  Sound(Join(m), active, all) /\ Join(m).run.attempt = m.run.attempt
<1>0. m.run \in Runs /\ m.goal \in Goals
  BY DEF States
<1>1. CASE ~m.run.on
  <2>1. Join(m) = m /\ ~m.run.participated /\ m.goal.used \in Nat
    BY <1>1, <1>0 DEF Join, Goals, Runs
  <2> QED
    BY <1>1, <2>1 DEF Sound, Joined, Counted, Progress
<1>2. CASE m.run.on
  <2> DEFINE run == [m.run EXCEPT !.participated = TRUE, !.baseline = m.run.tokens,
                                  !.base = m.goal.used]
  <2>1. /\ run \in Runs /\ run.on /\ run.participated /\ run.attempt = m.run.attempt
        /\ run.baseline = m.run.tokens /\ run.tokens = m.run.tokens
        /\ run.base = m.goal.used
    BY <1>0, <1>2 DEF Runs, Goals
  <2>2. Join(m) = [m EXCEPT !.run = run]
    BY <1>2 DEF Join
  <2> HIDE DEF run
  <2>3. /\ Join(m) \in States /\ Join(m).run = run /\ Join(m).goal = m.goal
        /\ Join(m).stored = m.stored
    BY <2>1, <2>2 DEF States
  <2>4. m.run.tokens \in Nat /\ m.goal.used \in Nat
    BY <1>0 DEF Runs, Goals
  <2>5. Progress(Join(m)) = m.goal.used
    BY <2>1, <2>3, <2>4 DEF Progress
  <2>6. Joined(Join(m)) /\ Counted(Join(m), active, all)
    BY <2>1, <2>3, <2>4, <2>5 DEF Joined, Counted
  <2> QED
    BY <2>1, <2>3, <2>6 DEF Sound
<1> QED
  BY <1>1, <1>2

\* A change of the flags, or of the stage of the run.
LEMMA FlagsSound ==
  ASSUME NEW m, NEW n, NEW active \in Nat, NEW all \in Nat,
         Sound(m, active, all), n \in States,
         n.goal = m.goal, n.stored = m.stored,
         n.run.on = m.run.on, n.run.participated = m.run.participated,
         n.run.tokens = m.run.tokens, n.run.baseline = m.run.baseline,
         n.run.base = m.run.base, n.run.attempt => n.run.on
  PROVE  Sound(n, active, all)
BY DEF Sound, Joined, Counted, Progress

\* A goal that no run works for has used all that is to be counted.
LEMMA IdleSound ==
  ASSUME NEW n, NEW active \in Nat, NEW all \in Nat,
         n \in States, n.stored = n.goal, n.run.attempt => n.run.on,
         ~n.run.participated, n.goal.status = "active" => ~n.run.on,
         n.goal.status # "none" => active =< n.goal.used /\ n.goal.used =< all
  PROVE  Sound(n, active, all)
<1>1. n.goal.used \in Nat
  BY DEF States, Goals
<1> QED
  BY <1>1 DEF Sound, Joined, Counted, Progress

\* Another status or budget; a goal that stops being active is accounted for.
LEMMA StatusSound ==
  ASSUME NEW m, NEW n, NEW active \in Nat, NEW all \in Nat,
         Sound(m, active, all), m.goal.status # "none",
         (m.goal.status = "active" /\ n.goal.status # "active")
           => Progress(m) = m.goal.used,
         n \in States, n.stored = n.goal, n.run = m.run,
         n.goal.used = m.goal.used, n.goal.status # "none",
         (n.goal.status = "active" /\ n.run.on) => n.run.participated
  PROVE  Sound(n, active, all)
<1>1. m.goal.used \in Nat /\ Progress(n) = Progress(m)
  BY DEF Sound, States, Goals, Progress
<1>2. /\ active =< IF m.goal.status = "active" THEN Progress(m) ELSE m.goal.used
      /\ m.goal.used =< Progress(m) /\ Progress(m) =< all
  BY <1>1 DEF Sound, Counted
<1>3. Joined(n)
  BY DEF Sound, Joined
<1>4. m.run \in Runs
  BY DEF Sound, States
<1>5. Progress(m) \in Int
  BY <1>1, <1>4 DEF Progress, Runs
<1> QED
  BY <1>1, <1>2, <1>3, <1>5 DEF Sound, Counted

\* What has been counted of a goal that is accounted for or not active.
LEMMA UsedBounds ==
  ASSUME NEW m, NEW active \in Nat, NEW all \in Nat, Sound(m, active, all),
         m.goal.status # "none",
         m.goal.status # "active" \/ ~m.run.participated
           \/ Progress(m) = m.goal.used
  PROVE  active =< m.goal.used /\ m.goal.used =< all
<1>1. m.goal.used \in Nat /\ m.run \in Runs
  BY DEF Sound, States, Goals
<1>2. Progress(m) \in Int
  BY <1>1 DEF Progress, Runs
<1>3. ~m.run.participated => Progress(m) = m.goal.used
  BY DEF Progress
<1> QED
  BY <1>1, <1>2, <1>3 DEF Sound, Counted

\* Asking for a continuation concerns the flags only.
LEMMA RequestSound ==
  ASSUME NEW m, NEW active \in Nat, NEW all \in Nat, Sound(m, active, all),
         NEW busy \in BOOLEAN
  PROVE  Sound(Request(m, busy), active, all) /\ Request(m, busy).run = m.run
<1>1. /\ Request(m, busy) \in States /\ Request(m, busy).goal = m.goal
      /\ Request(m, busy).stored = m.stored /\ Request(m, busy).run = m.run
  BY DEF Sound, States, Request
<1>2. m.run.attempt => m.run.on
  BY DEF Sound, Joined
<1> QED
  BY <1>1, <1>2, FlagsSound

LEMMA AgentStartSound ==
  ASSUME NEW m, NEW active \in Nat, NEW all \in Nat, Sound(m, active, all)
  PROVE  Sound(OnAgentStart(m), active, all) /\ OnAgentStart(m).run.attempt
<1> DEFINE old == IF m.run.on THEN m.run ELSE NoRun
           run == [old EXCEPT !.on = TRUE, !.attempt = TRUE, !.driven = m.outstanding]
           started == [m EXCEPT !.run = run, !.outstanding = FALSE, !.queued = FALSE,
                                !.stop = IF m.run.on THEN m.stop ELSE "none"]
<1>0. m \in States /\ m.run \in Runs /\ m.goal \in Goals /\ m.stored = m.goal
      /\ m.outstanding \in BOOLEAN
  BY DEF Sound, States
<1>1. OnAgentStart(m) = IF m.goal.status = "active" /\ ~started.run.participated
                        THEN Join(started) ELSE started
  BY DEF OnAgentStart
<1>2. old \in Runs
  BY <1>0 DEF NoRun, Runs
<1> HIDE DEF old
<1>3. /\ run \in Runs /\ run.on /\ run.attempt
      /\ run.participated = old.participated /\ run.tokens = old.tokens
      /\ run.baseline = old.baseline /\ run.base = old.base
  BY <1>0, <1>2 DEF Runs
<1> HIDE DEF run
<1>4. /\ started \in States /\ started.run = run
      /\ started.goal = m.goal /\ started.stored = m.goal
  BY <1>0, <1>3 DEF States
<1> HIDE DEF started
<1>5. CASE m.run.on
  <2>1. old = m.run
    BY <1>5 DEF old
  <2>2. Sound(started, active, all)
    BY <1>0, <1>3, <1>4, <1>5, <2>1, FlagsSound
  <2>3. m.goal.status = "active" => started.run.participated
    BY <1>3, <1>4, <1>5, <2>1 DEF Sound, Joined
  <2> QED
    BY <1>1, <1>3, <1>4, <2>2, <2>3
<1>6. CASE ~m.run.on
  <2>1. ~run.participated /\ ~m.run.participated
    BY <1>3, <1>6 DEF old, NoRun, Sound, Joined
  <2>2. m.goal.status # "none" => active =< m.goal.used /\ m.goal.used =< all
    BY <2>1, UsedBounds
  <2>3. CASE m.goal.status = "active"
    <3>1. Sound(Join(started), active, all) /\ Join(started).run.attempt
      BY <1>3, <1>4, <2>1, <2>2, <2>3, JoinSound
    <3> QED
      BY <1>1, <1>4, <2>1, <2>3, <3>1
  <2>4. CASE m.goal.status # "active"
    <3>1. Sound(started, active, all)
      BY <1>3, <1>4, <2>1, <2>2, <2>4, IdleSound
    <3> QED
      BY <1>1, <1>3, <1>4, <2>4, <3>1
  <2> QED
    BY <2>3, <2>4
<1> QED
  BY <1>5, <1>6

LEMMA AgentEndSound ==
  ASSUME NEW m, NEW active \in Nat, NEW all \in Nat, Sound(m, active, all),
         NEW outcome \in {"stop", "error", "aborted"}, NEW ok \in BOOLEAN
  PROVE  Sound(OnAgentEnd(m, outcome, ok), active, all)
<1> DEFINE run == [m.run EXCEPT !.attempt = FALSE]
           ended == [m EXCEPT !.run = run, !.stop = outcome]
           counted == IF ok THEN Account(ended) ELSE ended
           final == [counted EXCEPT !.pending = (m.goal.status = "active")]
<1>1. m \in States /\ m.run \in Runs
  BY DEF Sound, States
<1>2. /\ run \in Runs /\ ~run.attempt /\ run.on = m.run.on
      /\ run.participated = m.run.participated /\ run.tokens = m.run.tokens
      /\ run.baseline = m.run.baseline /\ run.base = m.run.base
  BY <1>1 DEF Runs
<1>3. OnAgentEnd(m, outcome, ok) = IF m.run.participated THEN final ELSE ended
  BY DEF OnAgentEnd
<1> HIDE DEF run
<1>4. /\ ended \in States /\ ended.run = run
      /\ ended.goal = m.goal /\ ended.stored = m.stored
  BY <1>1, <1>2 DEF States
<1> HIDE DEF ended
<1>5. Sound(ended, active, all)
  BY <1>2, <1>4, FlagsSound
<1>6. Sound(counted, active, all)
  BY <1>5, AccountSound
<1> HIDE DEF counted
<1>7. /\ final \in States /\ final.goal = counted.goal
      /\ final.stored = counted.stored /\ final.run = counted.run
  BY <1>6 DEF Sound, States
<1> HIDE DEF final
<1>8. Sound(final, active, all)
  <2>1. counted.run.attempt => counted.run.on
    BY <1>6 DEF Sound, Joined
  <2> QED
    BY <1>6, <1>7, <2>1, FlagsSound
<1> QED
  BY <1>3, <1>5, <1>8

-----------------------------------------------------------------------------
(* The parts the methods are made of. *)

LEMMA CommitFacts ==
  ASSUME NEW m, NEW changed \in States
  PROVE  /\ Commit(m, changed, TRUE) \in States
         /\ Commit(m, changed, TRUE).goal = changed.goal
         /\ Commit(m, changed, TRUE).stored = changed.goal
         /\ Commit(m, changed, TRUE).run = changed.run
         /\ Commit(m, changed, TRUE).pending = changed.pending
         /\ Commit(m, changed, FALSE) = m
BY DEF Commit, States

LEMMA StoreFacts ==
  ASSUME NEW m \in States, NEW goal \in Goals
  PROVE  /\ Store(m, goal) \in States /\ Store(m, goal).goal = goal
         /\ Store(m, goal).stored = goal /\ Store(m, goal).run = m.run
         /\ Store(m, goal).pending = m.pending
BY DEF Store, States

LEMMA BecomeFacts ==
  ASSUME NEW m \in States, NEW status \in Statuses
  PROVE  /\ Become(m, status) \in States /\ Become(m, status).run = m.run
         /\ Become(m, status).goal.status = status
         /\ Become(m, status).goal.used = m.goal.used
         /\ Become(m, status).pending = m.pending
<1> DEFINE goal == [m.goal EXCEPT !.status = status]
<1>1. goal \in Goals /\ goal.status = status /\ goal.used = m.goal.used
  BY DEF States, Goals
<1>2. Become(m, status) = [m EXCEPT !.goal = goal]
  BY DEF Become
<1> HIDE DEF goal
<1> QED
  BY <1>1, <1>2 DEF States

LEMMA SetStatusFacts ==
  ASSUME NEW m \in States, NEW status \in Statuses
  PROVE  /\ SetStatus(m, status) \in States /\ SetStatus(m, status).run = m.run
         /\ SetStatus(m, status).stored = SetStatus(m, status).goal
         /\ SetStatus(m, status).goal.status = status
         /\ SetStatus(m, status).goal.used = m.goal.used
<1> DEFINE goal == [m.goal EXCEPT !.status = status]
<1>1. goal \in Goals /\ goal.status = status /\ goal.used = m.goal.used
  BY DEF States, Goals
<1>2. SetStatus(m, status) = Store(m, goal)
  BY DEF SetStatus
<1> HIDE DEF goal
<1> QED
  BY <1>1, <1>2, StoreFacts

LEMMA LeaveFacts ==
  ASSUME NEW m \in States
  PROVE  /\ Leave(m) \in States /\ Leave(m).goal = m.goal
         /\ Leave(m).stored = m.stored /\ ~Leave(m).run.participated
         /\ Leave(m).run.on = m.run.on /\ Leave(m).run.attempt = m.run.attempt
         /\ Leave(m).pending = m.pending
<1> DEFINE run == [m.run EXCEPT !.participated = FALSE]
<1>1. /\ run \in Runs /\ ~run.participated /\ run.on = m.run.on
      /\ run.attempt = m.run.attempt
  BY DEF States, Runs
<1>2. Leave(m) = [m EXCEPT !.run = run]
  BY DEF Leave
<1> HIDE DEF run
<1> QED
  BY <1>1, <1>2 DEF States

LEMMA QuietFacts ==
  ASSUME NEW m \in States
  PROVE  /\ Quiet(m) \in States /\ Quiet(m).goal = m.goal
         /\ Quiet(m).stored = m.stored /\ Quiet(m).run = m.run
         /\ ~Quiet(m).pending
BY DEF Quiet, States

\* The run ends for the runtime.
LEMMA NoRunFacts ==
  ASSUME NEW m \in States, NEW n, NEW pending \in BOOLEAN,
         n = [m EXCEPT !.run = NoRun, !.pending = pending]
  PROVE  /\ n \in States /\ n.goal = m.goal /\ n.stored = m.stored
         /\ ~n.run.on /\ ~n.run.participated /\ ~n.run.attempt
<1>1. NoRun \in Runs /\ ~NoRun.on /\ ~NoRun.participated /\ ~NoRun.attempt
  BY DEF NoRun, Runs
<1> HIDE DEF NoRun
<1> QED
  BY <1>1 DEF States

-----------------------------------------------------------------------------
(* The methods that run when a run has settled or a session starts. *)

\* What a method answers is sound, and an attempt that runs still does.
Keeps(m, n, active, all) ==
  Sound(n, active, all) /\ (m.run.attempt => n.run.attempt)

LEMMA DecideSound ==
  ASSUME NEW m, NEW active \in Nat, NEW all \in Nat, Sound(m, active, all),
         m.goal.status = "active", Progress(m) = m.goal.used, ~m.run.attempt,
         NEW limit \in BOOLEAN, NEW ok \in BOOLEAN, NEW busy \in BOOLEAN
  PROVE  Keeps(m, Decide(m, limit, ok, busy), active, all)
<1>0. m \in States /\ m.stored = m.goal
  BY DEF Sound
<1>1. active =< m.goal.used /\ m.goal.used =< all
  BY UsedBounds
<1>2. Verdict(m, limit) \in Statuses \ {"none"}
  BY DEF Verdict, Statuses
<1>3. CASE Verdict(m, limit) = "active"
  <2> DEFINE n == [m EXCEPT !.run = NoRun, !.pending = TRUE]
  <2>1. /\ n \in States /\ n.goal = m.goal /\ n.stored = m.stored
        /\ ~n.run.on /\ ~n.run.participated /\ ~n.run.attempt
    BY <1>0, NoRunFacts
  <2>2. Decide(m, limit, ok, busy) = Request(n, busy)
    BY <1>3 DEF Decide
  <2> HIDE DEF n
  <2>3. Sound(n, active, all)
    BY <1>0, <1>1, <2>1, IdleSound
  <2>4. Sound(Request(n, busy), active, all) /\ Request(n, busy).run = n.run
    BY <2>3, RequestSound
  <2> QED
    BY <2>1, <2>2, <2>4 DEF Keeps
<1>4. CASE Verdict(m, limit) # "active" /\ ok
  <2> DEFINE q == Quiet(m)
             p == SetStatus(q, Verdict(m, limit))
             n == [p EXCEPT !.run = NoRun]
  <2>1. q \in States /\ q.goal = m.goal
    BY <1>0, QuietFacts
  <2>2. Decide(m, limit, ok, busy) = n
    BY <1>4 DEF Decide
  <2> HIDE DEF q
  <2>3. /\ p \in States /\ p.stored = p.goal
        /\ p.goal.status = Verdict(m, limit) /\ p.goal.used = m.goal.used
    BY <1>2, <2>1, SetStatusFacts
  <2> HIDE DEF p
  <2>4. NoRun \in Runs /\ ~NoRun.on /\ ~NoRun.participated /\ ~NoRun.attempt
    BY DEF NoRun, Runs
  <2>5. n \in States /\ n.run = NoRun /\ n.goal = p.goal /\ n.stored = p.stored
    BY <2>3, <2>4 DEF States
  <2> HIDE DEF n, NoRun
  <2>6. Sound(n, active, all)
    BY <1>1, <1>4, <2>3, <2>4, <2>5, IdleSound
  <2> QED
    BY <2>2, <2>4, <2>5, <2>6 DEF Keeps
<1>5. CASE Verdict(m, limit) # "active" /\ ~ok
  <2> DEFINE q == Quiet(m)
             n == [q EXCEPT !.pending = TRUE]
  <2>1. q \in States /\ q.goal = m.goal /\ q.stored = m.stored /\ q.run = m.run
    BY <1>0, QuietFacts
  <2>2. Decide(m, limit, ok, busy) = n
    BY <1>5 DEF Decide
  <2> HIDE DEF q
  <2>3. n \in States /\ n.goal = m.goal /\ n.stored = m.stored /\ n.run = m.run
    BY <2>1 DEF States
  <2> HIDE DEF n
  <2>4. Sound(n, active, all)
    BY <2>3, FlagsSound
  <2> QED
    BY <2>2, <2>3, <2>4 DEF Keeps
<1> QED
  BY <1>3, <1>4, <1>5

LEMMA AgentSettledSound ==
  ASSUME NEW m, NEW active \in Nat, NEW all \in Nat, Sound(m, active, all),
         NEW limit \in BOOLEAN, NEW accounted \in BOOLEAN, NEW ok \in BOOLEAN,
         NEW busy \in BOOLEAN
  PROVE  Keeps(m, OnAgentSettled(m, limit, accounted, ok, busy), active, all)
<1> DEFINE a == Account(m)
           n == OnAgentSettled(m, limit, accounted, ok, busy)
<1>1. /\ Sound(a, active, all) /\ a.run = m.run
      /\ a.goal.used = Progress(m) /\ Progress(a) = Progress(m)
  BY AccountSound
<1>2. a \in States /\ a.stored = a.goal /\ a.pending \in BOOLEAN
  BY <1>1 DEF Sound, States
<1>3. CASE m.run.attempt \/ (m.run.participated /\ ~accounted)
  <2>1. n = m
    BY <1>3 DEF OnAgentSettled
  <2> QED
    BY <2>1 DEF Keeps
<1>4. CASE ~m.run.attempt /\ (m.run.participated => accounted)
  <2>1. CASE a.goal.status = "none" \/ ~(m.run.participated \/ m.pending)
             \/ a.goal.status # "active"
    <3>1. PICK pending \in BOOLEAN : n = [a EXCEPT !.run = NoRun, !.pending = pending]
      <4>1. n = [a EXCEPT !.run = NoRun] \/ n = [a EXCEPT !.run = NoRun, !.pending = FALSE]
        BY <1>4, <2>1 DEF OnAgentSettled
      <4>2. [a EXCEPT !.run = NoRun] = [a EXCEPT !.run = NoRun, !.pending = a.pending]
        BY <1>2 DEF States
      <4> QED
        BY <1>2, <4>1, <4>2
    <3>2. /\ n \in States /\ n.goal = a.goal /\ n.stored = a.stored
          /\ ~n.run.on /\ ~n.run.participated /\ ~n.run.attempt
      BY <1>2, <3>1, NoRunFacts
    <3>3. a.goal.status # "none" => active =< a.goal.used /\ a.goal.used =< all
      BY <1>1, UsedBounds
    <3> HIDE DEF a, n
    <3>4. Sound(n, active, all)
      BY <1>2, <3>2, <3>3, IdleSound
    <3> QED
      BY <1>4, <3>2, <3>4 DEF Keeps, n
  <2>2. CASE a.goal.status = "active" /\ (m.run.participated \/ m.pending)
    <3>1. n = Decide(a, limit, ok, busy)
      BY <1>4, <2>2 DEF OnAgentSettled
    <3> HIDE DEF a
    <3>2. Keeps(a, Decide(a, limit, ok, busy), active, all)
      BY <1>1, <1>4, <2>2, DecideSound
    <3> QED
      BY <1>1, <3>1, <3>2 DEF Keeps
  <2> QED
    BY <2>1, <2>2
<1> QED
  BY <1>3, <1>4

LEMMA SessionReadySound ==
  ASSUME NEW m, NEW active \in Nat, NEW all \in Nat, Sound(m, active, all),
         NEW ok \in BOOLEAN, NEW busy \in BOOLEAN
  PROVE  Keeps(m, OnSessionReady(m, ok, busy), active, all)
<1> DEFINE asking == [m EXCEPT !.pending = TRUE]
           limited == SetStatus(m, "budget_limited")
           n == [limited EXCEPT !.pending = FALSE]
<1>0. m \in States /\ m.stored = m.goal /\ (m.run.attempt => m.run.on)
      /\ (m.run.participated => m.run.on)
  BY DEF Sound, Joined
<1>1. asking \in States /\ asking.goal = m.goal /\ asking.stored = m.stored
      /\ asking.run = m.run
  BY <1>0 DEF States
<1>2. OnSessionReady(m, ok, busy) \in {m, asking, Request(asking, busy)}
      \/ (m.goal.status = "active" /\ ~m.run.on /\ OnSessionReady(m, ok, busy) = n)
  BY DEF OnSessionReady
<1> HIDE DEF asking
<1>3. Sound(asking, active, all)
  BY <1>0, <1>1, FlagsSound
<1>4. Sound(Request(asking, busy), active, all) /\ Request(asking, busy).run = m.run
  BY <1>1, <1>3, RequestSound
<1>5. /\ limited \in States /\ limited.run = m.run /\ limited.stored = limited.goal
      /\ limited.goal.status = "budget_limited" /\ limited.goal.used = m.goal.used
  BY <1>0, SetStatusFacts DEF Statuses
<1> HIDE DEF limited
<1>6. n \in States /\ n.run = m.run /\ n.stored = limited.stored /\ n.goal = limited.goal
  BY <1>5 DEF States
<1> HIDE DEF n
<1>7. CASE m.goal.status = "active" /\ ~m.run.on
  <2>1. Progress(m) = m.goal.used
    BY <1>0, <1>7 DEF Progress
  <2>2. Sound(n, active, all)
    BY <1>5, <1>6, <1>7, <2>1, StatusSound
  <2> QED
    BY <1>1, <1>2, <1>3, <1>4, <1>6, <2>2 DEF Keeps
<1> QED
  BY <1>1, <1>2, <1>3, <1>4, <1>7 DEF Keeps

-----------------------------------------------------------------------------
(* The methods of the tools and the user's commands. *)

\* Most of them account for an active goal first.
LEMMA AccountedSound ==
  ASSUME NEW m, NEW active \in Nat, NEW all \in Nat, Sound(m, active, all),
         NEW a, a = IF m.goal.status = "active" THEN Account(m) ELSE m
  PROVE  /\ Sound(a, active, all) /\ a.run = m.run /\ a.goal.status = m.goal.status
         /\ a.goal.status = "active" => Progress(a) = a.goal.used
         /\ a \in States /\ a.stored = a.goal
         /\ a.goal.status # "none" => active =< a.goal.used /\ a.goal.used =< all
<1>1. /\ Sound(a, active, all) /\ a.run = m.run /\ a.goal.status = m.goal.status
      /\ a.goal.status = "active" => Progress(a) = a.goal.used
  BY AccountSound
<1>2. a.goal.status # "none" => active =< a.goal.used /\ a.goal.used =< all
  BY <1>1, UsedBounds
<1> QED
  BY <1>1, <1>2 DEF Sound

LEMMA SetPausedSound ==
  ASSUME NEW m, NEW active \in Nat, NEW all \in Nat, Sound(m, active, all),
         m.goal.status = "active", NEW ok \in BOOLEAN
  PROVE  Keeps(m, SetPaused(m, ok), active, all)
<1> DEFINE a == Account(m)
           left == Leave(a)
           paused == Become(left, "paused")
           q == Quiet(paused)
           n == Commit(a, q, TRUE)
<1>1. /\ Sound(a, active, all) /\ a.run = m.run /\ a \in States
      /\ active =< a.goal.used /\ a.goal.used =< all
  BY AccountedSound, AccountSound
<1>2. SetPaused(m, ok) = Commit(a, q, ok)
  BY DEF SetPaused
<1> HIDE DEF a
<1>3. /\ left \in States /\ left.goal = a.goal /\ ~left.run.participated
      /\ left.run.on = a.run.on /\ left.run.attempt = a.run.attempt
  BY <1>1, LeaveFacts
<1> HIDE DEF left
<1>4. /\ paused \in States /\ paused.goal.status = "paused"
      /\ paused.goal.used = a.goal.used /\ paused.run = left.run
  BY <1>3, BecomeFacts DEF Statuses
<1> HIDE DEF paused
<1>5. q \in States /\ q.goal = paused.goal /\ q.run = paused.run
  BY <1>4, QuietFacts
<1> HIDE DEF q
<1>6. n \in States /\ n.goal = q.goal /\ n.stored = q.goal /\ n.run = q.run
      /\ Commit(a, q, FALSE) = a
  BY <1>5, CommitFacts
<1> HIDE DEF n
<1>7. a.run.attempt => a.run.on
  BY <1>1 DEF Sound, Joined
<1>8. Sound(n, active, all)
  BY <1>1, <1>3, <1>4, <1>5, <1>6, <1>7, IdleSound
<1> QED
  BY <1>1, <1>2, <1>3, <1>4, <1>5, <1>6, <1>8 DEF Keeps, n

LEMMA SetActiveSound ==
  ASSUME NEW m, NEW active \in Nat, NEW all \in Nat, Sound(m, active, all),
         m.goal.status # "none", NEW ok \in BOOLEAN, NEW limit \in BOOLEAN,
         NEW okStatus \in BOOLEAN, NEW busy \in BOOLEAN
  PROVE  Keeps(m, SetActive(m, ok, limit, okStatus, busy), active, all)
<1> DEFINE become == Become(m, "active")
           changed == [become EXCEPT !.pending = TRUE, !.stop = "none"]
           n == Commit(m, changed, TRUE)
           settled == OnAgentSettled(n, limit, TRUE, okStatus, busy)
<1>0. /\ m \in States /\ m.stored = m.goal /\ (m.run.attempt => m.run.on)
      /\ (m.run.participated => m.run.on)
  BY DEF Sound, Joined
<1>1. SetActive(m, ok, limit, okStatus, busy) =
        IF ~ok THEN Commit(m, changed, FALSE)
        ELSE IF ~m.run.on THEN settled
        ELSE IF m.run.participated THEN n ELSE Join(n)
  BY DEF SetActive
<1>2. /\ become \in States /\ become.run = m.run
      /\ become.goal.status = "active" /\ become.goal.used = m.goal.used
  BY <1>0, BecomeFacts DEF Statuses
<1> HIDE DEF become
<1>3. changed \in States /\ changed.run = m.run /\ changed.goal = become.goal
  BY <1>2 DEF States
<1> HIDE DEF changed
<1>4. /\ n \in States /\ n.goal = become.goal /\ n.stored = n.goal /\ n.run = m.run
      /\ Commit(m, changed, FALSE) = m
  BY <1>3, CommitFacts
<1> HIDE DEF n
<1>5. CASE ~ok
  BY <1>1, <1>4, <1>5 DEF Keeps
<1>6. CASE ok /\ ~m.run.participated
  <2>1. active =< n.goal.used /\ n.goal.used =< all
    BY <1>2, <1>4, <1>6, UsedBounds
  <2>2. CASE m.run.on
    <3>1. Sound(Join(n), active, all) /\ Join(n).run.attempt = n.run.attempt
      BY <1>0, <1>2, <1>4, <1>6, <2>1, JoinSound
    <3> QED
      BY <1>1, <1>4, <1>6, <2>2, <3>1 DEF Keeps
  <2>3. CASE ~m.run.on
    <3>1. Sound(n, active, all)
      BY <1>0, <1>4, <1>6, <2>1, <2>3, IdleSound
    <3>2. Keeps(n, settled, active, all)
      BY <3>1, AgentSettledSound
    <3> QED
      BY <1>1, <1>4, <1>6, <2>3, <3>2 DEF Keeps
  <2> QED
    BY <2>2, <2>3
<1>7. CASE ok /\ m.run.participated
  <2>1. Sound(n, active, all)
    BY <1>2, <1>4, <1>7, StatusSound
  <2> QED
    BY <1>0, <1>1, <1>4, <1>7, <2>1 DEF Keeps
<1> QED
  BY <1>5, <1>6, <1>7

LEMMA SetObjectiveSound ==
  ASSUME NEW m, NEW active \in Nat, NEW all \in Nat, Sound(m, active, all),
         m.goal.status # "none", NEW ok \in BOOLEAN
  PROVE  Keeps(m, SetObjective(m, ok), active, all)
<1> DEFINE a == IF m.goal.status = "active" THEN Account(m) ELSE m
           become == Become(a, "active")
           changed == [become EXCEPT !.pending = TRUE, !.queued = FALSE, !.stop = "none"]
           n == Commit(a, changed, TRUE)
<1>1. /\ Sound(a, active, all) /\ a.run = m.run /\ a.goal.status = m.goal.status
      /\ a.goal.status = "active" => Progress(a) = a.goal.used
      /\ a \in States /\ a.stored = a.goal
      /\ active =< a.goal.used /\ a.goal.used =< all
  BY AccountedSound
<1>2. SetObjective(m, ok) =
        IF ok /\ ~(m.goal.status = "active" /\ m.run.participated)
        THEN Join(Commit(a, changed, ok)) ELSE Commit(a, changed, ok)
  BY DEF SetObjective
<1> HIDE DEF a
<1>3. /\ become \in States /\ become.run = a.run
      /\ become.goal.status = "active" /\ become.goal.used = a.goal.used
  BY <1>1, BecomeFacts DEF Statuses
<1> HIDE DEF become
<1>4. changed \in States /\ changed.run = a.run /\ changed.goal = become.goal
  BY <1>3 DEF States
<1> HIDE DEF changed
<1>5. /\ n \in States /\ n.goal = become.goal /\ n.stored = n.goal /\ n.run = a.run
      /\ Commit(a, changed, FALSE) = a
  BY <1>4, CommitFacts
<1>6. ok => Commit(a, changed, ok) = n
  OBVIOUS
<1> HIDE DEF n
<1>7. (a.run.attempt => a.run.on) /\ (a.run.participated => a.run.on)
  BY <1>1 DEF Sound, Joined
<1>8. CASE ~ok
  BY <1>1, <1>2, <1>5, <1>8 DEF Keeps
<1>9. CASE ok /\ ~(m.goal.status = "active" /\ m.run.participated)
  <2>1. Sound(Join(n), active, all) /\ Join(n).run.attempt = n.run.attempt
    BY <1>1, <1>3, <1>5, <1>7, JoinSound
  <2> QED
    BY <1>1, <1>2, <1>5, <1>6, <1>9, <2>1 DEF Keeps
<1>10. CASE ok /\ m.goal.status = "active" /\ m.run.participated
  <2>1. Sound(n, active, all)
    BY <1>1, <1>3, <1>5, <1>10, StatusSound
  <2> QED
    BY <1>1, <1>2, <1>5, <1>6, <1>10, <2>1 DEF Keeps
<1> QED
  BY <1>8, <1>9, <1>10

LEMMA SetTokenBudgetSound ==
  ASSUME NEW m, NEW active \in Nat, NEW all \in Nat, Sound(m, active, all),
         m.goal.status # "none", NEW ok \in BOOLEAN, NEW budget \in Nat
  PROVE  Keeps(m, SetTokenBudget(m, budget, ok), active, all)
<1> DEFINE a == IF m.goal.status = "active" THEN Account(m) ELSE m
           next == [a.goal EXCEPT !.budget = budget]
           status == CASE next.status # "complete" /\ Exhausted(next) -> "budget_limited"
                       [] next.status = "budget_limited" /\ ~Exhausted(next) -> "paused"
                       [] OTHER -> next.status
           goal == [next EXCEPT !.status = status]
           set == Store(a, goal)
<1>1. /\ Sound(a, active, all) /\ a.run = m.run /\ a.goal.status = m.goal.status
      /\ a.goal.status = "active" => Progress(a) = a.goal.used
      /\ a \in States /\ a.stored = a.goal
  BY AccountedSound
<1>2. SetTokenBudget(m, budget, ok) =
        IF ~ok THEN a ELSE IF status = "active" THEN set ELSE Quiet(set)
  BY DEF SetTokenBudget
<1> HIDE DEF a
<1>3. next \in Goals /\ next.status = a.goal.status /\ next.used = a.goal.used
  BY <1>1 DEF States, Goals
<1> HIDE DEF next
<1>4. /\ status \in Statuses \ {"none"}
      /\ status = "active" => a.goal.status = "active"
  BY <1>1, <1>3 DEF Goals, Statuses
<1> HIDE DEF status
<1>5. goal \in Goals /\ goal.status = status /\ goal.used = a.goal.used
  BY <1>3, <1>4 DEF Goals
<1> HIDE DEF goal
<1>6. set \in States /\ set.goal = goal /\ set.stored = goal /\ set.run = a.run
  BY <1>1, <1>5, StoreFacts
<1> HIDE DEF set
<1>7. (a.goal.status = "active" /\ a.run.on) => a.run.participated
  BY <1>1 DEF Sound, Joined
<1>8. Sound(set, active, all)
  BY <1>1, <1>4, <1>5, <1>6, <1>7, StatusSound
<1>9. /\ Quiet(set) \in States /\ Quiet(set).goal = set.goal
      /\ Quiet(set).stored = set.stored /\ Quiet(set).run = set.run
  BY <1>6, QuietFacts
<1>10. set.run.attempt => set.run.on
  BY <1>8 DEF Sound, Joined
<1>11. Sound(Quiet(set), active, all)
  BY <1>8, <1>9, <1>10, FlagsSound
<1> QED
  BY <1>1, <1>2, <1>6, <1>8, <1>9, <1>11 DEF Keeps

LEMMA UpdateSound ==
  ASSUME NEW m, NEW active \in Nat, NEW all \in Nat, Sound(m, active, all),
         m.goal.status # "none", NEW status \in {"complete", "blocked"},
         NEW ok \in BOOLEAN
  PROVE  Keeps(m, Update(m, status, ok), active, all)
<1> DEFINE a == IF m.goal.status = "active" THEN Account(m) ELSE m
           become == Become(a, status)
           changed == [become EXCEPT !.pending = FALSE]
           n == Commit(a, changed, TRUE)
<1>1. /\ Sound(a, active, all) /\ a.run = m.run /\ a.goal.status = m.goal.status
      /\ a.goal.status = "active" => Progress(a) = a.goal.used
      /\ a \in States /\ a.stored = a.goal
  BY AccountedSound
<1>2. Update(m, status, ok) = Commit(a, changed, ok)
  BY DEF Update
<1> HIDE DEF a
<1>3. /\ become \in States /\ become.run = a.run
      /\ become.goal.status = status /\ become.goal.used = a.goal.used
  BY <1>1, BecomeFacts DEF Statuses
<1> HIDE DEF become
<1>4. changed \in States /\ changed.run = a.run /\ changed.goal = become.goal
  BY <1>3 DEF States
<1> HIDE DEF changed
<1>5. /\ n \in States /\ n.goal = become.goal /\ n.stored = n.goal /\ n.run = a.run
      /\ Commit(a, changed, FALSE) = a
  BY <1>4, CommitFacts
<1>6. ok => Commit(a, changed, ok) = n
  OBVIOUS
<1> HIDE DEF n
<1>7. Sound(n, active, all)
  BY <1>1, <1>3, <1>5, StatusSound
<1> QED
  BY <1>1, <1>2, <1>5, <1>6, <1>7 DEF Keeps

\* A goal that is set starts counting from zero.
LEMMA StartGoalSound ==
  ASSUME NEW m, NEW active \in Nat, NEW all \in Nat, Sound(m, active, all),
         NEW budget \in Nat
  PROVE  /\ Keeps(m, StartGoal(m, budget, TRUE), 0, 0)
         /\ StartGoal(m, budget, FALSE) = m
<1> DEFINE goal == [status |-> "active", used |-> 0, budget |-> budget]
           changed == [m EXCEPT !.goal = goal]
           q == Quiet(changed)
           n == Commit(m, q, TRUE)
<1>0. /\ m \in States /\ (m.run.attempt => m.run.on)
      /\ (m.run.participated => m.run.on)
  BY DEF Sound, Joined
<1>1. goal \in Goals /\ goal.status = "active" /\ goal.used = 0
  BY DEF Goals, Statuses
<1>2. /\ StartGoal(m, budget, TRUE) = Join(n)
      /\ StartGoal(m, budget, FALSE) = Commit(m, q, FALSE)
  BY DEF StartGoal
<1> HIDE DEF goal
<1>3. changed \in States /\ changed.goal = goal /\ changed.run = m.run
  BY <1>0, <1>1 DEF States
<1> HIDE DEF changed
<1>4. q \in States /\ q.goal = goal /\ q.run = m.run
  BY <1>3, QuietFacts
<1> HIDE DEF q
<1>5. n \in States /\ n.goal = goal /\ n.stored = goal /\ n.run = m.run
      /\ Commit(m, q, FALSE) = m
  BY <1>4, CommitFacts
<1> HIDE DEF n
<1>6. Sound(Join(n), 0, 0) /\ Join(n).run.attempt = n.run.attempt
  BY <1>0, <1>1, <1>5, JoinSound
<1> QED
  BY <1>2, <1>5, <1>6 DEF Keeps

LEMMA ClearSound ==
  ASSUME NEW m, NEW active \in Nat, NEW all \in Nat, Sound(m, active, all)
  PROVE  /\ Keeps(m, Clear(m, TRUE), 0, 0)
         /\ Keeps(m, Clear(m, FALSE), active, all)
<1> DEFINE a == IF m.goal.status = "active" THEN Account(m) ELSE m
           none == Store(a, NoGoal)
           left == Leave(none)
           q == Quiet(left)
           n == [q EXCEPT !.stop = "none"]
<1>1. Sound(a, active, all) /\ a.run = m.run /\ a \in States
  BY AccountedSound
<1>2. Clear(m, TRUE) = n /\ Clear(m, FALSE) = a
  BY DEF Clear
<1> HIDE DEF a
<1>3. NoGoal \in Goals /\ NoGoal.status = "none"
  BY DEF NoGoal, Goals, Statuses
<1>4. none \in States /\ none.goal = NoGoal /\ none.stored = NoGoal /\ none.run = a.run
  BY <1>1, <1>3, StoreFacts
<1> HIDE DEF none
<1>5. /\ left \in States /\ left.goal = NoGoal /\ left.stored = NoGoal
      /\ ~left.run.participated
      /\ left.run.on = a.run.on /\ left.run.attempt = a.run.attempt
  BY <1>4, LeaveFacts
<1> HIDE DEF left
<1>6. q \in States /\ q.goal = NoGoal /\ q.stored = NoGoal /\ q.run = left.run
  BY <1>5, QuietFacts
<1> HIDE DEF q
<1>7. n \in States /\ n.goal = NoGoal /\ n.stored = NoGoal /\ n.run = left.run
  BY <1>6 DEF States
<1> HIDE DEF n
<1>8. a.run.attempt => a.run.on
  BY <1>1 DEF Sound, Joined
<1>9. Sound(n, 0, 0)
  BY <1>3, <1>5, <1>7, <1>8, IdleSound
<1> QED
  BY <1>1, <1>2, <1>5, <1>7, <1>9 DEF Keeps

-----------------------------------------------------------------------------
(* The steps. *)

LEMMA FreshSound ==
  ASSUME NEW goal \in Goals
  PROVE  Sound(Fresh(goal), goal.used, goal.used) /\ goal.used \in Nat
<1> DEFINE m == Fresh(goal)
<1>1. NoRun \in Runs /\ ~NoRun.on /\ ~NoRun.participated /\ ~NoRun.attempt
  BY DEF NoRun, Runs
<1> HIDE DEF NoRun
<1>2. m \in States /\ m.goal = goal /\ m.stored = goal /\ m.run = NoRun
  BY <1>1 DEF Fresh, States
<1>3. goal.used \in Nat
  BY DEF Goals
<1> HIDE DEF m
<1>4. Sound(m, goal.used, goal.used)
  BY <1>1, <1>2, <1>3, IdleSound
<1> QED
  BY <1>3, <1>4 DEF m

\* Handing the answer to the host concerns one flag.
LEMMA AnswerSound ==
  ASSUME NEW m, NEW active \in Nat, NEW all \in Nat, NEW abort,
         GoalInv, Keeps(g, m, active, all), Answer(m, abort),
         activeTokens' = active, allTokens' = all
  PROVE  GoalInv'
<1> DEFINE n == [m EXCEPT !.sent = FALSE]
<1>1. m \in States /\ Sound(m, active, all) /\ (m.run.attempt => m.run.on)
  BY DEF Keeps, Sound, Joined
<1>2. /\ n \in States /\ n.goal = m.goal /\ n.stored = m.stored /\ n.run = m.run
  BY <1>1 DEF States
<1>3. g' = n /\ (host' = "attempt" => host = "attempt")
  BY DEF Answer
<1> HIDE DEF n
<1>4. Sound(n, active, all)
  BY <1>1, <1>2, FlagsSound
<1>5. Sound(g', activeTokens', allTokens')
  BY <1>3, <1>4
<1>6. host' = "attempt" => g'.run.attempt
  BY <1>2, <1>3 DEF GoalInv, Keeps
<1> QED
  BY <1>5, <1>6 DEF GoalInv, Sound, States, Joined, Counted, Progress, Active

\* The same, when the tokens of the goal are not touched.
LEMMA AnswerKeepsSound ==
  ASSUME NEW m, NEW abort, GoalInv, Keeps(g, m, activeTokens, allTokens),
         Answer(m, abort), UNCHANGED historyVars
  PROVE  GoalInv'
BY AnswerSound DEF GoalInv, historyVars

\* A step that leaves the runtime alone.
LEMMA HostKeepsSound ==
  ASSUME GoalInv, UNCHANGED <<g, historyVars>>, host' = "attempt" => host = "attempt"
  PROVE  GoalInv'
BY DEF GoalInv, historyVars, Sound, States, Joined, Counted, Progress, Active

LEMMA BeginSound ==
  ASSUME GoalInv, NEW who, Begin(who)
  PROVE  GoalInv'
<1>1. /\ activeTokens' = activeTokens /\ allTokens' = allTokens
      /\ g' = OnAgentStart(g)
  BY DEF Begin, historyVars
<1>2. Sound(OnAgentStart(g), activeTokens, allTokens) /\ OnAgentStart(g).run.attempt
  BY AgentStartSound DEF GoalInv
<1>3. Sound(g', activeTokens', allTokens') /\ g'.run.attempt
  BY <1>1, <1>2
<1> QED
  BY <1>1, <1>3 DEF GoalInv, Sound, States, Joined, Counted, Progress, Active

\* A message of an active goal is one of a run the goal takes part in.
LEMMA MessageSound ==
  ASSUME GoalInv, MessageEnds
  PROVE  GoalInv'
<1> DEFINE run == [g.run EXCEPT !.tokens = @ + 1]
           n == [g EXCEPT !.run = run]
<1>0. /\ g \in States /\ g.run \in Runs /\ g.goal \in Goals /\ g.stored = g.goal
      /\ activeTokens \in Nat /\ allTokens \in Nat /\ g.run.attempt
      /\ Joined(g) /\ Counted(g, activeTokens, allTokens)
  BY DEF GoalInv, Sound, States, MessageEnds
<1>1. /\ run \in Runs /\ run.tokens = g.run.tokens + 1 /\ run.on = g.run.on
      /\ run.attempt = g.run.attempt /\ run.participated = g.run.participated
      /\ run.baseline = g.run.baseline /\ run.base = g.run.base
  <2>1. g.run.tokens + 1 \in Nat
    BY <1>0 DEF Runs
  <2> QED
    BY <1>0, <2>1 DEF Runs
<1>2. /\ g' = n /\ allTokens' = allTokens + 1 /\ host' = host
      /\ activeTokens' = IF g.goal.status = "active" THEN activeTokens + 1
                         ELSE activeTokens
  BY DEF MessageEnds, Count, hostVars
<1> HIDE DEF run
<1>3. n \in States /\ n.run = run /\ n.goal = g.goal /\ n.stored = g.goal
  BY <1>0, <1>1 DEF States
<1> HIDE DEF n
<1>4. /\ g.run.tokens \in Nat /\ g.run.baseline \in Nat /\ g.run.base \in Nat
      /\ g.goal.used \in Nat
  BY <1>0 DEF Runs, Goals
<1>5. Joined(n)
  BY <1>0, <1>1, <1>3, <1>4 DEF Joined
<1>6. Progress(n) = IF g.run.participated THEN Progress(g) + 1 ELSE Progress(g)
  BY <1>1, <1>3, <1>4 DEF Progress
<1>7. Progress(g) \in Int /\ (g.goal.status = "active" => g.run.participated)
  BY <1>0, <1>4 DEF Progress, Joined
<1>8. Counted(n, activeTokens', allTokens')
  BY <1>0, <1>2, <1>3, <1>4, <1>6, <1>7 DEF Counted
<1>9. Sound(n, activeTokens', allTokens')
  BY <1>3, <1>5, <1>8 DEF Sound
<1>10. activeTokens' \in Nat /\ allTokens' \in Nat
  BY <1>0, <1>2
<1>11. n.run.attempt
  BY <1>0, <1>1, <1>3
<1> QED
  BY <1>2, <1>9, <1>10, <1>11 DEF GoalInv, Sound, States, Joined, Counted, Progress, Active

LEMMA AttemptEndsSound ==
  ASSUME GoalInv, NEW outcome \in {"stop", "error", "aborted"}, NEW ok \in BOOLEAN,
         AttemptEnds(outcome, ok)
  PROVE  GoalInv'
<1>1. /\ activeTokens' = activeTokens /\ allTokens' = allTokens
      /\ g' = OnAgentEnd(g, outcome, ok) /\ host' = "between"
  BY DEF AttemptEnds, historyVars
<1>2. Sound(OnAgentEnd(g, outcome, ok), activeTokens, allTokens)
  BY AgentEndSound DEF GoalInv
<1>3. Sound(g', activeTokens', allTokens')
  BY <1>1, <1>2
<1> QED
  BY <1>1, <1>3 DEF GoalInv, Sound, States, Joined, Counted, Progress, Active

LEMMA SettledSound ==
  ASSUME GoalInv, NEW failed \in BOOLEAN, NEW limit \in BOOLEAN,
         NEW accounted \in BOOLEAN, NEW ok \in BOOLEAN, NEW busy \in BOOLEAN,
         Settled(failed, limit, accounted, ok, busy)
  PROVE  GoalInv'
<1> DEFINE m == IF failed THEN [g EXCEPT !.stop = "error"] ELSE g
           n == OnAgentSettled(m, limit, accounted, ok, busy)
<1>0. /\ g \in States /\ activeTokens \in Nat /\ allTokens \in Nat
      /\ Sound(g, activeTokens, allTokens) /\ (g.run.attempt => g.run.on)
  BY DEF GoalInv, Sound, Joined
<1>1. m \in States /\ m.goal = g.goal /\ m.stored = g.stored /\ m.run = g.run
  BY <1>0 DEF States
<1>2. Answer(n, FALSE) /\ UNCHANGED historyVars
  BY DEF Settled
<1> HIDE DEF m
<1>3. Sound(m, activeTokens, allTokens)
  BY <1>0, <1>1, FlagsSound
<1>4. Keeps(m, n, activeTokens, allTokens)
  BY <1>0, <1>3, AgentSettledSound
<1> HIDE DEF n
<1>5. Keeps(g, n, activeTokens, allTokens)
  BY <1>1, <1>4 DEF Keeps
<1> QED
  BY <1>2, <1>5, AnswerKeepsSound

\* What was counted is what was stored: the run's tokens are gone with the process.
LEMMA RestartSound ==
  ASSUME GoalInv, NEW ok \in BOOLEAN, Restart(ok)
  PROVE  GoalInv'
<1> DEFINE fresh == Fresh(g.stored)
           m == OnSessionReady(fresh, ok, FALSE)
           n == [m EXCEPT !.sent = FALSE]
           used == g.stored.used
<1>1. /\ g' = n /\ activeTokens' = used /\ allTokens' = used
      /\ host' \in {"starting", "idle"}
  BY DEF Restart, Count
<1>2. g.stored \in Goals
  BY DEF GoalInv, Sound, States
<1>3. Sound(fresh, used, used) /\ used \in Nat
  BY <1>2, FreshSound
<1> HIDE DEF fresh, used
<1>4. Sound(m, used, used)
  BY <1>3, SessionReadySound DEF Keeps
<1> HIDE DEF m
<1>5. n \in States /\ n.goal = m.goal /\ n.stored = m.stored /\ n.run = m.run
  BY <1>4 DEF Sound, States
<1>6. m.run.attempt => m.run.on
  BY <1>4 DEF Sound, Joined
<1> HIDE DEF n
<1>7. Sound(n, used, used)
  BY <1>3, <1>4, <1>5, <1>6, FlagsSound
<1> QED
  BY <1>1, <1>3, <1>7 DEF GoalInv, Sound, States, Joined, Counted, Progress, Active

LEMMA SetGoalSound ==
  ASSUME GoalInv, NEW budget \in Budgets, NEW ok \in BOOLEAN, NEW busy \in BOOLEAN,
         SetGoal(budget, ok, busy)
  PROVE  GoalInv'
<1> DEFINE active == IF ok THEN 0 ELSE activeTokens
           all == IF ok THEN 0 ELSE allTokens
           m == StartGoal(g, budget, ok)
           zero == StartGoal(g, 0, ok)
           n == OnSessionReady(zero, TRUE, busy)
<1>0. /\ activeTokens \in Nat /\ allTokens \in Nat /\ budget \in Nat
      /\ active \in Nat /\ all \in Nat
      /\ Sound(g, activeTokens, allTokens)
  BY GoalAssumption DEF GoalInv
<1>1. activeTokens' = active /\ allTokens' = all
  BY DEF SetGoal, Count
<1>2. Keeps(g, m, active, all) /\ Keeps(g, zero, active, all)
  <2>1. \A b \in Nat : /\ Keeps(g, StartGoal(g, b, TRUE), 0, 0)
                       /\ StartGoal(g, b, FALSE) = g
    BY <1>0, StartGoalSound
  <2> QED
    BY <1>0, <2>1 DEF Keeps
<1>3. Answer(m, FALSE) \/ Answer(n, FALSE)
  BY DEF SetGoal
<1> HIDE DEF active, all, m, zero
<1>4. Keeps(zero, n, active, all)
  BY <1>0, <1>2, SessionReadySound DEF Keeps
<1> HIDE DEF n
<1>5. Keeps(g, n, active, all)
  BY <1>2, <1>4 DEF Keeps
<1> QED
  BY <1>0, <1>1, <1>2, <1>3, <1>5, AnswerSound

LEMMA EditSound ==
  ASSUME GoalInv, NEW ok \in BOOLEAN, NEW okStatus \in BOOLEAN, NEW busy \in BOOLEAN,
         Edit(ok, okStatus, busy)
  PROVE  GoalInv'
<1> DEFINE edited == SetObjective(g, ok)
           m == OnSessionReady(edited, okStatus, busy)
<1>1. /\ activeTokens \in Nat /\ allTokens \in Nat
      /\ Sound(g, activeTokens, allTokens) /\ g.goal.status # "none"
  BY DEF GoalInv, Edit
<1>2. Keeps(g, edited, activeTokens, allTokens)
  BY <1>1, SetObjectiveSound
<1>3. (Answer(m, FALSE) \/ Answer(edited, FALSE)) /\ UNCHANGED historyVars
  BY DEF Edit
<1> HIDE DEF edited
<1>4. Keeps(edited, m, activeTokens, allTokens)
  BY <1>1, <1>2, SessionReadySound DEF Keeps
<1> HIDE DEF m
<1>5. Keeps(g, m, activeTokens, allTokens)
  BY <1>2, <1>4 DEF Keeps
<1> QED
  BY <1>2, <1>3, <1>5, AnswerKeepsSound

LEMMA ClearGoalSound ==
  ASSUME GoalInv, NEW ok \in BOOLEAN, ClearGoal(ok)
  PROVE  GoalInv'
<1> DEFINE active == IF ok THEN 0 ELSE activeTokens
           all == IF ok THEN 0 ELSE allTokens
           m == Clear(g, ok)
<1>1. /\ activeTokens \in Nat /\ allTokens \in Nat
      /\ Sound(g, activeTokens, allTokens)
  BY DEF GoalInv
<1>2. /\ Keeps(g, Clear(g, TRUE), 0, 0)
      /\ Keeps(g, Clear(g, FALSE), activeTokens, allTokens)
  BY <1>1, ClearSound
<1>3. Keeps(g, m, active, all) /\ active \in Nat /\ all \in Nat
  BY <1>1, <1>2
<1>4. Answer(m, ok) /\ activeTokens' = active /\ allTokens' = all
  BY DEF ClearGoal, Count
<1> HIDE DEF active, all, m
<1> QED
  BY <1>3, <1>4, AnswerSound

LEMMA GoalStepSound == GoalInv /\ GoalStep => GoalInv'
<1> SUFFICES ASSUME GoalInv, GoalStep PROVE GoalInv'
  OBVIOUS
<1>0. /\ activeTokens \in Nat /\ allTokens \in Nat
      /\ Sound(g, activeTokens, allTokens)
  BY DEF GoalInv
<1>1. CASE \E budget \in Budgets, ok, busy \in BOOLEAN : SetGoal(budget, ok, busy)
  BY <1>1, SetGoalSound
<1>2. ASSUME NEW status \in {"complete", "blocked"}, NEW ok \in BOOLEAN,
             UpdateGoal(status, ok)
      PROVE  GoalInv'
  <2>1. Keeps(g, Update(g, status, ok), activeTokens, allTokens)
    BY <1>0, <1>2, UpdateSound DEF UpdateGoal
  <2> QED
    BY <1>2, <2>1, AnswerKeepsSound DEF UpdateGoal
<1>3. ASSUME NEW ok \in BOOLEAN, Pause(ok) PROVE GoalInv'
  <2>1. Keeps(g, SetPaused(g, ok), activeTokens, allTokens)
    BY <1>0, <1>3, SetPausedSound DEF Pause
  <2> QED
    BY <1>3, <2>1, AnswerKeepsSound DEF Pause
<1>4. CASE \E ok \in BOOLEAN : ClearGoal(ok)
  BY <1>4, ClearGoalSound
<1>5. ASSUME NEW ok \in BOOLEAN, NEW okStatus \in BOOLEAN, NEW busy \in BOOLEAN,
             Resume(ok, okStatus, busy)
      PROVE  GoalInv'
  <2>1. Keeps(g, SetActive(g, ok, FALSE, okStatus, busy), activeTokens, allTokens)
    BY <1>0, <1>5, SetActiveSound DEF Resume
  <2> QED
    BY <1>5, <2>1, AnswerKeepsSound DEF Resume
<1>6. CASE \E ok, okStatus, busy \in BOOLEAN : Edit(ok, okStatus, busy)
  BY <1>6, EditSound
<1>7. ASSUME NEW budget \in Budgets, NEW ok \in BOOLEAN, ChangeBudget(budget, ok)
      PROVE  GoalInv'
  <2>1. Keeps(g, SetTokenBudget(g, budget, ok), activeTokens, allTokens)
    BY <1>0, <1>7, SetTokenBudgetSound, GoalAssumption DEF ChangeBudget
  <2> QED
    BY <1>7, <2>1, AnswerKeepsSound DEF ChangeBudget
<1> QED
  BY <1>1, <1>2, <1>3, <1>4, <1>5, <1>6, <1>7 DEF GoalStep

LEMMA HostStepSound == GoalInv /\ HostStep => GoalInv'
<1> SUFFICES ASSUME GoalInv, HostStep PROVE GoalInv'
  OBVIOUS
<1>1. CASE Prompt \/ Drain \/ RunEnds \/ Interrupt
  BY <1>1, HostKeepsSound DEF Prompt, Drain, RunEnds, Interrupt
<1>2. CASE AttemptStarts \/ NextAttempt
  BY <1>2, BeginSound DEF AttemptStarts, NextAttempt
<1>3. CASE MessageEnds
  BY <1>3, MessageSound
<1>4. CASE AnyAttemptEnds
  BY <1>4, AttemptEndsSound DEF AnyAttemptEnds
<1>5. CASE AnySettled
  BY <1>5, SettledSound DEF AnySettled
<1>6. CASE \E ok \in BOOLEAN : Restart(ok)
  BY <1>6, RestartSound
<1> QED
  BY <1>1, <1>2, <1>3, <1>4, <1>5, <1>6 DEF HostStep

-----------------------------------------------------------------------------
(* An active goal does not come to rest. *)

\* An active goal that takes part in no run.
Resting(m) == Active(m) /\ ~m.run.on

\* A method leaves an attempt running, and asks for nothing while one runs.
Steady(m, n) ==
  /\ n.run.attempt = m.run.attempt
  /\ m.run.attempt /\ n.queued => m.queued

\* A goal that it leaves resting has a message with the host, or rested before.
Onward(m, n) ==
  /\ n.run.on => m.run.on
  /\ n.queued => n.sent \/ m.queued
  /\ Resting(n) => n.sent \/ m.queued \/ Resting(m)

\* What the parts of the methods do to the run and to what is asked for.
Calm(m, n) ==
  /\ n.run.on = m.run.on /\ n.run.attempt = m.run.attempt
  /\ n.queued => m.queued

LEMMA CalmTwice ==
  ASSUME NEW m, NEW n, NEW o, Calm(m, n), Calm(n, o)
  PROVE  Calm(m, o)
BY DEF Calm

LEMMA CalmGoes ==
  ASSUME NEW m, NEW n, Calm(m, n), Active(n) => Active(m) \/ m.run.on
  PROVE  Steady(m, n) /\ Onward(m, n)
BY DEF Calm, Steady, Onward, Resting

LEMMA CalmParts ==
  ASSUME NEW m \in States, NEW goal, NEW status
  PROVE  /\ Calm(m, Store(m, goal)) /\ Calm(m, Account(m)) /\ Calm(m, Join(m))
         /\ Calm(m, Leave(m)) /\ Calm(m, Become(m, status)) /\ Calm(m, Quiet(m))
<1>0. m.run \in Runs
  BY DEF States
<1>1. \A x : Calm(m, Store(m, x))
  BY DEF Store, States, Calm
<1>2. Calm(m, Account(m))
  <2>1. Calm(m, m)
    BY DEF Calm
  <2>2. Account(m) = m \/ \E x : Account(m) = Store(m, x)
    BY DEF Account
  <2> QED
    BY <1>1, <2>1, <2>2
<1>3. ASSUME NEW run, run.on = m.run.on, run.attempt = m.run.attempt
      PROVE  Calm(m, [m EXCEPT !.run = run])
  BY <1>3 DEF States, Calm
<1>4. Calm(m, Join(m))
  <2> DEFINE run == [m.run EXCEPT !.participated = TRUE, !.baseline = m.run.tokens,
                                  !.base = m.goal.used]
  <2>1. run.on = m.run.on /\ run.attempt = m.run.attempt
    BY <1>0 DEF Runs
  <2>2. Join(m) = IF m.run.on THEN [m EXCEPT !.run = run] ELSE m
    BY DEF Join
  <2> HIDE DEF run
  <2>3. Calm(m, m) /\ Calm(m, [m EXCEPT !.run = run])
    BY <1>3, <2>1 DEF Calm
  <2> QED
    BY <2>2, <2>3
<1>5. Calm(m, Leave(m))
  <2> DEFINE run == [m.run EXCEPT !.participated = FALSE]
  <2>1. run.on = m.run.on /\ run.attempt = m.run.attempt
    BY <1>0 DEF Runs
  <2>2. Leave(m) = [m EXCEPT !.run = run]
    BY DEF Leave
  <2> HIDE DEF run
  <2> QED
    BY <1>3, <2>1, <2>2
<1>6. Calm(m, Become(m, status))
  <2> DEFINE new == [m.goal EXCEPT !.status = status]
  <2>1. Become(m, status) = [m EXCEPT !.goal = new]
    BY DEF Become
  <2> HIDE DEF new
  <2> QED
    BY <2>1 DEF States, Calm
<1>7. Calm(m, Quiet(m))
  BY DEF Quiet, States, Calm
<1> QED
  BY <1>1, <1>2, <1>4, <1>5, <1>6, <1>7

LEMMA CalmCommit ==
  ASSUME NEW m, NEW changed \in States, Calm(m, changed), NEW ok \in BOOLEAN
  PROVE  Calm(m, Commit(m, changed, ok))
<1>1. CASE ok
  <2> DEFINE n == [changed EXCEPT !.stored = changed.goal]
  <2>1. Commit(m, changed, ok) = n
    BY <1>1 DEF Commit
  <2>2. n.run = changed.run /\ n.queued = changed.queued
    BY DEF States
  <2> QED
    BY <2>1, <2>2 DEF Calm
<1>2. CASE ~ok
  BY <1>2 DEF Commit, Calm
<1> QED
  BY <1>1, <1>2

\* Accounting, which most methods begin with.
LEMMA AccountedCalm ==
  ASSUME NEW m, NEW active \in Nat, NEW all \in Nat, Sound(m, active, all),
         NEW a, a = IF m.goal.status = "active" THEN Account(m) ELSE m
  PROVE  a \in States /\ a.goal.status = m.goal.status /\ Calm(m, a)
<1>1. m \in States
  BY DEF Sound
<1>2. Calm(m, m)
  BY DEF Calm
<1> QED
  BY <1>1, <1>2, AccountSound, CalmParts DEF Sound

LEMMA AgentStartGoes ==
  ASSUME NEW m \in States
  PROVE  /\ OnAgentStart(m).run.on /\ OnAgentStart(m).run.attempt
         /\ ~OnAgentStart(m).queued
<1> DEFINE run == IF m.run.on THEN m.run ELSE NoRun
           new == [run EXCEPT !.on = TRUE, !.attempt = TRUE, !.driven = m.outstanding]
           started == [m EXCEPT !.run = new, !.outstanding = FALSE, !.queued = FALSE,
                                !.stop = IF m.run.on THEN m.stop ELSE "none"]
<1>1. run \in Runs
  BY DEF States, NoRun, Runs
<1> HIDE DEF run
<1>2. new \in Runs /\ new.on /\ new.attempt
  BY <1>1 DEF States, Runs
<1>3. OnAgentStart(m) = IF m.goal.status = "active" /\ ~started.run.participated
                        THEN Join(started) ELSE started
  BY DEF OnAgentStart, run
<1> HIDE DEF new
<1>4. started \in States /\ started.run = new /\ ~started.queued
  BY <1>2 DEF States
<1> HIDE DEF started
<1>5. Calm(started, Join(started))
  BY <1>4, CalmParts
<1> QED
  BY <1>2, <1>3, <1>4, <1>5 DEF Calm

LEMMA AgentEndGoes ==
  ASSUME NEW m, NEW active \in Nat, NEW all \in Nat, Sound(m, active, all),
         NEW outcome \in {"stop", "error", "aborted"}, NEW ok \in BOOLEAN
  PROVE  /\ OnAgentEnd(m, outcome, ok).run.on = m.run.on
         /\ ~OnAgentEnd(m, outcome, ok).run.attempt
         /\ OnAgentEnd(m, outcome, ok).queued => m.queued
<1> DEFINE run == [m.run EXCEPT !.attempt = FALSE]
           ended == [m EXCEPT !.run = run, !.stop = outcome]
           a == IF ok THEN Account(ended) ELSE ended
           n == OnAgentEnd(m, outcome, ok)
<1>0. m \in States /\ m.run \in Runs
  BY DEF Sound, States
<1>1. /\ run \in Runs /\ run.participated = m.run.participated /\ ~run.attempt
      /\ run.on = m.run.on /\ run.tokens = m.run.tokens
      /\ run.baseline = m.run.baseline /\ run.base = m.run.base
  BY <1>0 DEF Runs
<1>2. n = IF ~m.run.participated THEN ended
          ELSE [a EXCEPT !.pending = (m.goal.status = "active")]
  BY DEF OnAgentEnd
<1> HIDE DEF run
<1>3. /\ ended \in States /\ ended.goal = m.goal /\ ended.queued = m.queued
      /\ ended.run = run /\ ended.stored = m.stored
  BY <1>0, <1>1 DEF States
<1> HIDE DEF ended
<1>4. Sound(ended, active, all)
  BY <1>1, <1>3, FlagsSound
<1>5. a \in States /\ Calm(ended, a)
  BY <1>3, <1>4, AccountSound, CalmParts DEF Sound, Calm
<1> HIDE DEF a
<1>6. CASE ~m.run.participated
  BY <1>1, <1>2, <1>3, <1>6
<1>7. CASE m.run.participated
  <2>1. n.run = a.run /\ n.queued = a.queued
    BY <1>2, <1>5, <1>7 DEF States
  <2> QED
    BY <1>1, <1>3, <1>5, <2>1 DEF Calm
<1> QED
  BY <1>6, <1>7

\* A verdict of an active goal ends the run, and asks for the next one.
LEMMA DecideGoes ==
  ASSUME NEW m \in States, ~m.run.attempt,
         NEW limit \in BOOLEAN, NEW ok \in BOOLEAN, NEW busy \in BOOLEAN
  PROVE  LET n == Decide(m, limit, ok, busy)
         IN  /\ ~n.run.attempt
             /\ ok /\ ~busy => /\ ~n.run.on
                               /\ n.queued \/ Resting(n) => n.sent \/ m.queued
<1> DEFINE n == Decide(m, limit, ok, busy)
<1>1. Verdict(m, limit) \in Statuses
  BY DEF Verdict, Statuses
<1>2. NoRun \in Runs /\ ~NoRun.on /\ ~NoRun.attempt
  BY DEF NoRun, Runs
<1>3. CASE Verdict(m, limit) = "active"
  <2> DEFINE k == [m EXCEPT !.run = NoRun, !.pending = TRUE]
  <2>1. n = Request(k, busy)
    BY <1>3 DEF Decide
  <2>2. k \in States /\ k.run = NoRun /\ k.queued = m.queued
    <3> HIDE DEF NoRun
    <3> QED
      BY <1>2 DEF States
  <2> HIDE DEF k
  <2>3. n.run = k.run /\ (~busy => n.sent \/ k.queued \/ k.goal.status # "active")
    BY <2>1, <2>2 DEF Request, States
  <2>4. n.queued => n.sent \/ k.queued
    BY <2>1, <2>2 DEF Request, States
  <2>5. n.goal = k.goal
    BY <2>1, <2>2 DEF Request, States
  <2> HIDE DEF n
  <2>6. ~n.run.attempt /\ ~n.run.on
    BY <1>2, <2>2, <2>3
  <2>7. ~busy /\ Resting(n) => n.sent \/ m.queued
    BY <2>2, <2>3, <2>5 DEF Resting
  <2> QED
    BY <2>2, <2>4, <2>6, <2>7 DEF n
<1>4. CASE Verdict(m, limit) # "active" /\ ok
  <2> DEFINE q == Quiet(m)
             p == SetStatus(q, Verdict(m, limit))
  <2>1. q \in States /\ ~q.queued
    BY QuietFacts DEF Quiet, States
  <2>2. n = [p EXCEPT !.run = NoRun]
    BY <1>4 DEF Decide
  <2> HIDE DEF q
  <2>3. p \in States /\ p.goal.status = Verdict(m, limit)
    BY <1>1, <2>1, SetStatusFacts
  <2>4. Calm(q, p)
    BY <2>1, CalmParts DEF SetStatus
  <2> HIDE DEF p, NoRun
  <2>5. n.goal = p.goal /\ n.run = NoRun /\ n.queued = p.queued
    BY <1>2, <2>2, <2>3 DEF States
  <2> HIDE DEF n
  <2>6. ~n.queued /\ ~Resting(n) /\ ~n.run.on /\ ~n.run.attempt
    BY <1>2, <1>4, <2>1, <2>3, <2>4, <2>5 DEF Calm, Resting
  <2> QED
    BY <2>6 DEF n
<1>5. CASE Verdict(m, limit) # "active" /\ ~ok
  <2>1. n = [Quiet(m) EXCEPT !.pending = TRUE]
    BY <1>5 DEF Decide
  <2>2. Quiet(m) \in States /\ Quiet(m).run = m.run
    BY QuietFacts
  <2>3. n.run = m.run
    BY <2>1, <2>2 DEF States
  <2> QED
    BY <1>5, <2>3
<1> QED
  BY <1>3, <1>4, <1>5

\* The settled event: a goal that was to go on has asked for it.
LEMMA AgentSettledGoes ==
  ASSUME NEW m, NEW active \in Nat, NEW all \in Nat, Sound(m, active, all),
         NEW limit \in BOOLEAN, NEW accounted \in BOOLEAN, NEW ok \in BOOLEAN,
         NEW busy \in BOOLEAN
  PROVE  LET n == OnAgentSettled(m, limit, accounted, ok, busy)
         IN  /\ Steady(m, n)
             /\ accounted /\ ok /\ ~busy =>
                  /\ Onward(m, n) /\ (n.run.on => n.run.attempt)
                  /\ m.pending /\ ~m.run.attempt /\ Resting(n) => n.sent \/ m.queued
<1> DEFINE a == Account(m)
           n == OnAgentSettled(m, limit, accounted, ok, busy)
<1>0. /\ m \in States /\ (m.run.attempt => m.run.on) /\ m.run.attempt \in BOOLEAN
      /\ Active(m) /\ m.run.on => m.run.participated
  BY DEF Sound, Joined, States, Runs
<1>1. /\ a \in States /\ a.run = m.run /\ a.pending = m.pending
      /\ a.goal.status = m.goal.status /\ Calm(m, a)
  BY <1>0, AccountSound, CalmParts DEF Sound
<1>2. CASE m.run.attempt
  <2>1. n = m
    BY <1>2 DEF OnAgentSettled
  <2> HIDE DEF n
  <2>2. Steady(m, n) /\ Onward(m, n) /\ n.run.attempt
    BY <1>2, <2>1 DEF Steady, Onward, Resting
  <2> QED
    BY <1>2, <2>2 DEF n
<1>3. CASE ~m.run.attempt /\ m.run.participated /\ ~accounted
  <2>1. n = m
    BY <1>3 DEF OnAgentSettled
  <2> HIDE DEF n
  <2>2. Steady(m, n)
    BY <1>3, <2>1 DEF Steady
  <2> QED
    BY <1>3, <2>2 DEF n
<1>4. CASE ~m.run.attempt /\ (m.run.participated => accounted)
  <2>1. CASE a.goal.status # "active" \/ ~(m.run.participated \/ m.pending)
    <3>1. n \in {[a EXCEPT !.run = NoRun], [a EXCEPT !.run = NoRun, !.pending = FALSE]}
      BY <1>4, <2>1 DEF OnAgentSettled
    <3>2. NoRun \in Runs /\ ~NoRun.on /\ NoRun.attempt = FALSE
      BY DEF NoRun, Runs
    <3> HIDE DEF a, NoRun, n
    <3>3. n.goal = a.goal /\ n.run = NoRun /\ n.queued = a.queued
      BY <1>1, <3>1, <3>2 DEF States
    <3>4. Steady(m, n) /\ ~n.run.on /\ (n.queued => m.queued)
      BY <1>0, <1>1, <1>4, <3>2, <3>3 DEF Steady, Calm
    <3>5. Resting(n) => Resting(m) /\ ~m.pending
      BY <1>0, <1>1, <2>1, <3>3 DEF Resting
    <3> QED
      BY <3>4, <3>5 DEF Onward, n
  <2>2. CASE a.goal.status = "active" /\ (m.run.participated \/ m.pending)
    <3>1. n = Decide(a, limit, ok, busy)
      BY <1>4, <2>2 DEF OnAgentSettled
    <3> HIDE DEF a, n
    <3>2. ~n.run.attempt /\ n.run.attempt \in BOOLEAN
      <4>1. n \in States
        BY <1>0, AgentSettledSound DEF Keeps, Sound, n
      <4> QED
        BY <1>1, <1>4, <3>1, <4>1, DecideGoes DEF States, Runs
    <3>3. ok /\ ~busy => /\ ~n.run.on
                         /\ n.queued \/ Resting(n) => n.sent \/ m.queued
      BY <1>1, <1>4, <3>1, DecideGoes DEF Calm
    <3> QED
      BY <1>0, <1>4, <3>2, <3>3 DEF Steady, Onward, n
  <2> QED
    BY <2>1, <2>2
<1> QED
  BY <1>2, <1>3, <1>4

\* A goal without a run asks for one when the session is ready or it is changed.
LEMMA SessionReadyGoes ==
  ASSUME NEW m, NEW k \in States, Calm(m, k), m.run.attempt => m.run.on,
         m.run.attempt \in BOOLEAN, NEW ok \in BOOLEAN, NEW busy \in BOOLEAN
  PROVE  LET n == OnSessionReady(k, ok, busy)
         IN  /\ Steady(m, n)
             /\ ok /\ ~busy => /\ Onward(m, n)
                               /\ Resting(n) => n.sent \/ m.queued
<1> DEFINE asking == [k EXCEPT !.pending = TRUE]
           limited == SetStatus(k, "budget_limited")
           n == OnSessionReady(k, ok, busy)
<1>1. CASE k.goal.status # "active" \/ k.run.on
  <2>1. n = k
    BY <1>1 DEF OnSessionReady
  <2> HIDE DEF n
  <2>2. Steady(m, n) /\ Onward(m, n) /\ ~Resting(n)
    BY <1>1, <2>1 DEF Steady, Onward, Calm, Resting
  <2> QED
    BY <2>2 DEF n
<1>2. CASE Active(k) /\ ~k.run.on
  <2>1. asking \in States /\ asking.run = k.run /\ asking.queued = k.queued
    BY DEF States
  <2>2. /\ limited \in States /\ limited.goal.status = "budget_limited"
        /\ Calm(k, limited)
    BY SetStatusFacts, CalmParts DEF Statuses, SetStatus
  <2>3. \/ n = Request(asking, busy)
        \/ ok /\ n = [limited EXCEPT !.pending = FALSE]
        \/ ~ok /\ n = asking
    BY <1>2 DEF OnSessionReady
  <2> HIDE DEF asking, limited, n
  <2>4. CASE n = Request(asking, busy)
    <3>1. /\ n.run = k.run /\ (n.queued => n.sent \/ k.queued)
          /\ n.goal = asking.goal
      BY <2>1, <2>4 DEF Request, States
    <3>2. ~busy => n.sent \/ k.queued \/ asking.goal.status # "active"
      BY <2>1, <2>4 DEF Request, States
    <3>3. Steady(m, n)
      BY <1>2, <3>1 DEF Steady, Calm
    <3>4. ~busy => Onward(m, n) /\ (Resting(n) => n.sent \/ m.queued)
      BY <1>2, <3>1, <3>2 DEF Onward, Calm, Resting
    <3> QED
      BY <3>3, <3>4 DEF n
  <2>5. CASE ok /\ n = [limited EXCEPT !.pending = FALSE]
    <3>1. n.run = limited.run /\ n.queued = limited.queued /\ n.goal = limited.goal
      BY <2>2, <2>5 DEF States
    <3>2. Steady(m, n) /\ Onward(m, n) /\ ~Resting(n)
      BY <2>2, <3>1 DEF Steady, Onward, Calm, Resting
    <3> QED
      BY <3>2 DEF n
  <2>6. CASE ~ok /\ n = asking
    <3>1. Steady(m, n)
      BY <2>1, <2>6 DEF Steady, Calm
    <3> QED
      BY <2>6, <3>1 DEF n
  <2> QED
    BY <2>3, <2>4, <2>5, <2>6
<1> QED
  BY <1>1, <1>2

LEMMA SetPausedGoes ==
  ASSUME NEW m, NEW active \in Nat, NEW all \in Nat, Sound(m, active, all),
         m.goal.status = "active", NEW ok \in BOOLEAN
  PROVE  Steady(m, SetPaused(m, ok)) /\ Onward(m, SetPaused(m, ok))
<1> DEFINE a == Account(m)
           left == Leave(a)
           paused == Become(left, "paused")
           q == Quiet(paused)
           n == SetPaused(m, ok)
<1>1. a \in States /\ Calm(m, a)
  BY AccountedCalm
<1>2. n = Commit(a, q, ok)
  BY DEF SetPaused
<1> HIDE DEF a, n
<1>3. left \in States /\ Calm(a, left)
  BY <1>1, LeaveFacts, CalmParts
<1> HIDE DEF left
<1>4. paused \in States /\ Calm(left, paused)
  BY <1>3, BecomeFacts, CalmParts DEF Statuses
<1> HIDE DEF paused
<1>5. q \in States /\ Calm(paused, q)
  BY <1>4, QuietFacts, CalmParts
<1> HIDE DEF q
<1>6. Calm(a, q)
  BY <1>3, <1>4, <1>5, CalmTwice
<1>7. Calm(m, n)
  BY <1>1, <1>2, <1>5, <1>6, CalmCommit, CalmTwice
<1> QED
  BY <1>7, CalmGoes DEF n

\* Without a run it settles at once, with the write and the answer of the host that
\* this needs.
LEMMA SetActiveGoes ==
  ASSUME NEW m, NEW active \in Nat, NEW all \in Nat, Sound(m, active, all),
         m.goal.status # "none", NEW ok \in BOOLEAN, NEW limit \in BOOLEAN,
         NEW okStatus \in BOOLEAN, NEW busy \in BOOLEAN
  PROVE  LET n == SetActive(m, ok, limit, okStatus, busy)
         IN  Steady(m, n) /\ (okStatus /\ ~busy => Onward(m, n))
<1> DEFINE become == Become(m, "active")
           changed == [become EXCEPT !.pending = TRUE, !.stop = "none"]
           n == Commit(m, changed, TRUE)
           settled == OnAgentSettled(n, limit, TRUE, okStatus, busy)
<1>0. /\ m \in States /\ m.stored = m.goal /\ (m.run.attempt => m.run.on)
      /\ (m.run.participated => m.run.on)
  BY DEF Sound, Joined
<1>1. SetActive(m, ok, limit, okStatus, busy) =
        IF ~ok THEN Commit(m, changed, FALSE)
        ELSE IF ~m.run.on THEN settled
        ELSE IF m.run.participated THEN n ELSE Join(n)
  BY DEF SetActive
<1>2. /\ become \in States /\ become.run = m.run /\ Calm(m, become)
      /\ become.goal.status = "active" /\ become.goal.used = m.goal.used
  BY <1>0, BecomeFacts, CalmParts DEF Statuses
<1> HIDE DEF become
<1>3. /\ changed \in States /\ changed.run = m.run /\ changed.goal = become.goal
      /\ changed.pending /\ Calm(m, changed)
  BY <1>2 DEF States, Calm
<1> HIDE DEF changed
<1>4. /\ n \in States /\ n.goal = become.goal /\ n.stored = n.goal /\ n.run = m.run
      /\ n.pending /\ Commit(m, changed, FALSE) = m /\ Calm(m, n)
  BY <1>3, CommitFacts, CalmCommit
<1> HIDE DEF n
<1>5. Calm(m, m) /\ Calm(m, Join(n))
  BY <1>4, CalmParts, CalmTwice DEF Calm
<1>6. CASE ~ok
  BY <1>1, <1>4, <1>5, <1>6, CalmGoes
<1>7. CASE ok /\ m.run.on
  BY <1>1, <1>4, <1>5, <1>7, CalmGoes
<1>8. CASE ok /\ ~m.run.on
  <2>1. active =< n.goal.used /\ n.goal.used =< all
    BY <1>0, <1>2, <1>4, <1>8, UsedBounds
  <2>2. Sound(n, active, all)
    BY <1>0, <1>4, <1>8, <2>1, IdleSound
  <2>3. /\ Steady(n, settled)
        /\ okStatus /\ ~busy => /\ Onward(n, settled)
                                /\ Resting(settled) => settled.sent \/ n.queued
    BY <1>0, <1>4, <1>8, <2>2, AgentSettledGoes
  <2>4. n.run = m.run /\ (n.queued => m.queued)
    BY <1>4 DEF Calm
  <2> HIDE DEF settled
  <2>5. Steady(m, settled) /\ (okStatus /\ ~busy => Onward(m, settled))
    BY <2>3, <2>4 DEF Steady, Onward
  <2> QED
    BY <1>1, <1>8, <2>5
<1> QED
  BY <1>6, <1>7, <1>8

\* What follows when it was written is that a goal without a run asks for one.
LEMMA SetObjectiveGoes ==
  ASSUME NEW m, NEW active \in Nat, NEW all \in Nat, Sound(m, active, all),
         m.goal.status # "none", NEW ok \in BOOLEAN
  PROVE  /\ Calm(m, SetObjective(m, ok))
         /\ ~ok => Steady(m, SetObjective(m, ok)) /\ Onward(m, SetObjective(m, ok))
<1> DEFINE a == IF m.goal.status = "active" THEN Account(m) ELSE m
           become == Become(a, "active")
           changed == [become EXCEPT !.pending = TRUE, !.queued = FALSE, !.stop = "none"]
           n == Commit(a, changed, ok)
<1>1. a \in States /\ Calm(m, a) /\ a.goal.status = m.goal.status
  BY AccountedCalm
<1>2. SetObjective(m, ok) =
        IF ok /\ ~(m.goal.status = "active" /\ m.run.participated) THEN Join(n) ELSE n
  BY DEF SetObjective
<1> HIDE DEF a
<1>3. become \in States /\ Calm(a, become)
  BY <1>1, BecomeFacts, CalmParts DEF Statuses
<1> HIDE DEF become
<1>4. changed \in States /\ Calm(a, changed)
  BY <1>3 DEF States, Calm
<1> HIDE DEF changed
<1>5. n \in States /\ Calm(a, n) /\ (~ok => n = a)
  <2>1. Calm(a, n)
    BY <1>4, CalmCommit
  <2>2. n = IF ok THEN Commit(a, changed, TRUE) ELSE a
    BY DEF Commit
  <2> HIDE DEF n
  <2> QED
    BY <1>1, <1>4, <2>1, <2>2, CommitFacts
<1> HIDE DEF n
<1>6. Calm(m, n) /\ Calm(m, Join(n))
  BY <1>1, <1>5, CalmParts, CalmTwice
<1> QED
  BY <1>1, <1>2, <1>5, <1>6, CalmGoes

LEMMA SetTokenBudgetGoes ==
  ASSUME NEW m, NEW active \in Nat, NEW all \in Nat, Sound(m, active, all),
         m.goal.status # "none", NEW ok \in BOOLEAN, NEW budget \in Nat
  PROVE  /\ Steady(m, SetTokenBudget(m, budget, ok))
         /\ Onward(m, SetTokenBudget(m, budget, ok))
<1> DEFINE a == IF m.goal.status = "active" THEN Account(m) ELSE m
           next == [a.goal EXCEPT !.budget = budget]
           status == CASE next.status # "complete" /\ Exhausted(next) -> "budget_limited"
                       [] next.status = "budget_limited" /\ ~Exhausted(next) -> "paused"
                       [] OTHER -> next.status
           goal == [next EXCEPT !.status = status]
           set == Store(a, goal)
           n == SetTokenBudget(m, budget, ok)
<1>1. a \in States /\ a.goal.status = m.goal.status /\ Calm(m, a)
  BY AccountedCalm
<1>2. n = IF ~ok THEN a ELSE IF status = "active" THEN set ELSE Quiet(set)
  BY DEF SetTokenBudget
<1> HIDE DEF a, n
<1>3. next \in Goals /\ next.status = a.goal.status
  BY <1>1 DEF States, Goals
<1> HIDE DEF next
<1>4. status \in Statuses /\ (status = "active" => a.goal.status = "active")
  BY <1>1, <1>3 DEF Goals, Statuses
<1> HIDE DEF status
<1>5. goal \in Goals /\ goal.status = status
  BY <1>3, <1>4 DEF Goals
<1> HIDE DEF goal
<1>6. set \in States /\ set.goal = goal /\ Calm(a, set)
  BY <1>1, <1>5, StoreFacts, CalmParts
<1> HIDE DEF set
<1>7. Quiet(set).goal = set.goal /\ Calm(set, Quiet(set))
  BY <1>6, QuietFacts, CalmParts
<1>8. Calm(m, set) /\ Calm(m, Quiet(set))
  BY <1>1, <1>6, <1>7, CalmTwice
<1>9. Calm(m, n) /\ (Active(n) => Active(m))
  BY <1>1, <1>2, <1>4, <1>5, <1>6, <1>7, <1>8
<1> QED
  BY <1>9, CalmGoes DEF n

LEMMA UpdateGoes ==
  ASSUME NEW m, NEW active \in Nat, NEW all \in Nat, Sound(m, active, all),
         NEW status \in {"complete", "blocked"}, NEW ok \in BOOLEAN
  PROVE  Steady(m, Update(m, status, ok)) /\ Onward(m, Update(m, status, ok))
<1> DEFINE a == IF m.goal.status = "active" THEN Account(m) ELSE m
           become == Become(a, status)
           changed == [become EXCEPT !.pending = FALSE]
           n == Commit(a, changed, ok)
<1>1. a \in States /\ Calm(m, a) /\ a.goal.status = m.goal.status
  BY AccountedCalm
<1>2. Update(m, status, ok) = n
  BY DEF Update
<1> HIDE DEF a
<1>3. become \in States /\ become.goal.status = status /\ Calm(a, become)
  BY <1>1, BecomeFacts, CalmParts DEF Statuses
<1> HIDE DEF become
<1>4. changed \in States /\ changed.goal = become.goal /\ Calm(a, changed)
  BY <1>3 DEF States, Calm
<1> HIDE DEF changed
<1>5. Calm(a, n) /\ (ok => n.goal = become.goal) /\ (~ok => n = a)
  BY <1>1, <1>4, CommitFacts, CalmCommit
<1> HIDE DEF n
<1>6. Calm(m, n)
  BY <1>1, <1>5, CalmTwice
<1> QED
  BY <1>1, <1>2, <1>3, <1>5, <1>6, CalmGoes

\* A new goal takes part in the run there is; without one it asks for one next.
LEMMA StartGoalGoes ==
  ASSUME NEW m \in States, NEW budget \in Nat, NEW ok \in BOOLEAN
  PROVE  Calm(m, StartGoal(m, budget, ok))
<1> DEFINE goal == [status |-> "active", used |-> 0, budget |-> budget]
           changed == [m EXCEPT !.goal = goal]
           q == Quiet(changed)
           n == Commit(m, q, ok)
<1>1. goal \in Goals
  BY DEF Goals, Statuses
<1>2. StartGoal(m, budget, ok) = IF ok THEN Join(n) ELSE n
  BY DEF StartGoal
<1> HIDE DEF goal
<1>3. changed \in States /\ Calm(m, changed)
  BY <1>1 DEF States, Calm
<1> HIDE DEF changed
<1>4. q \in States /\ Calm(m, q)
  BY <1>3, QuietFacts, CalmParts, CalmTwice
<1> HIDE DEF q
<1>5. n \in States /\ Calm(m, n)
  BY <1>4, CommitFacts, CalmCommit
<1> HIDE DEF n
<1>6. Calm(m, Join(n))
  BY <1>5, CalmParts, CalmTwice
<1> QED
  BY <1>2, <1>5, <1>6

LEMMA ClearGoes ==
  ASSUME NEW m, NEW active \in Nat, NEW all \in Nat, Sound(m, active, all),
         NEW ok \in BOOLEAN
  PROVE  Steady(m, Clear(m, ok)) /\ Onward(m, Clear(m, ok))
<1> DEFINE a == IF m.goal.status = "active" THEN Account(m) ELSE m
           none == Store(a, NoGoal)
           left == Leave(none)
           q == Quiet(left)
           n == [q EXCEPT !.stop = "none"]
<1>1. a \in States /\ Calm(m, a) /\ a.goal.status = m.goal.status
  BY AccountedCalm
<1>2. Clear(m, ok) = IF ok THEN n ELSE a
  BY DEF Clear
<1> HIDE DEF a
<1>3. NoGoal \in Goals /\ NoGoal.status = "none"
  BY DEF NoGoal, Goals, Statuses
<1>4. none \in States /\ none.goal = NoGoal /\ Calm(a, none)
  BY <1>1, <1>3, StoreFacts, CalmParts
<1> HIDE DEF none
<1>5. left \in States /\ left.goal = NoGoal /\ Calm(none, left)
  BY <1>4, LeaveFacts, CalmParts
<1> HIDE DEF left
<1>6. q \in States /\ q.goal = NoGoal /\ Calm(left, q)
  BY <1>5, QuietFacts, CalmParts
<1> HIDE DEF q
<1>7. n.goal = NoGoal /\ Calm(q, n)
  BY <1>6 DEF States, Calm
<1> HIDE DEF n
<1>8. Calm(m, n)
  BY <1>1, <1>4, <1>5, <1>6, <1>7, CalmTwice
<1> QED
  BY <1>1, <1>2, <1>3, <1>7, <1>8, CalmGoes

\* As long as nothing hinders it, what an active goal has asked for is with the host,
\* a run it takes part in has its settled event to come, and the runtime's attempt
\* is the host's.
OnItsWay == queue > 0 \/ (host = "starting" /\ starter = "goal")
GoesOnInv ==
  /\ queue \in Nat /\ settles \in Nat
  /\ g.run.attempt <=> host = "attempt"
  /\ host = "attempt" => ~g.queued
  /\ ~hindered => /\ g.queued \/ Resting(g) => OnItsWay
                  /\ host = "idle" /\ g.run.on => settles > 0

\* The host takes what the method m sent, and may lose a settled event to it.
LEMMA AnswerGoes ==
  ASSUME GoesOnInv, g.run.attempt \in BOOLEAN,
         NEW m \in States, NEW abort, Steady(g, m), Answer(m, abort),
         ~hindered' => ~hindered /\ Onward(g, m),
         \/ settles' = settles
         \/ settles' \in Nat /\ (~hindered' /\ m.run.on => m.run.attempt)
  PROVE  GoesOnInv'
<1>1. /\ g' = [m EXCEPT !.sent = FALSE] /\ queue \in Nat /\ settles \in Nat
      /\ g.run.attempt <=> host = "attempt"
      /\ host = "attempt" => ~g.queued
  BY DEF Answer, GoesOnInv
<1>2. g'.run = m.run /\ g'.queued = m.queued /\ (Resting(g') <=> Resting(m))
  BY <1>1 DEF States, Resting
<1>3. /\ host' = "attempt" <=> host = "attempt"
      /\ host' = "idle" => host = "idle" /\ ~m.sent
      /\ queue' \in Nat
  BY <1>1 DEF Answer
<1>4. /\ g'.run.attempt <=> host' = "attempt"
      /\ host' = "attempt" => ~g'.queued
  BY <1>1, <1>2, <1>3 DEF Steady
<1>5. settles' \in Nat
  BY <1>1
<1>6. ASSUME ~hindered', g'.queued \/ Resting(g') PROVE OnItsWay'
  <2>1. CASE m.sent /\ host = "idle"
    BY <2>1 DEF Answer, OnItsWay
  <2>2. CASE m.sent /\ host # "idle"
    <3>1. queue' = queue + 1
      BY <2>2 DEF Answer
    <3> QED
      BY <1>1, <3>1 DEF OnItsWay
  <2>3. CASE ~m.sent
    <3>1. queue' = queue /\ host' = host /\ starter' = starter
      BY <1>1, <2>3 DEF Answer
    <3>2. g.queued \/ Resting(g)
      BY <1>2, <1>6, <2>3 DEF Onward
    <3> QED
      BY <1>6, <3>1, <3>2 DEF GoesOnInv, OnItsWay
  <2> QED
    BY <2>1, <2>2, <2>3
<1>7. ASSUME ~hindered', host' = "idle", g'.run.on PROVE settles' > 0
  <2>1. host = "idle" /\ m.run.on /\ g.run.on /\ ~m.run.attempt
    BY <1>1, <1>2, <1>3, <1>7 DEF Onward, Steady
  <2> QED
    BY <1>7, <2>1 DEF GoesOnInv
<1> QED
  BY <1>3, <1>4, <1>5, <1>6, <1>7 DEF GoesOnInv

LEMMA GoalStepGoes ==
  ASSUME GoalInv, GoesOnInv, GoalStep
  PROVE  GoesOnInv'
<1>0. /\ activeTokens \in Nat /\ allTokens \in Nat /\ g \in States
      /\ Sound(g, activeTokens, allTokens) /\ (g.run.attempt => g.run.on)
      /\ host = "attempt" => g.run.attempt
      /\ g.run.attempt \in BOOLEAN
  BY DEF GoalInv, Sound, Joined, States, Runs
<1>1. ASSUME NEW budget \in Budgets, NEW ok \in BOOLEAN, NEW busy \in BOOLEAN,
             SetGoal(budget, ok, busy)
      PROVE  GoesOnInv'
  <2> DEFINE zero == StartGoal(g, 0, ok)
             n == OnSessionReady(zero, TRUE, busy)
             m == StartGoal(g, budget, ok)
  <2>1. /\ budget \in Nat /\ hindered' = (hindered \/ busy) /\ settles' = settles
        /\ \/ host = "attempt" /\ ~busy /\ Answer(m, FALSE)
           \/ Answer(n, FALSE)
    BY <1>1, GoalAssumption DEF SetGoal, Settings, Hinder
  <2>2. \A b \in Nat : Calm(g, StartGoal(g, b, ok)) /\ StartGoal(g, b, ok) \in States
    BY <1>0, StartGoalSound, StartGoalGoes DEF Keeps, Sound
  <2>3. CASE host = "attempt" /\ ~busy /\ Answer(m, FALSE)
    <3> HIDE DEF m
    <3>1. m \in States /\ Steady(g, m) /\ Onward(g, m)
      BY <1>0, <2>1, <2>2, <2>3, CalmGoes DEF m
    <3> QED
      BY <1>0, <2>1, <2>3, <3>1, AnswerGoes
  <2>4. CASE Answer(n, FALSE)
    <3>1. zero \in States /\ Calm(g, zero)
      BY <2>2
    <3>2. PICK active \in Nat, all \in Nat : Sound(zero, active, all)
      <4>1. Sound(StartGoal(g, 0, TRUE), 0, 0) /\ StartGoal(g, 0, FALSE) = g
        BY <1>0, StartGoalSound DEF Keeps
      <4> QED
        BY <1>0, <4>1
    <3> HIDE DEF zero
    <3>3. n \in States
      BY <3>2, SessionReadySound DEF Keeps, Sound
    <3>4. Steady(g, n) /\ (~busy => Onward(g, n))
      BY <1>0, <3>1, SessionReadyGoes
    <3> HIDE DEF n
    <3> QED
      BY <1>0, <2>1, <2>4, <3>3, <3>4, AnswerGoes
  <2> QED
    BY <2>1, <2>3, <2>4
<1>2. ASSUME NEW status \in {"complete", "blocked"}, NEW ok \in BOOLEAN,
             UpdateGoal(status, ok)
      PROVE  GoesOnInv'
  <2> DEFINE m == Update(g, status, ok)
  <2>1. m \in States /\ Steady(g, m) /\ Onward(g, m)
    BY <1>0, <1>2, UpdateSound, UpdateGoes DEF UpdateGoal, Keeps, Sound
  <2>2. Answer(m, FALSE) /\ hindered' = hindered /\ settles' = settles
    BY <1>2 DEF UpdateGoal, Settings
  <2> HIDE DEF m
  <2> QED
    BY <1>0, <2>1, <2>2, AnswerGoes
<1>3. ASSUME NEW ok \in BOOLEAN, Pause(ok) PROVE GoesOnInv'
  <2> DEFINE m == SetPaused(g, ok)
  <2>1. m \in States /\ Steady(g, m) /\ Onward(g, m)
    BY <1>0, <1>3, SetPausedSound, SetPausedGoes DEF Pause, Keeps, Sound
  <2>2. PICK abort : Answer(m, abort) /\ hindered' = hindered /\ settles' = settles
    BY <1>3 DEF Pause, Settings
  <2> HIDE DEF m
  <2> QED
    BY <1>0, <2>1, <2>2, AnswerGoes
<1>4. ASSUME NEW ok \in BOOLEAN, ClearGoal(ok) PROVE GoesOnInv'
  <2> DEFINE m == Clear(g, ok)
  <2>1. \A b \in BOOLEAN : Clear(g, b) \in States
    BY <1>0, ClearSound DEF Keeps, Sound
  <2>2. m \in States /\ Steady(g, m) /\ Onward(g, m)
    BY <1>0, <2>1, ClearGoes
  <2>3. Answer(m, ok) /\ hindered' = hindered /\ settles' = settles
    BY <1>4 DEF ClearGoal, Settings
  <2> HIDE DEF m
  <2> QED
    BY <1>0, <2>2, <2>3, AnswerGoes
<1>5. ASSUME NEW ok \in BOOLEAN, NEW okStatus \in BOOLEAN, NEW busy \in BOOLEAN,
             Resume(ok, okStatus, busy)
      PROVE  GoesOnInv'
  <2> DEFINE n == SetActive(g, ok, FALSE, okStatus, busy)
  <2>1. n \in States /\ Steady(g, n) /\ (okStatus /\ ~busy => Onward(g, n))
    BY <1>0, <1>5, SetActiveSound, SetActiveGoes DEF Resume, Keeps, Sound
  <2>2. Answer(n, FALSE) /\ hindered' = (hindered \/ ~okStatus \/ busy)
        /\ settles' = settles
    BY <1>5 DEF Resume, Settings, Hinder
  <2> HIDE DEF n
  <2> QED
    BY <1>0, <2>1, <2>2, AnswerGoes
<1>6. ASSUME NEW ok \in BOOLEAN, NEW okStatus \in BOOLEAN, NEW busy \in BOOLEAN,
             Edit(ok, okStatus, busy)
      PROVE  GoesOnInv'
  <2> DEFINE edited == SetObjective(g, ok)
             n == OnSessionReady(edited, okStatus, busy)
  <2>1. /\ g.goal.status # "none" /\ settles' = settles
        /\ hindered' = (hindered \/ ~okStatus \/ busy)
        /\ \/ ok /\ Answer(n, FALSE)
           \/ ~ok /\ Answer(edited, FALSE)
    BY <1>6 DEF Edit, Settings, Hinder
  <2>2. Sound(edited, activeTokens, allTokens) /\ edited \in States
    BY <1>0, <2>1, SetObjectiveSound DEF Keeps, Sound
  <2>3. /\ Calm(g, edited)
        /\ ~ok => Steady(g, edited) /\ Onward(g, edited)
    BY <1>0, <2>1, SetObjectiveGoes
  <2> HIDE DEF edited
  <2>4. n \in States
    BY <1>0, <2>2, SessionReadySound DEF Keeps, Sound
  <2>5. Steady(g, n) /\ (okStatus /\ ~busy => Onward(g, n))
    BY <1>0, <2>2, <2>3, SessionReadyGoes
  <2> HIDE DEF n
  <2> QED
    BY <1>0, <2>1, <2>2, <2>3, <2>4, <2>5, AnswerGoes
<1>7. ASSUME NEW budget \in Budgets, NEW ok \in BOOLEAN, ChangeBudget(budget, ok)
      PROVE  GoesOnInv'
  <2> DEFINE m == SetTokenBudget(g, budget, ok)
  <2>1. m \in States /\ Steady(g, m) /\ Onward(g, m)
    BY <1>0, <1>7, GoalAssumption, SetTokenBudgetSound, SetTokenBudgetGoes
       DEF ChangeBudget, Keeps, Sound
  <2>2. PICK abort : Answer(m, abort) /\ hindered' = hindered /\ settles' = settles
    BY <1>7 DEF ChangeBudget, Settings
  <2> HIDE DEF m
  <2> QED
    BY <1>0, <2>1, <2>2, AnswerGoes
<1> QED
  BY <1>1, <1>2, <1>3, <1>4, <1>5, <1>6, <1>7 DEF GoalStep

LEMMA HostStepGoes ==
  ASSUME GoalInv, GoesOnInv, HostStep
  PROVE  GoesOnInv'
<1>0. /\ activeTokens \in Nat /\ allTokens \in Nat /\ g \in States
      /\ queue \in Nat /\ settles \in Nat
      /\ Sound(g, activeTokens, allTokens) /\ g.stored \in Goals
      /\ g.run.attempt \in BOOLEAN /\ g.run.on \in BOOLEAN
      /\ g.run.attempt => g.run.on
      /\ g.run.attempt <=> host = "attempt"
      /\ host = "attempt" => ~g.queued
  BY DEF GoalInv, GoesOnInv, Sound, Joined, States, Runs
<1>1. host = "attempt" => ~Resting(g)
  BY <1>0 DEF Resting
<1>2. CASE Prompt
  BY <1>0, <1>2 DEF Prompt, GoesOnInv, OnItsWay, Resting
<1>3. CASE AttemptStarts \/ NextAttempt
  <2>1. /\ g' = OnAgentStart(g) /\ queue' \in Nat /\ settles' = settles
        /\ host' = "attempt"
    BY <1>0, <1>3 DEF AttemptStarts, NextAttempt, Begin, Settings
  <2>2. g'.run.on /\ g'.run.attempt /\ ~g'.queued
    BY <1>0, <2>1, AgentStartGoes
  <2> QED
    BY <1>0, <2>1, <2>2 DEF GoesOnInv, Resting
<1>4. CASE Drain
  <2>1. /\ UNCHANGED <<g, host, settles, hindered>> /\ host = "attempt"
        /\ queue' \in Nat
    BY <1>0, <1>4 DEF Drain, Settings
  <2> QED
    BY <1>0, <1>1, <2>1 DEF GoesOnInv, Resting
<1>5. CASE MessageEnds
  <2> DEFINE run == [g.run EXCEPT !.tokens = g.run.tokens + 1]
  <2>1. run.on = g.run.on /\ run.attempt = g.run.attempt
    BY <1>0 DEF States, Runs
  <2>2. /\ g' = [g EXCEPT !.run = run]
        /\ UNCHANGED <<queue, hindered, host, starter, settles>>
    BY <1>5 DEF MessageEnds, hostVars
  <2> HIDE DEF run
  <2>3. g'.run = run /\ g'.goal = g.goal /\ g'.queued = g.queued
    BY <1>0, <2>2 DEF States
  <2> QED
    BY <2>1, <2>2, <2>3 DEF GoesOnInv, OnItsWay, Resting
<1>6. CASE AnyAttemptEnds
  <2>1. PICK outcome \in {"stop", "error", "aborted"}, ok \in BOOLEAN :
          AttemptEnds(outcome, ok)
    BY <1>6 DEF AnyAttemptEnds
  <2> DEFINE n == OnAgentEnd(g, outcome, ok)
  <2>2. n.run.on = g.run.on /\ ~n.run.attempt /\ (n.queued => g.queued)
    BY <1>0, AgentEndGoes
  <2>3. n.run.attempt \in BOOLEAN
    BY <1>0, AgentEndSound DEF Sound, States, Runs
  <2>4. /\ g' = n /\ host = "attempt" /\ host' = "between"
        /\ UNCHANGED <<queue, settles, hindered>>
    BY <2>1 DEF AttemptEnds, Settings
  <2> HIDE DEF n
  <2> QED
    BY <1>0, <2>2, <2>3, <2>4 DEF GoesOnInv, Resting
<1>7. CASE RunEnds
  <2>1. /\ host \in {"starting", "between"} /\ host' = "idle"
        /\ settles' = settles + 1 /\ UNCHANGED <<g, queue>>
        /\ hindered' = (hindered \/ (host = "starting" /\ starter = "goal"))
    BY <1>7 DEF RunEnds, Hinder
  <2>2. ~hindered' => ~hindered /\ (OnItsWay => OnItsWay')
    BY <2>1 DEF OnItsWay
  <2> QED
    BY <1>0, <2>1, <2>2 DEF GoesOnInv, Resting
<1>8. CASE AnySettled
  <2>1. PICK failed \in BOOLEAN, limit \in BOOLEAN, accounted \in BOOLEAN,
             ok \in BOOLEAN, busy \in BOOLEAN :
          Settled(failed, limit, accounted, ok, busy)
    BY <1>8 DEF AnySettled
  <2> DEFINE m == IF failed THEN [g EXCEPT !.stop = "error"] ELSE g
             n == OnAgentSettled(m, limit, accounted, ok, busy)
  <2>2. /\ m \in States /\ m.goal = g.goal /\ m.stored = g.stored /\ m.run = g.run
        /\ m.queued = g.queued
    BY <1>0 DEF States
  <2>3. /\ Answer(n, FALSE) /\ settles > 0 /\ settles' = settles - 1
        /\ hindered' = (hindered \/ ~accounted \/ ~ok \/ busy)
    BY <2>1, Zenon DEF Settled, Hinder
  <2> HIDE DEF m
  <2>4. Sound(m, activeTokens, allTokens)
    BY <1>0, <2>2, FlagsSound
  <2>5. n \in States
    BY <1>0, <2>4, AgentSettledSound DEF Keeps, Sound
  <2>6. /\ Steady(m, n)
        /\ accounted /\ ok /\ ~busy => Onward(m, n) /\ (n.run.on => n.run.attempt)
    BY <1>0, <2>4, AgentSettledGoes
  <2> HIDE DEF n
  <2>7. settles' \in Nat
    BY <1>0, <2>3
  <2>8. Steady(g, n) /\ (accounted /\ ok /\ ~busy => Onward(g, n))
    BY <2>2, <2>6 DEF Steady, Onward, Resting
  <2> QED
    BY <1>0, <2>3, <2>5, <2>6, <2>7, <2>8, AnswerGoes
<1>9. CASE Interrupt
  <2>1. /\ UNCHANGED <<g, host, starter, settles>>
        /\ \/ UNCHANGED <<queue, hindered>>
           \/ queue' = 0 /\ hindered'
    BY <1>9, Zenon DEF Interrupt, Hinder
  <2>2. queue' \in Nat
    BY <1>0, <2>1
  <2> QED
    BY <2>1, <2>2 DEF GoesOnInv, OnItsWay, Resting
<1>10. ASSUME NEW ok \in BOOLEAN, Restart(ok) PROVE GoesOnInv'
  <2> DEFINE fresh == Fresh(g.stored)
             m == OnSessionReady(fresh, ok, FALSE)
  <2>1. /\ g' = [m EXCEPT !.sent = FALSE] /\ queue' = 0 /\ starter' = "goal"
        /\ host' = (IF m.sent THEN "starting" ELSE "idle")
        /\ settles' = 0 /\ hindered' = ~ok
    BY <1>10 DEF Restart
  <2>2. Sound(fresh, g.stored.used, g.stored.used) /\ g.stored.used \in Nat
    BY <1>0, FreshSound
  <2>3. ~fresh.run.on /\ fresh.run.attempt = FALSE /\ ~fresh.queued /\ fresh \in States
    BY <2>2 DEF Fresh, NoRun, Sound
  <2> HIDE DEF fresh
  <2>4. m \in States
    BY <2>2, SessionReadySound DEF Keeps, Sound
  <2>5. /\ Steady(fresh, m)
        /\ ok => Onward(fresh, m) /\ (Resting(m) => m.sent \/ fresh.queued)
    <3>1. Calm(fresh, fresh)
      BY DEF Calm
    <3> QED
      BY <2>3, <3>1, SessionReadyGoes
  <2> HIDE DEF m
  <2>6. g'.run = m.run /\ g'.queued = m.queued /\ (Resting(g') <=> Resting(m))
    BY <2>1, <2>4 DEF States, Resting
  <2>7. ~g'.run.attempt /\ host' # "attempt"
    BY <2>1, <2>3, <2>5, <2>6 DEF Steady
  <2>8. ok => /\ ~g'.run.on
              /\ g'.queued \/ Resting(g') => m.sent
    BY <2>3, <2>5, <2>6 DEF Onward
  <2>9. m.run.attempt \in BOOLEAN
    BY <2>4 DEF States, Runs
  <2> QED
    BY <2>1, <2>6, <2>7, <2>8, <2>9 DEF GoesOnInv, OnItsWay
<1> QED
  BY <1>2, <1>3, <1>4, <1>5, <1>6, <1>7, <1>8, <1>9, <1>10 DEF HostStep

-----------------------------------------------------------------------------
(* The theorems. *)

\* The inductive invariant holds of every state of every run.
THEOREM GoalInvariance == Spec => []GoalInv
<1>1. Init => GoalInv
  <2> SUFFICES ASSUME Init PROVE GoalInv
    OBVIOUS
  <2>1. NoGoal \in Goals /\ NoGoal.used = 0
    BY DEF NoGoal, Goals, Statuses
  <2>2. Sound(Fresh(NoGoal), 0, 0)
    BY <2>1, FreshSound
  <2> QED
    BY <2>2 DEF Init, GoalInv
<1>2. GoalInv /\ [Next]_vars => GoalInv'
  <2>1. GoalInv /\ UNCHANGED vars => GoalInv'
    BY HostKeepsSound DEF vars, hostVars
  <2> QED
    BY <2>1, GoalStepSound, HostStepSound DEF Next
<1> QED
  BY <1>1, <1>2, PTL DEF Spec

\* What the session holds is what the runtime works with, whichever writes of
\* step-schedule.ts fail and whenever the session restarts.
THEOREM StoredMatchesHolds == Spec => []StoredMatches
<1>1. GoalInv => StoredMatches
  BY DEF GoalInv, Sound, StoredMatches
<1> QED
  BY <1>1, GoalInvariance, PTL

\* Between runs the goal has used at least the tokens of the messages that ended
\* while it was active, and no more than there were.
THEOREM TokensCountedHolds == Spec => []TokensCounted
<1>1. GoalInv => TokensCounted
  <2> SUFFICES ASSUME GoalInv, g.goal.status # "none", ~g.run.on
               PROVE  activeTokens =< g.goal.used /\ g.goal.used =< allTokens
    BY DEF TokensCounted
  <2>1. /\ Sound(g, activeTokens, allTokens) /\ ~g.run.participated
        /\ activeTokens \in Nat /\ allTokens \in Nat
    BY DEF GoalInv, Sound, Joined
  <2> QED
    BY <2>1, UsedBounds
<1> QED
  BY <1>1, GoalInvariance, PTL

\* With no run and no settled event under way, an active goal's next message waits in
\* the host's queue, unless since the last attempt began a write failed, the host had
\* other input to run first, or what the goal had asked for was taken back or stopped.
\* The settled events may come late, and after the next run has begun.
THEOREM GoalGoesOnHolds == Spec => []GoalGoesOn
<1>1. Init => GoesOnInv
  BY DEF Init, Fresh, NoGoal, NoRun, GoesOnInv, Resting
<1>2. GoalInv /\ GoesOnInv /\ [Next]_vars => GoesOnInv'
  <2>1. GoesOnInv /\ UNCHANGED vars => GoesOnInv'
    BY DEF vars, hostVars, GoesOnInv, OnItsWay, Resting
  <2> QED
    BY <2>1, GoalStepGoes, HostStepGoes DEF Next
<1>3. GoesOnInv => GoalGoesOn
  BY DEF GoesOnInv, OnItsWay, Resting, GoalGoesOn
<1> QED
  BY <1>1, <1>2, <1>3, GoalInvariance, PTL DEF Spec

=============================================================================
