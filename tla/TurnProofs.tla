----------------------------- MODULE TurnProofs -----------------------------
(***************************************************************************)
(* Proofs about a turn for any number of calls, rejections, updates and    *)
(* frames.  First the parts on their own: the batch (ToolBatch), which     *)
(* implements the contract runLoop relies on, the progress of a call       *)
(* (ToolProgress) and the response (AssistantStream).  Then that a turn    *)
(* implements its parts, so that what holds of them holds inside it.       *)
(***************************************************************************)
EXTENDS Turn, TLAPS


-----------------------------------------------------------------------------
(* The inductive invariant *)

\* The sequential and the truncated batch: the calls with a result have ended,
\* behind them only the call of the current iteration has begun.
OneAtATime ==
  mode # "parallel" =>
    /\ pc \notin {"wait", "results"}
    /\ \A c \in Calls :
         /\ c <= Len(results) => state[c] = "ended"
         /\ c > Len(results) =>
              state[c] = "waiting" \/ (c = Len(results) + 1 /\ c = next)
    /\ \/ next = Len(results) \/ next = Len(results) + 1
       \/ next = calls + 1 /\ aborted /\ mode = "sequential"
    /\ Len(results) = 0 => next = 1

\* The barrier remembers every result so far, and no tool runs behind it.
BarrierUp ==
  mode = "sequential" =>
    /\ ~stopTurn => \A c \in Calls : c <= Len(results) => ~flags[c].stopTurn
    /\ \A c \in Calls : state[c] = "prepared" => ~stopTurn
    /\ \A d \in ran :
         /\ d <= Len(results) + 1
         /\ \A c \in Calls : c < d => ~flags[c].stopTurn

\* The parallel batch: the calls that have begun are a prefix, all of the
\* calls unless an abort cut it short.
Prefix ==
  mode = "parallel" =>
    /\ \A b, c \in Calls : b < c /\ state[b] = "waiting" => state[c] = "waiting"
    /\ pc = "loop" => \A c \in Calls :
         /\ c < next => state[c] \in {"waiting", "prepared", "ended"}
         /\ c > next => state[c] = "waiting"
         /\ c < next /\ next <= calls => state[c] # "waiting"
    /\ pc \in {"wait", "results"} \/ (pc = "loop" /\ next > calls) =>
         /\ state[1] # "waiting"
         /\ aborted \/ \A c \in Calls : state[c] # "waiting"

\* Its results come when every call that has begun has ended.
ResultsLast ==
  mode = "parallel" =>
    /\ pc \in {"loop", "wait"} => results = << >>
    /\ pc = "wait" =>
         \A c \in Calls : state[c] \in {"waiting", "executing", "executed", "ended"}
    /\ pc = "results" => \A c \in Calls :
         /\ state[c] \in {"waiting", "ended"}
         /\ c <= Len(results) => state[c] = "ended"

BatchInv ==
  /\ TypeOK /\ ResultsInOrder /\ NothingLeftRunning
  /\ OneAtATime /\ BarrierUp /\ Prefix /\ ResultsLast

LEMMA InvInit == BatchAssumption /\ Init => BatchInv
<1> SUFFICES ASSUME BatchAssumption, Init PROVE BatchInv
  OBVIOUS
<1> USE DEF BatchAssumption, Init, Calls
<1>1. TypeOK
  <2>1. state \in [Calls -> CallStates]
    BY DEF CallStates
  <2>2. flags \in [Calls -> Flags]
    BY DEF Flags, NoFlags
  <2>3. results \in Seq(Calls) /\ Len(results) <= calls
    OBVIOUS
  <2>4. terminate \in BOOLEAN /\ stop \in BOOLEAN /\ stopTurn \in BOOLEAN
    OBVIOUS
  <2> QED
    BY <2>1, <2>2, <2>3, <2>4 DEF TypeOK, PCs
<1>2. ResultsInOrder /\ NothingLeftRunning
  BY DEF ResultsInOrder, NothingLeftRunning
<1>3. OneAtATime /\ BarrierUp /\ Prefix /\ ResultsLast
  BY DEF OneAtATime, BarrierUp, Prefix, ResultsLast
<1> QED
  BY <1>1, <1>2, <1>3 DEF BatchInv

-----------------------------------------------------------------------------
(* A step keeps each part of the invariant *)

\* The results of a batch are those of its first calls: the next one is the
\* call that follows the last of them.
LEMMA NextResult ==
  ASSUME BatchInv, NEW c \in Calls,
         \/ EmitSequentialResult /\ c = next
         \/ EmitParallelResult /\ results' = Append(results, c)
            /\ c \in Ended \ Answered /\ FirstEnded(c)
  PROVE  c = Len(results) + 1
<1>1. CASE EmitSequentialResult /\ c = next
  BY <1>1 DEF EmitSequentialResult, ResultDue, BatchInv, TypeOK, OneAtATime, Calls
<1>2. CASE EmitParallelResult /\ results' = Append(results, c)
            /\ c \in Ended \ Answered /\ FirstEnded(c)
  <2>1. mode = "parallel" /\ pc = "results"
    BY <1>2 DEF EmitParallelResult, BatchInv, OneAtATime
  <2>2. Len(results) \in Nat /\ calls \in Nat /\ c \in 1..calls
    BY DEF BatchInv, TypeOK, Calls
  <2>3. c \notin 1..Len(results)
    BY <1>2, <2>2 DEF Answered, BatchInv, ResultsInOrder
  <2>4. Len(results) + 1 \in 1..c
    BY <2>2, <2>3
  <2>5. state[Len(results) + 1] = "ended"
    BY <1>2, <2>1, <2>2, <2>4 DEF BatchInv, Prefix, ResultsLast, Calls, Ended
  <2>6. Len(results) + 1 \in Ended \ Answered
    BY <2>2, <2>4, <2>5 DEF Ended, Calls, Answered, BatchInv, ResultsInOrder
  <2> QED
    BY <1>2, <2>2, <2>4, <2>6 DEF FirstEnded
<1> QED
  BY <1>1, <1>2

\* EmitParallelResult chooses the call its result is for.
LEMMA ParallelResult ==
  ASSUME BatchInv, EmitParallelResult
  PROVE  /\ mode = "parallel" /\ pc = "results"
         /\ Len(results) + 1 \in Calls
         /\ state[Len(results) + 1] = "ended"
         /\ results' = Append(results, Len(results) + 1)
<1>1. mode = "parallel" /\ pc = "results"
  BY DEF EmitParallelResult, BatchInv, OneAtATime
<1>2. PICK c \in Ended \ Answered :
        FirstEnded(c) /\ results' = Append(results, c)
  BY DEF EmitParallelResult
<1>3. c \in Calls /\ state[c] = "ended"
  BY DEF Ended
<1>4. c = Len(results) + 1
  BY <1>2, <1>3, NextResult
<1> QED
  BY <1>1, <1>2, <1>3, <1>4

LEMMA TypeStep == BatchInv /\ [Next]_vars => TypeOK'
<1> SUFFICES ASSUME BatchInv, [Next]_vars PROVE TypeOK'
  OBVIOUS
<1> USE DEF BatchInv, TypeOK, Calls, PCs, CallStates, Move
<1>1. CASE StartCall \/ PrepareCall \/ ExecuteCall \/ EndCall \/ NextCall
  <2>1. CASE StartCall
    BY <2>1 DEF StartCall
  <2>2. CASE PrepareCall
    BY <2>2 DEF PrepareCall
  <2>3. CASE ExecuteCall
    BY <2>3 DEF ExecuteCall
  <2>4. CASE EndCall
    BY <2>4 DEF EndCall
  <2>5. CASE NextCall
    BY <2>5 DEF NextCall
  <2> QED
    BY <1>1, <2>1, <2>2, <2>3, <2>4, <2>5
<1>2. ASSUME NEW block \in BOOLEAN, RefuseCall(block) PROVE TypeOK'
  <2>1. flags' \in [Calls -> Flags]
    <3>1. next \in Calls /\ flags[next] \in Flags
      BY <1>2 DEF RefuseCall
    <3>2. [flags[next] EXCEPT !.terminate = block] \in Flags
      BY <3>1 DEF Flags
    <3>3. flags' = [flags EXCEPT ![next] = [flags[next] EXCEPT !.terminate = block]]
      BY <1>2, <3>1 DEF RefuseCall
    <3> QED
      BY <3>1, <3>2, <3>3
  <2> QED
    BY <1>2, <2>1 DEF RefuseCall
<1>3. ASSUME NEW c \in Calls, NEW f \in Flags, SettleCall(c, f) PROVE TypeOK'
  BY <1>3 DEF SettleCall
<1>4. ASSUME NEW c \in Calls, EndLaunchedCall(c) \/ LoseCall(c) \/ RejectEnd(c)
      PROVE  TypeOK'
  <2>1. CASE EndLaunchedCall(c)
    BY <2>1 DEF EndLaunchedCall
  <2>2. CASE LoseCall(c)
    BY <2>2 DEF LoseCall
  <2>3. CASE RejectEnd(c)
    BY <2>3 DEF RejectEnd
  <2> QED
    BY <1>4, <2>1, <2>2, <2>3
<1>5. CASE LaunchPrepared
  <2>1. Prepared \subseteq Calls
    BY DEF Prepared
  <2>2. state' \in [Calls -> CallStates]
    BY <1>5 DEF LaunchPrepared
  <2> QED
    BY <1>5, <2>1, <2>2 DEF LaunchPrepared
<1>6. CASE EmitSequentialResult
  BY <1>6, NextResult DEF EmitSequentialResult, Flags
<1>7. CASE EmitParallelResult
  BY <1>7, ParallelResult DEF EmitParallelResult
<1>8. CASE Return
  BY <1>8 DEF Return
<1>9. CASE Abort \/ CollectResults \/ ReportFailure \/ FinishRun \/ RejectEvent
  <2>1. CASE Abort
    BY <2>1 DEF Abort
  <2>2. CASE RejectEvent
    BY <2>2 DEF RejectEvent
  <2>3. CASE CollectResults \/ ReportFailure \/ FinishRun
    BY <2>3 DEF CollectResults, ReportFailure, FinishRun
  <2> QED
    BY <1>9, <2>1, <2>2, <2>3
<1>10. CASE UNCHANGED vars
  BY <1>10 DEF vars
<1> QED
  BY <1>1, <1>2, <1>3, <1>4, <1>5, <1>6, <1>7, <1>8, <1>9, <1>10 DEF Next, Step

\* Results are only ever appended, in the order of the calls.
LEMMA OrderStep == BatchInv /\ [Next]_vars => ResultsInOrder'
<1> SUFFICES ASSUME BatchInv, [Next]_vars PROVE ResultsInOrder'
  OBVIOUS
<1> USE DEF BatchInv, TypeOK, ResultsInOrder
<1>1. CASE EmitSequentialResult
  BY <1>1, NextResult DEF EmitSequentialResult, Calls
<1>2. CASE EmitParallelResult
  <2>1. results \in Seq(Calls) /\ results' = Append(results, Len(results) + 1)
    BY <1>2, ParallelResult
  <2> QED
    BY <2>1
<1>3. CASE UNCHANGED results
  BY <1>3
<1>4. [Next]_vars =>
        EmitSequentialResult \/ EmitParallelResult \/ UNCHANGED results
  BY DEF Next, Step, vars, Abort, StartCall, RefuseCall, PrepareCall, ExecuteCall,
         SettleCall, EndCall, NextCall, LaunchPrepared, EndLaunchedCall, LoseCall,
         CollectResults, Return, RejectEvent, RejectEnd, ReportFailure, FinishRun
<1> QED
  BY <1>1, <1>2, <1>3, <1>4

\* A batch returns with nothing left running, and nothing starts afterwards.
LEMMA RunningStep == BatchInv /\ [Next]_vars => NothingLeftRunning'
<1> SUFFICES ASSUME BatchInv, [Next]_vars PROVE NothingLeftRunning'
  OBVIOUS
<1> USE DEF BatchInv, TypeOK, NothingLeftRunning, OneAtATime, Prefix,
            ResultsLast, Calls, Move
<1>1. CASE StartCall \/ PrepareCall \/ ExecuteCall \/ EndCall \/ NextCall
  BY <1>1 DEF StartCall, PrepareCall, ExecuteCall, EndCall, NextCall
<1>2. ASSUME NEW block \in BOOLEAN, RefuseCall(block) PROVE NothingLeftRunning'
  BY <1>2 DEF RefuseCall
<1>3. ASSUME NEW c \in Calls, NEW f \in Flags, SettleCall(c, f)
      PROVE  NothingLeftRunning'
  BY <1>3 DEF SettleCall
<1>4. ASSUME NEW c \in Calls, EndLaunchedCall(c) \/ LoseCall(c) \/ RejectEnd(c)
      PROVE  NothingLeftRunning'
  BY <1>4 DEF EndLaunchedCall, LoseCall, RejectEnd
<1>5. CASE EmitSequentialResult
  BY <1>5, NextResult DEF EmitSequentialResult
<1>6. CASE EmitParallelResult
  BY <1>6, ParallelResult DEF EmitParallelResult
<1>7. CASE \/ Abort \/ CollectResults \/ Return \/ ReportFailure \/ FinishRun
          \/ RejectEvent \/ LaunchPrepared
  BY <1>7 DEF Abort, CollectResults, Return, ReportFailure, FinishRun,
              RejectEvent, LaunchPrepared
<1>8. CASE UNCHANGED vars
  BY <1>8 DEF vars
<1> QED
  BY <1>1, <1>2, <1>3, <1>4, <1>5, <1>6, <1>7, <1>8 DEF Next, Step

\* Outside a parallel batch only the call of the iteration moves.
LEMMA OneAtATimeStep == BatchInv /\ [Next]_vars => OneAtATime'
<1> SUFFICES ASSUME BatchInv, [Next]_vars PROVE OneAtATime'
  OBVIOUS
<1> USE DEF BatchInv, TypeOK, OneAtATime, Calls, Move
<1>1. CASE StartCall \/ PrepareCall \/ ExecuteCall \/ EndCall
  BY <1>1 DEF StartCall, PrepareCall, ExecuteCall, EndCall
<1>2. ASSUME NEW block \in BOOLEAN, RefuseCall(block) PROVE OneAtATime'
  BY <1>2 DEF RefuseCall
<1>3. ASSUME NEW c \in Calls, NEW f \in Flags, SettleCall(c, f) PROVE OneAtATime'
  BY <1>3 DEF SettleCall
<1>4. ASSUME NEW c \in Calls, EndLaunchedCall(c) \/ LoseCall(c) \/ RejectEnd(c)
      PROVE  OneAtATime'
  BY <1>4 DEF EndLaunchedCall, LoseCall, RejectEnd
<1>5. CASE NextCall
  BY <1>5 DEF NextCall, BreaksOnAbort
<1>6. CASE EmitSequentialResult
  BY <1>6, NextResult DEF EmitSequentialResult
<1>7. CASE EmitParallelResult
  BY <1>7, ParallelResult DEF EmitParallelResult
<1>8. CASE \/ Abort \/ CollectResults \/ Return \/ ReportFailure \/ FinishRun
          \/ RejectEvent \/ LaunchPrepared
  BY <1>8 DEF Abort, CollectResults, Return, ReportFailure, FinishRun,
              RejectEvent, LaunchPrepared
<1>9. CASE UNCHANGED vars
  BY <1>9 DEF vars
<1> QED
  BY <1>1, <1>2, <1>3, <1>4, <1>5, <1>6, <1>7, <1>8, <1>9 DEF Next, Step

\* The barrier rises with the result that asks for it, before the next call is
\* looked at.
LEMMA BarrierStep == BatchInv /\ [Next]_vars => BarrierUp'
<1> SUFFICES ASSUME BatchInv, [Next]_vars PROVE BarrierUp'
  OBVIOUS
<1> USE DEF BatchInv, TypeOK, OneAtATime, BarrierUp, Calls, Move
<1>1. CASE StartCall \/ ExecuteCall \/ EndCall \/ NextCall
  <2>1. CASE StartCall
    BY <2>1 DEF StartCall
  <2>2. CASE ExecuteCall
    BY <2>2 DEF ExecuteCall
  <2>3. CASE EndCall
    BY <2>3 DEF EndCall
  <2>4. CASE NextCall
    BY <2>4 DEF NextCall
  <2> QED
    BY <1>1, <2>1, <2>2, <2>3, <2>4
<1>2. ASSUME NEW block \in BOOLEAN, RefuseCall(block) PROVE BarrierUp'
  BY <1>2 DEF RefuseCall
<1>3. ASSUME NEW c \in Calls, NEW f \in Flags, SettleCall(c, f) PROVE BarrierUp'
  BY <1>3 DEF SettleCall
<1>4. ASSUME NEW c \in Calls, EndLaunchedCall(c) \/ LoseCall(c) \/ RejectEnd(c)
      PROVE  BarrierUp'
  BY <1>4 DEF EndLaunchedCall, LoseCall, RejectEnd
<1>5. CASE PrepareCall
  BY <1>5 DEF PrepareCall, Skipped
<1>6. CASE EmitSequentialResult
  <2> SUFFICES ASSUME mode = "sequential" PROVE BarrierUp'
    BY <1>6 DEF EmitSequentialResult
  <2>1. next \in Calls /\ next = Len(results) + 1 /\ Len(results) \in Nat
    BY <1>6, NextResult DEF EmitSequentialResult
  <2>2. Len(results') = Len(results) + 1
    BY <1>6, <2>1 DEF EmitSequentialResult
  <2>3. stopTurn' = (stopTurn \/ flags[next].stopTurn)
        /\ UNCHANGED <<mode, calls, state, flags, ran>>
    BY <1>6 DEF EmitSequentialResult
  <2>4. ASSUME NEW c \in Calls PROVE state[c] # "prepared"
    <3>1. CASE c = next
      BY <1>6, <3>1 DEF EmitSequentialResult
    <3>2. CASE c # next
      <4>1. c <= Len(results) => state[c] = "ended"
        OBVIOUS
      <4>2. c > Len(results) => state[c] = "waiting"
        BY <2>1, <3>2
      <4>3. c <= Len(results) \/ c > Len(results)
        BY <2>1
      <4> QED
        BY <4>1, <4>2, <4>3
    <3> QED
      BY <3>1, <3>2
  <2>5. ASSUME ~stopTurn', NEW c \in Calls, c <= Len(results')
        PROVE  ~flags[c].stopTurn
    <3>1. CASE c = next
      BY <2>3, <2>5, <3>1
    <3>2. CASE c # next
      <4>1. ~stopTurn
        BY <2>3, <2>5
      <4>2. c <= Len(results)
        BY <2>1, <2>2, <2>5, <3>2
      <4> QED
        BY <4>1, <4>2
    <3> QED
      BY <3>1, <3>2
  <2>6. ASSUME NEW d \in ran
        PROVE  /\ d <= Len(results') + 1
               /\ \A c \in Calls : c < d => ~flags[c].stopTurn
    BY <2>1, <2>2
  <2> QED
    BY <2>2, <2>3, <2>4, <2>5, <2>6
<1>7. CASE EmitParallelResult
  BY <1>7, ParallelResult DEF EmitParallelResult
<1>8. CASE \/ Abort \/ CollectResults \/ Return \/ ReportFailure \/ FinishRun
          \/ RejectEvent \/ LaunchPrepared
  BY <1>8 DEF Abort, CollectResults, Return, ReportFailure, FinishRun,
              RejectEvent, LaunchPrepared
<1>9. CASE UNCHANGED vars
  BY <1>9 DEF vars
<1> QED
  BY <1>1, <1>2, <1>3, <1>4, <1>5, <1>6, <1>7, <1>8, <1>9 DEF Next, Step

\* The calls of a parallel batch begin one after the other.
LEMMA PrefixStep == BatchInv /\ [Next]_vars => Prefix'
<1> SUFFICES ASSUME BatchInv, [Next]_vars PROVE Prefix'
  OBVIOUS
<1> USE DEF BatchInv, TypeOK, OneAtATime, Prefix, ResultsLast, Calls, Move
<1>1. CASE StartCall \/ PrepareCall \/ ExecuteCall \/ EndCall
  BY <1>1 DEF StartCall, PrepareCall, ExecuteCall, EndCall
<1>2. ASSUME NEW block \in BOOLEAN, RefuseCall(block) PROVE Prefix'
  BY <1>2 DEF RefuseCall
<1>3. ASSUME NEW c \in Calls, NEW f \in Flags, SettleCall(c, f) PROVE Prefix'
  BY <1>3 DEF SettleCall
<1>4. ASSUME NEW c \in Calls, EndLaunchedCall(c) \/ LoseCall(c) \/ RejectEnd(c)
      PROVE  Prefix'
  <2>1. CASE EndLaunchedCall(c)
    BY <2>1 DEF EndLaunchedCall
  <2>2. CASE LoseCall(c)
    BY <2>2 DEF LoseCall
  <2>3. CASE RejectEnd(c)
    BY <2>3 DEF RejectEnd
  <2> QED
    BY <1>4, <2>1, <2>2, <2>3
<1>5. CASE NextCall
  BY <1>5 DEF NextCall, BreaksOnAbort
<1>6. CASE LaunchPrepared
  BY <1>6 DEF LaunchPrepared, Prepared
<1>7. CASE EmitParallelResult
  BY <1>7, ParallelResult DEF EmitParallelResult
<1>8. CASE \/ Abort \/ CollectResults \/ Return \/ ReportFailure \/ FinishRun
          \/ RejectEvent \/ EmitSequentialResult
  BY <1>8 DEF Abort, CollectResults, Return, ReportFailure, FinishRun,
              RejectEvent, EmitSequentialResult
<1>9. CASE UNCHANGED vars
  BY <1>9 DEF vars
<1> QED
  BY <1>1, <1>2, <1>3, <1>4, <1>5, <1>6, <1>7, <1>8, <1>9 DEF Next, Step

\* Results of a parallel batch wait for every call that has begun.
LEMMA ResultsLastStep == BatchInv /\ [Next]_vars => ResultsLast'
<1> SUFFICES ASSUME BatchInv, [Next]_vars PROVE ResultsLast'
  OBVIOUS
<1> USE DEF BatchInv, TypeOK, OneAtATime, Prefix, ResultsLast, Calls, Move
<1>1. CASE StartCall \/ PrepareCall \/ ExecuteCall \/ EndCall \/ NextCall
  BY <1>1 DEF StartCall, PrepareCall, ExecuteCall, EndCall, NextCall
<1>2. ASSUME NEW block \in BOOLEAN, RefuseCall(block) PROVE ResultsLast'
  BY <1>2 DEF RefuseCall
<1>3. ASSUME NEW c \in Calls, NEW f \in Flags, SettleCall(c, f) PROVE ResultsLast'
  BY <1>3 DEF SettleCall
<1>4. ASSUME NEW c \in Calls, EndLaunchedCall(c) \/ LoseCall(c) \/ RejectEnd(c)
      PROVE  ResultsLast'
  BY <1>4 DEF EndLaunchedCall, LoseCall, RejectEnd
<1>5. CASE LaunchPrepared
  BY <1>5 DEF LaunchPrepared, Prepared
<1>6. CASE CollectResults
  BY <1>6 DEF CollectResults, AllEnded
<1>7. CASE EmitSequentialResult
  BY <1>7, NextResult DEF EmitSequentialResult
<1>8. CASE EmitParallelResult
  BY <1>8, ParallelResult DEF EmitParallelResult
<1>9. CASE Abort \/ Return \/ ReportFailure \/ FinishRun \/ RejectEvent
  BY <1>9 DEF Abort, Return, ReportFailure, FinishRun, RejectEvent
<1>10. CASE UNCHANGED vars
  BY <1>10 DEF vars
<1> QED
  BY <1>1, <1>2, <1>3, <1>4, <1>5, <1>6, <1>7, <1>8, <1>9, <1>10 DEF Next, Step

-----------------------------------------------------------------------------
(* The theorems *)

LEMMA InvStep == BatchInv /\ [Next]_vars => BatchInv'
<1> SUFFICES ASSUME BatchInv, [Next]_vars PROVE BatchInv'
  OBVIOUS
<1> QED
  BY TypeStep, OrderStep, RunningStep, OneAtATimeStep, BarrierStep, PrefixStep,
     ResultsLastStep DEF BatchInv

\* The inductive invariant holds: the sequential loop is at the call behind the
\* results, the parallel batch has begun a prefix of the calls.
THEOREM BatchInvariant == Spec => []BatchInv
<1>1. Init => BatchInv
  BY BatchAssumption, InvInit
<1> QED
  BY <1>1, InvStep, PTL DEF Spec

\* The variables of a batch keep their types, whatever the number of calls.
THEOREM TypeCorrect == Spec => []TypeOK
<1>1. BatchInv => TypeOK
  BY DEF BatchInv
<1> QED
  BY <1>1, BatchInvariant, PTL

\* A control tool is a barrier of the sequential loop: no tool of a later call is
\* executed once an earlier one asked to stop the turn.
THEOREM BarrierAlwaysHolds == Spec => []BarrierHolds
<1>1. BatchInv => BarrierHolds
  BY DEF BatchInv, BarrierUp, BarrierHolds
<1> QED
  BY <1>1, BatchInvariant, PTL

\* When executeToolCalls returns, every announced call has ended, and a call is
\* left unannounced only by an abort.
THEOREM NothingIsLeftRunning == Spec => []NothingLeftRunning
<1>1. BatchInv => NothingLeftRunning
  BY DEF BatchInv
<1> QED
  BY <1>1, BatchInvariant, PTL

\* The results are in the order of the calls, whatever the order in which the
\* tools of a parallel batch finish.
THEOREM ResultsStayInOrder == Spec => []ResultsInOrder
<1>1. BatchInv => ResultsInOrder
  BY DEF BatchInv
<1> QED
  BY <1>1, BatchInvariant, PTL

-----------------------------------------------------------------------------
(* The contract *)

LEMMA ContractInit == Init => Contract!Init
BY DEF Init, Contract!Init

\* A batch returns with a result for every call, or after an abort with at
\* least one.
LEMMA ReturnsAnswered ==
  ASSUME BatchInv, Return
  PROVE  /\ Len(results) > 0
         /\ Len(results) = calls \/ (aborted /\ mode # "truncated")
<1> USE DEF BatchInv, TypeOK, Calls
<1>0. Len(results) \in Nat /\ calls \in Nat /\ calls >= 1
  OBVIOUS
<1>1. CASE pc = "loop" /\ mode # "parallel" /\ next > calls
  BY <1>0, <1>1 DEF OneAtATime
<1>2. CASE pc = "results" /\ Ended = Answered
  <2>1. mode = "parallel"
    BY <1>2 DEF OneAtATime
  <2>2. \A c \in Calls : state[c] = "ended" => c <= Len(results)
    BY <1>0, <1>2 DEF Ended, Answered, ResultsInOrder
  <2>3. \A c \in Calls : state[c] \in {"waiting", "ended"}
    BY <1>2, <2>1 DEF ResultsLast
  <2>4. state[1] # "waiting" /\ (aborted \/ \A c \in Calls : state[c] # "waiting")
    BY <1>2, <2>1 DEF Prefix
  <2>5. Len(results) > 0
    BY <1>0, <2>2, <2>3, <2>4
  <2>6. aborted \/ Len(results) = calls
    BY <1>0, <2>2, <2>3, <2>4
  <2> QED
    BY <2>1, <2>5, <2>6
<1> QED
  BY <1>1, <1>2 DEF Return

\* Steps that the contract does not tell from a stutter.
Internal ==
  \/ StartCall \/ PrepareCall \/ ExecuteCall \/ EndCall
  \/ \E block \in BOOLEAN : RefuseCall(block)
  \/ \E c \in Calls, f \in Flags : SettleCall(c, f)
  \/ NextCall \/ LaunchPrepared \/ CollectResults
  \/ \E c \in Calls : EndLaunchedCall(c) \/ LoseCall(c)
  \/ ReportFailure \/ FinishRun
  \/ UNCHANGED vars

LEMMA ContractStep == BatchInv /\ [Next]_vars => [Contract!Next]_(Contract!vars)
<1> SUFFICES ASSUME BatchInv, [Next]_vars
             PROVE  Contract!Next \/ UNCHANGED Contract!vars
  OBVIOUS
<1> USE DEF Contract!Next, Contract!vars
<1>1. CASE EmitSequentialResult
  <2>1. next \in Calls /\ next = Len(results) + 1 /\ Len(results) \in Nat
        /\ calls \in Nat
    BY <1>1, NextResult DEF EmitSequentialResult, BatchInv, TypeOK, Calls
  <2>2. Len(results') = Len(results) + 1 /\ Len(results) < calls
    BY <1>1, <2>1 DEF EmitSequentialResult, Calls, BatchInv, TypeOK
  <2> QED
    BY <1>1, <2>2 DEF EmitSequentialResult, Contract!EmitResult
<1>2. CASE EmitParallelResult
  <2>1. pc = "results" /\ Len(results) + 1 \in Calls
        /\ results' = Append(results, Len(results) + 1)
        /\ Len(results) \in Nat /\ calls \in Nat /\ results \in Seq(Calls)
    BY <1>2, ParallelResult DEF BatchInv, TypeOK
  <2>2. Len(results') = Len(results) + 1 /\ Len(results) < calls
    BY <2>1 DEF Calls
  <2> QED
    BY <1>2, <2>1, <2>2 DEF EmitParallelResult, Contract!EmitResult
<1>3. CASE Return
  <2>1. terminate' \in BOOLEAN /\ stop' \in BOOLEAN
    BY <1>3 DEF Return
  <2>2. (stop' => terminate') /\ (mode = "truncated" => ~terminate')
    BY <1>3 DEF Return, ShouldTerminate
  <2>3. pc \in {"loop", "results"} /\ pc' = "returned"
        /\ UNCHANGED <<mode, calls, results, aborted>>
    BY <1>3 DEF Return
  <2> QED
    BY <1>3, <2>1, <2>2, <2>3, ReturnsAnswered DEF Contract!Return
<1>4. CASE Abort
  BY <1>4 DEF Abort, Contract!Abort
<1>5. CASE RejectEvent
  BY <1>5 DEF RejectEvent, Contract!Throw
<1>6. ASSUME NEW c \in Calls, RejectEnd(c)
      PROVE  Contract!Throw
  BY <1>6 DEF RejectEnd, Contract!Throw
<1>7. CASE Internal
  BY <1>7 DEF Internal, StartCall, PrepareCall, ExecuteCall, EndCall, RefuseCall,
              SettleCall, NextCall, LaunchPrepared, CollectResults,
              EndLaunchedCall, LoseCall, ReportFailure, FinishRun, vars
<1> QED
  BY <1>1, <1>2, <1>3, <1>4, <1>5, <1>6, <1>7 DEF Next, Step, Internal

\* The sequential, the parallel and the truncated executor keep the contract
\* Agent is built on.
THEOREM BatchKeepsContract == Spec => ImplementsContract
<1>1. Spec => Contract!Init
  BY ContractInit DEF Spec
<1>2. Spec => [][Contract!Next]_(Contract!vars)
  BY BatchInvariant, ContractStep, PTL DEF Spec
<1> QED
  BY <1>1, <1>2 DEF ImplementsContract, Contract!Spec

-----------------------------------------------------------------------------
(* The progress of a call *)


LEMMA ProgressInit == Progress!Init => Progress!TypeOK /\ Progress!Newness
<1> SUFFICES ASSUME Progress!Init PROVE Progress!TypeOK /\ Progress!Newness
  OBVIOUS
<1>1. Progress!TypeOK
  <2>1. deliveryFailure \in BOOLEAN /\ isError \in BOOLEAN
        /\ acceptingUpdates \in BOOLEAN /\ delivering \in BOOLEAN
    BY DEF Progress!Init
  <2>2. tool \in {"running", "ok", "error"}
        /\ call \in {"executing", "draining", "finished"}
    BY DEF Progress!Init
  <2>3. frames \in Nat /\ accepted \in 0..frames /\ pending \in 0..frames
        /\ inFlight \in 0..frames /\ delivered \in 0..frames
    BY DEF Progress!Init
  <2> QED
    BY <2>1, <2>2, <2>3 DEF Progress!TypeOK
<1>2. acceptingUpdates /\ ~delivering /\ call = "executing"
  BY DEF Progress!Init
<1>3. inFlight = 0 /\ pending = 0 /\ accepted = delivered
  BY DEF Progress!Init
<1> QED
  BY <1>1, <1>2, <1>3 DEF Progress!Newness

\* Every step keeps the types and the order of the frames.
LEMMA ProgressKept ==
  Progress!TypeOK /\ Progress!Newness /\ [Progress!Next]_(Progress!vars)
  => Progress!TypeOK' /\ Progress!Newness'
<1> SUFFICES ASSUME Progress!TypeOK, Progress!Newness, [Progress!Next]_(Progress!vars)
             PROVE  Progress!TypeOK' /\ Progress!Newness'
  OBVIOUS
<1> USE DEF Progress!TypeOK, Progress!Newness
<1>1. CASE Progress!Forward
  <2>1. CASE acceptingUpdates /\ delivering
    BY <1>1, <2>1 DEF Progress!Forward, Progress!Newest
  <2>2. CASE acceptingUpdates /\ ~delivering
    BY <1>1, <2>2 DEF Progress!Forward
  <2>3. CASE ~acceptingUpdates
    BY <1>1, <2>3 DEF Progress!Forward
  <2> QED
    BY <2>1, <2>2, <2>3
<1>2. CASE Progress!ListenerDone
  <2>1. /\ inFlight # 0 /\ delivered' = inFlight /\ inFlight' = pending
        /\ pending' = 0 /\ (delivering' <=> pending # 0)
        /\ UNCHANGED <<tool, call, frames, accepted, acceptingUpdates,
                       deliveryFailure, isError>>
    BY <1>2 DEF Progress!ListenerDone
  <2>2. call # "finished"
    BY <2>1
  <2>3. Progress!TypeOK'
    <3>1. delivering' \in BOOLEAN
      BY <1>2 DEF Progress!ListenerDone
    <3> QED
      BY <2>1, <3>1
  <2>4. Progress!Newness'
    BY <2>1, <2>2
  <2> QED
    BY <2>3, <2>4
<1>3. CASE Progress!ListenerRejects
  <2>1. /\ ~delivering' /\ inFlight' = 0 /\ deliveryFailure'
        /\ UNCHANGED <<tool, call, frames, accepted, acceptingUpdates, pending,
                       delivered, isError>>
    BY <1>3 DEF Progress!ListenerRejects, Progress!DrainEnds
  <2>2. call # "finished"
    BY <1>3 DEF Progress!ListenerRejects
  <2>3. Progress!TypeOK'
    <3>1. deliveryFailure' \in BOOLEAN /\ delivering' \in BOOLEAN
      BY <1>3 DEF Progress!ListenerRejects, Progress!DrainEnds
    <3> QED
      BY <2>1, <3>1
  <2>4. Progress!Newness'
    BY <2>1, <2>2
  <2> QED
    BY <2>3, <2>4
<1>4. ASSUME NEW how \in {"ok", "error"}, Progress!ToolSettles(how)
      PROVE  Progress!TypeOK' /\ Progress!Newness'
  BY <1>4 DEF Progress!ToolSettles
<1>5. CASE Progress!StopAccepting
  BY <1>5 DEF Progress!StopAccepting
<1>6. CASE Progress!ReturnResult
  BY <1>6 DEF Progress!ReturnResult, Progress!Idle
<1>7. CASE UNCHANGED Progress!vars
  BY <1>7 DEF Progress!vars
<1> QED
  BY <1>1, <1>2, <1>3, <1>4, <1>5, <1>6, <1>7 DEF Progress!Next, Progress!Listener

\* The types hold, and with them the order of the frames, in every state.
LEMMA ProgressInvariant == Progress!Spec => [](Progress!TypeOK /\ Progress!Newness)
BY ProgressInit, ProgressKept, PTL DEF Progress!Spec

\* The result never overtakes the newest progress frame, for any number of
\* frames and any slow or rejecting listener.
THEOREM NewestFrameFirst == Progress!Spec => []Progress!NewestBeforeResult
<1>1. Progress!TypeOK /\ Progress!Newness => Progress!NewestBeforeResult
  BY DEF Progress!TypeOK, Progress!Newness, Progress!NewestBeforeResult
<1> QED
  BY <1>1, ProgressInvariant, PTL

\* No frame is delivered after the result.
THEOREM NoFrameAfterResult == Progress!Spec => []Progress!SilentAfterResult
<1>1. Progress!TypeOK /\ Progress!Newness => Progress!SilentAfterResult
  BY DEF Progress!TypeOK, Progress!Newness, Progress!SilentAfterResult
<1> QED
  BY <1>1, ProgressInvariant, PTL

-----------------------------------------------------------------------------
(* The turn and its parts *)

\* Whatever the response and the progress do, the turn's batch is a batch.
LEMMA TurnIsBatch == TurnSpec => Spec
<1>1. TurnInit => Init
  BY DEF TurnInit
<1>2. [TurnNext]_turnVars => [Next]_vars
  <2> SUFFICES ASSUME [TurnNext]_turnVars PROVE [Next]_vars
    OBVIOUS
  <2>1. CASE ResponseStep \/ ToolForwards \/ ProgressStep \/ UNCHANGED turnVars
    BY <2>1 DEF ResponseStep, ToolForwards, ProgressStep, turnVars
  <2>2. CASE BatchStep
    BY <2>2 DEF BatchStep, Next, Step
  <2>3. CASE BatchRejects
    BY <2>3 DEF BatchRejects, Next
  <2>4. CASE AbortTurn
    BY <2>4 DEF AbortTurn, Next
  <2> QED
    BY <2>1, <2>2, <2>3, <2>4 DEF TurnNext
<1> QED
  BY <1>1, <1>2, PTL DEF TurnSpec, Spec

\* Inside a turn no tool runs behind a control tool that asked to stop it.
THEOREM TurnKeepsBarrier == TurnSpec => []BarrierHolds
BY TurnIsBatch, BarrierAlwaysHolds, PTL

\* Inside a turn a batch returns only when every announced call has ended.
THEOREM TurnLeavesNothingRunning == TurnSpec => []NothingLeftRunning
BY TurnIsBatch, NothingIsLeftRunning, PTL

\* The turn gives runLoop what ToolBatchContract promises.
THEOREM TurnKeepsContract == TurnSpec => ImplementsContract
BY TurnIsBatch, BatchKeepsContract, PTL

-----------------------------------------------------------------------------
\* Whatever the batch does around it, the progress of the watched call is one.
LEMMA TurnIsProgress == TurnSpec => Progress!Spec
<1>1. TurnInit => Progress!Init
  BY DEF TurnInit
<1>2. [TurnNext]_turnVars => [Progress!Next]_(Progress!vars)
  <2> SUFFICES ASSUME [TurnNext]_turnVars PROVE [Progress!Next]_(Progress!vars)
    OBVIOUS
  <2>1. CASE ResponseStep \/ BatchStep \/ BatchRejects \/ AbortTurn \/ UNCHANGED turnVars
    BY <2>1 DEF ResponseStep, BatchStep, BatchRejects, AbortTurn, turnVars,
                progressVars, Progress!vars
  <2>2. CASE ToolForwards \/ ProgressStep
    BY <2>2 DEF ToolForwards, ProgressStep, Progress!Next
  <2> QED
    BY <2>1, <2>2 DEF TurnNext
<1> QED
  BY <1>1, <1>2, PTL DEF TurnSpec, Progress!Spec

\* The watched call has no outcome before the drain of its progress has ended.
WatchInv ==
  /\ watched \in Calls
  /\ Launched => \/ state[watched] = "executing"
                 \/ call = "finished" /\ state[watched] \in {"executed", "ended", "lost"}

LEMMA WatchStep ==
  ASSUME TypeOK, WatchInv, [TurnNext]_turnVars
  PROVE  WatchInv'
<1> USE DEF WatchInv, Launched
<1>0. state \in [Calls -> CallStates] /\ ran \subseteq Calls
  BY DEF TypeOK
<1>1. CASE ResponseStep \/ ToolForwards \/ AbortTurn \/ UNCHANGED turnVars
  BY <1>1 DEF ResponseStep, ToolForwards, Progress!Forward, AbortTurn, Abort, turnVars,
              progressVars, vars, Calls
<1>2. CASE ProgressStep
  <2>1. call = "finished" => call' = "finished"
    BY <1>2 DEF ProgressStep, Progress!Listener, Progress!ListenerDone,
                Progress!ListenerRejects, Progress!ToolSettles, Progress!StopAccepting,
                Progress!ReturnResult
  <2> QED
    BY <1>2, <2>1 DEF ProgressStep, vars, Calls
<1>3. CASE BatchStep
  <2>0. calls' = calls /\ watched' = watched /\ call' = call
    BY <1>3 DEF BatchStep, progressVars, StartCall, PrepareCall, ExecuteCall, EndCall,
                RefuseCall, SettleCall, EmitSequentialResult, NextCall, LaunchPrepared,
                CollectResults, EndLaunchedCall, LoseCall, EmitParallelResult, Return,
                ReportFailure, FinishRun
  <2> USE <1>0, <2>0 DEF Move, Calls
  <2>1. CASE StartCall \/ PrepareCall \/ (\E block \in BOOLEAN : RefuseCall(block))
    BY <2>1 DEF StartCall, PrepareCall, RefuseCall
  <2>2. CASE ExecuteCall
    BY <2>2 DEF ExecuteCall
  <2>3. CASE EndCall
    BY <2>3 DEF EndCall
  <2>4. CASE \E c \in Calls, f \in Flags :
               (c = watched => call = "finished") /\ SettleCall(c, f)
    BY <2>4 DEF SettleCall
  <2>5. CASE EmitSequentialResult \/ NextCall \/ CollectResults \/ EmitParallelResult
             \/ Return \/ ReportFailure \/ FinishRun
    BY <2>5 DEF EmitSequentialResult, NextCall, CollectResults, EmitParallelResult,
                Return, ReportFailure, FinishRun
  <2>6. CASE LaunchPrepared
    BY <2>6 DEF LaunchPrepared, Prepared
  <2>7. CASE \E c \in Calls : EndLaunchedCall(c) \/ LoseCall(c)
    BY <2>7 DEF EndLaunchedCall, LoseCall
  <2> QED
    BY <1>3, <2>1, <2>2, <2>3, <2>4, <2>5, <2>6, <2>7 DEF BatchStep
<1>4. CASE BatchRejects
  <2>1. /\ calls' = calls /\ watched' = watched /\ call' = call /\ ran' = ran
        /\ \/ state' = state
           \/ \E c \in Calls : state[c] = "executed" /\ Move(c, "ended")
    BY <1>4 DEF BatchRejects, progressVars, RejectEvent, RejectEnd
  <2> QED
    BY <1>0, <2>1 DEF Move, Calls
<1> QED
  BY <1>1, <1>2, <1>3, <1>4 DEF TurnNext

LEMMA Watched == TurnSpec => []WatchInv
<1>1. TurnInit => WatchInv
  BY DEF TurnInit, Init, WatchInv, Launched, Calls
<1> QED
  BY <1>1, WatchStep, TurnIsBatch, TypeCorrect, PTL DEF TurnSpec

\* When the watched call has its outcome, the newest frame has been delivered, or
\* the result reports the rejection; for any number of frames and calls.
THEOREM TurnNewestFirst == TurnSpec => []NewestBeforeResult
<1>1. WatchInv /\ Progress!NewestBeforeResult => NewestBeforeResult
  BY DEF WatchInv, Launched, NewestBeforeResult, Progress!NewestBeforeResult
<1> QED
  BY <1>1, Watched, TurnIsProgress, NewestFrameFirst, PTL

\* No progress of the watched call is delivered behind its outcome.
THEOREM TurnSilentAfter == TurnSpec => []SilentAfterResult
<1>1. WatchInv /\ Progress!SilentAfterResult => SilentAfterResult
  BY DEF WatchInv, Launched, SilentAfterResult, Progress!SilentAfterResult
<1> QED
  BY <1>1, Watched, TurnIsProgress, NoFrameAfterResult, PTL

-----------------------------------------------------------------------------
(* The response *)

\* What the response has left in the context, and that it ends once.
ResponseInv ==
  /\ started <=> addedPartial
  /\ stream # "ended" /\ ~addedPartial => ends = 0 /\ starts = 0 /\ context = << >>
  /\ stream # "ended" /\ addedPartial => ends = 0 /\ starts = 1 /\ context = <<"partial">>
  /\ stream = "ended" => ends = 1 /\ starts = 1 /\ context = <<"final">>
  /\ event = "terminal" \/ response = "returned" => stream = "ended"
  /\ response # "pending" => event = "none"

\* The terminal event, whatever brought it, replaces or pushes the one entry.
LEMMA TerminalKept ==
  ASSUME ResponseInv, Stream!Waiting, stream # "ended", stream' = "ended",
         NEW kind, Stream!Terminal(kind)
  PROVE  ResponseInv'
<1>1. CASE addedPartial
  <2>1. context' = [<<"partial">> EXCEPT ![1] = "final"]
    BY <1>1 DEF Stream!Terminal, Stream!StoreFinal, ResponseInv
  <2>2. context' = <<"final">>
    BY <2>1
  <2> QED
    BY <1>1, <2>2 DEF Stream!Terminal, ResponseInv, Stream!Waiting
<1>2. CASE ~addedPartial
  <2>1. context' = <<"final">>
    BY <1>2 DEF Stream!Terminal, Stream!StoreFinal, ResponseInv
  <2> QED
    BY <1>2, <2>1 DEF Stream!Terminal, ResponseInv, Stream!Waiting
<1> QED
  BY <1>1, <1>2

LEMMA ResponseKept == ResponseInv /\ Stream!Step => ResponseInv'
<1> SUFFICES ASSUME ResponseInv, Stream!Step PROVE ResponseInv'
  OBVIOUS
<1>1. CASE Stream!Create
  BY <1>1 DEF Stream!Create, Stream!Waiting, ResponseInv
<1>2. CASE Stream!Start
  <2>1. /\ ~addedPartial /\ stream # "ended" /\ context = << >> /\ starts = 0 /\ ends = 0
    BY <1>2 DEF Stream!Start, ResponseInv, Stream!Waiting
  <2>2. context' = << >> \o <<"partial">>
    BY <1>2, <2>1 DEF Stream!Start
  <2>3. context' = <<"partial">> /\ starts' = 1
    BY <1>2, <2>1, <2>2 DEF Stream!Start
  <2> QED
    BY <1>2, <2>1, <2>3 DEF Stream!Start, Stream!Waiting, ResponseInv
<1>3. CASE Stream!Update
  BY <1>3 DEF Stream!Update, Stream!Waiting, ResponseInv
<1>4. ASSUME NEW kind \in {"done", "error", "aborted"}, Stream!ProviderEnds(kind)
      PROVE  ResponseInv'
  BY <1>4, TerminalKept DEF Stream!ProviderEnds
<1>5. CASE Stream!Interrupted
  BY <1>5, TerminalKept DEF Stream!Interrupted
<1>6. CASE Stream!Handled
  BY <1>6 DEF Stream!Handled, ResponseInv
<1>7. CASE Stream!Return
  BY <1>7 DEF Stream!Return, ResponseInv
<1>8. CASE Stream!Reject
  BY <1>8 DEF Stream!Reject, ResponseInv
<1> QED
  BY <1>1, <1>2, <1>3, <1>4, <1>5, <1>6, <1>7, <1>8 DEF Stream!Step

\* A tool runs only for a response that was completed.
RanComplete == ran # {} => InBatch

LEMMA ResponseInvariant == TurnSpec => [](ResponseInv /\ RanComplete)
<1>1. TurnInit => ResponseInv /\ RanComplete
  BY DEF TurnInit, Stream!Init, Init, ResponseInv, RanComplete
<1>2. ResponseInv /\ RanComplete /\ [TurnNext]_turnVars => ResponseInv' /\ RanComplete'
  <2> SUFFICES ASSUME ResponseInv, RanComplete, [TurnNext]_turnVars
               PROVE  ResponseInv' /\ RanComplete'
    OBVIOUS
  <2>1. CASE ResponseStep
    <3>1. ResponseInv'
      BY <2>1, ResponseKept DEF ResponseStep
    <3>2. InBatch => InBatch'
      BY <2>1 DEF ResponseStep, InBatch, ResponseInv, Stream!Step, Stream!Create,
                  Stream!Start, Stream!Update, Stream!ProviderEnds, Stream!Interrupted,
                  Stream!Handled, Stream!Return, Stream!Reject, Stream!Waiting
    <3>3. ran' = ran
      BY <2>1 DEF ResponseStep, vars
    <3> QED
      BY <3>1, <3>2, <3>3 DEF RanComplete
  <2>2. CASE BatchStep \/ BatchRejects
    BY <2>2 DEF BatchStep, BatchRejects, streamVars, ResponseInv, RanComplete, InBatch
  <2>3. CASE ToolForwards \/ ProgressStep \/ AbortTurn \/ UNCHANGED turnVars
    BY <2>3 DEF ToolForwards, ProgressStep, AbortTurn, Abort, turnVars, streamVars, vars,
                ResponseInv, RanComplete, InBatch
  <2> QED
    BY <2>1, <2>2, <2>3 DEF TurnNext
<1> QED
  BY <1>1, <1>2, PTL DEF TurnSpec

\* However the provider ends, and whatever rejects: one final message, and no tool
\* runs for a response that was not completed.
THEOREM TurnOneTerminal == TurnSpec => []OneTerminal
<1>1. ResponseInv /\ RanComplete => OneTerminal
  BY DEF OneTerminal, Stream!OneTerminal, ResponseInv, RanComplete, InBatch
<1> QED
  BY <1>1, ResponseInvariant, PTL

=============================================================================
