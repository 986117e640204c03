------------------------ MODULE SubagentLanesProofs ------------------------
(***************************************************************************)
(* Proofs about SubagentLanes for any number of lanes, generations,        *)
(* queued prompts, writes and shutdowns: no more lanes run than may, and   *)
(* every end of a turn is announced, once, and while it is the lane's end. *)
(***************************************************************************)
EXTENDS SubagentLanes, FiniteSetTheorems, WellFoundedInduction, TLAPS

USE DEF vars, laneVars, noticeVars, answerVars

Types ==
  /\ lanes \subseteq Lanes
  /\ status \in [Lanes -> {"none", "running"} \cup Finished]
  /\ runGeneration \in [Lanes -> Nat]
  /\ started \in [Lanes -> Nat]
  /\ epoch \in Nat
  /\ laneEpoch \in [Lanes -> Nat]
  /\ notices \in [Lanes -> Nat]
  /\ runs \subseteq Lanes \X Nat
  /\ windDowns \subseteq Lanes \X Nat \X Nat
  /\ deliveries \subseteq [lane : Lanes, gen : Nat, at : {"writes", "view"}]

\* Nothing under way is of a generation yet to come.
Past(l) ==
  /\ \A g \in Nat : <<l, g>> \in runs => g =< runGeneration[l]
  /\ \A r, g \in Nat : <<l, r, g>> \in windDowns => g =< runGeneration[l]
  /\ \A d \in deliveries : d.lane = l => d.gen =< runGeneration[l]
  /\ laneEpoch[l] =< epoch
  /\ l \in lanes => status[l] # "none"
  /\ status[l] = "none" => runGeneration[l] = 0
  /\ status[l] = "running" => started[l] \in Generations /\ notices[l] = 0

Live(l) == laneEpoch[l] = epoch

\* What is under way for the current generation of a lane.
RunCurrent(l) == <<l, runGeneration[l]>> \in runs
Delivering(l, d) == d \in deliveries /\ d.lane = l /\ d.gen = runGeneration[l]
WindingDown(l, r) == <<l, r, runGeneration[l]>> \in windDowns

\* It is one thing: the run, its delivery or the wind-down of a stop, and as
\* long as it is there the turn has not been announced.
OneVoice(l) ==
  /\ RunCurrent(l) =>
       /\ notices[l] = 0
       /\ Live(l) => status[l] = "running"
       /\ \A d \in deliveries : ~Delivering(l, d)
       /\ \A r \in Nat : ~WindingDown(l, r)
  /\ \A d \in deliveries : Delivering(l, d) =>
       /\ notices[l] = 0
       /\ Live(l) => status[l] \in Finished
       /\ \A e \in deliveries : Delivering(l, e) => e = d
       /\ \A r \in Nat : ~WindingDown(l, r)
  /\ \A r \in Nat : WindingDown(l, r) =>
       /\ notices[l] = 0
       /\ Live(l) => status[l] = "aborted"
       /\ \A q \in Nat : WindingDown(l, q) => q = r

Heard(l) ==
  Unannounced(l) => \/ \E d \in deliveries : Delivering(l, d)
                    \/ \E r \in Generations : WindingDown(l, r)

LaneInv(l) == Past(l) /\ OneVoice(l) /\ Heard(l) /\ notices[l] =< 1

LanesInv == Types /\ \A l \in Lanes : LaneInv(l)

-----------------------------------------------------------------------------
LEMMA GenerationsNat == Generations \subseteq Nat
  BY LanesAssumption DEF Generations, LanesAssumption

LEMMA InitInv == Init => LanesInv
  BY DEF Init, LanesInv, LaneInv, Types, Past, OneVoice, Heard, RunCurrent,
         Delivering, WindingDown, Unannounced, Finished

\* What a lane is told by depends on its own part of the state.
LEMMA Untouched ==
  ASSUME LanesInv, NEW k \in Lanes,
         runGeneration'[k] = runGeneration[k], started'[k] = started[k],
         status'[k] = status[k], notices'[k] = notices[k], laneEpoch'[k] = laneEpoch[k],
         epoch' = epoch, k \in lanes' => k \in lanes,
         \A g \in Nat : <<k, g>> \in runs' => <<k, g>> \in runs,
         \A r, g \in Nat : <<k, r, g>> \in windDowns' <=> <<k, r, g>> \in windDowns,
         \A d : d.lane = k => (d \in deliveries' <=> d \in deliveries)
  PROVE  LaneInv(k)'
<1> USE DEF LanesInv, LaneInv, Types
<1>1. Past(k)'
  BY DEF Past
<1>2. OneVoice(k)'
  BY DEF OneVoice, RunCurrent, Delivering, WindingDown, Live
<1>3. Heard(k)'
  BY GenerationsNat DEF Heard, Unannounced, Delivering, WindingDown
<1> QED
  BY <1>1, <1>2, <1>3

\* A new turn: everything under way is of an older generation but its run.
LEMMA Starting ==
  ASSUME LanesInv, NEW l \in Lanes, StartLane(l),
         epoch' = epoch, lanes' \subseteq lanes \cup {l},
         laneEpoch' \in [Lanes -> Nat], laneEpoch'[l] =< epoch,
         \A k \in Lanes \ {l} : laneEpoch'[k] = laneEpoch[k],
         runs' \subseteq runs \cup {<<l, runGeneration[l] + 1>>},
         windDowns' = windDowns, deliveries' = deliveries
  PROVE  LanesInv'
<1> USE DEF LanesInv, StartLane
<1>1. Types'
  <2>1. <<l, runGeneration[l] + 1>> \in Lanes \X Nat
    BY DEF Types
  <2>2. runs' \subseteq Lanes \X Nat
    BY <2>1 DEF Types
  <2>3. /\ status' \in [Lanes -> {"none", "running"} \cup Finished]
        /\ runGeneration' \in [Lanes -> Nat] /\ started' \in [Lanes -> Nat]
        /\ notices' \in [Lanes -> Nat]
    BY DEF Types
  <2> QED
    BY <2>2, <2>3 DEF Types
<1>2. LaneInv(l)'
  <2> DEFINE g == runGeneration[l] + 1
  <2>1. /\ g \in Nat /\ runGeneration'[l] = g /\ started'[l] = g
        /\ status'[l] = "running" /\ notices'[l] = 0
    BY DEF Types
  <2>2. g \in Generations
    <3>1. g \in 1 .. MaxGeneration[l]
      BY <2>1, LanesAssumption DEF LanesAssumption, Types
    <3> QED
      BY <3>1 DEF Generations
  <2>3. /\ \A h \in Nat : <<l, h>> \in runs => h < g
        /\ \A r, h \in Nat : <<l, r, h>> \in windDowns => h < g
        /\ \A d \in deliveries : d.lane = l => d.gen < g
    BY DEF LaneInv, Past, Types
  <2>4. Past(l)'
    BY <2>1, <2>2, <2>3 DEF Past, Types
  <2>5. OneVoice(l)'
    BY <2>1, <2>3 DEF OneVoice, RunCurrent, Delivering, WindingDown, Types
  <2>6. Heard(l)' /\ notices'[l] =< 1
    BY <2>1 DEF Heard, Unannounced, Finished
  <2> QED
    BY <2>4, <2>5, <2>6 DEF LaneInv
<1>3. ASSUME NEW k \in Lanes, k # l
      PROVE  LaneInv(k)'
  BY <1>3, Untouched DEF Types
<1> QED
  BY <1>1, <1>2, <1>3

LEMMA LaunchKeeps ==
  ASSUME LanesInv, NEW l \in Lanes, LaunchLane(l)
  PROVE  LanesInv'
<1>1. runGeneration[l] = 0
  BY DEF LanesInv, LaneInv, Past, LaunchLane
<1>2. laneEpoch' \in [Lanes -> Nat] /\ laneEpoch'[l] = epoch
      /\ \A k \in Lanes \ {l} : laneEpoch'[k] = laneEpoch[k]
  BY DEF LanesInv, Types, LaunchLane
<1> QED
  BY <1>1, <1>2, Starting DEF LaunchLane, LanesInv, Types

LEMMA ReplyKeeps ==
  ASSUME LanesInv, NEW l \in Lanes, InterruptLane(l) \/ ReplyToFinished(l)
  PROVE  LanesInv'
<1>1. laneEpoch' \in [Lanes -> Nat] /\ laneEpoch'[l] =< epoch
  BY DEF LanesInv, LaneInv, Past, Types, InterruptLane, ReplyToFinished
<1> QED
  BY <1>1, Starting DEF InterruptLane, ReplyToFinished

\* A stop: what was under way is outdated, and its wind-down will speak.
LEMMA StopKeeps ==
  ASSUME LanesInv, NEW l \in Lanes, StopLane(l)
  PROVE  LanesInv'
<1> USE DEF LanesInv, StopLane
<1> DEFINE g == runGeneration[l] + 1
<1>1. Types'
  BY DEF Types, Finished
<1>2. LaneInv(l)'
  <2>1. /\ g \in Nat /\ runGeneration'[l] = g /\ started[l] \in Nat
        /\ status'[l] = "aborted" /\ notices[l] = 0 /\ started[l] \in Generations
    BY DEF Types, LaneInv, Past
  <2>2. /\ \A h \in Nat : <<l, h>> \in runs => h < g
        /\ \A r, h \in Nat : <<l, r, h>> \in windDowns => h < g
        /\ \A d \in deliveries : d.lane = l => d.gen < g
    BY DEF LaneInv, Past, Types
  <2>3. Past(l)'
    BY <2>1, <2>2 DEF Past, Types, LaneInv
  <2>4. \A r \in Nat : WindingDown(l, r)' <=> r = started[l]
    BY <2>1, <2>2 DEF WindingDown
  <2>5. OneVoice(l)'
    BY <2>1, <2>2, <2>4 DEF OneVoice, RunCurrent, Delivering, Types
  <2>6. Heard(l)' /\ notices'[l] =< 1
    BY <2>1, <2>4 DEF Heard
  <2> QED
    BY <2>3, <2>5, <2>6 DEF LaneInv
<1>3. ASSUME NEW k \in Lanes, k # l
      PROVE  LaneInv(k)'
  BY <1>3, Untouched DEF Types
<1> QED
  BY <1>1, <1>2, <1>3

\* The end of a turn: its run makes way for its delivery.
LEMMA FinishKeeps ==
  ASSUME LanesInv, NEW l \in Lanes, NEW g \in Nat, <<l, g>> \in runs,
         IsCurrent(l, g), NEW outcome \in Finished, FinishLane(l, g, outcome),
         runs' = runs \ {<<l, g>>}
  PROVE  LanesInv'
<1> USE DEF LanesInv, FinishLane
<1> DEFINE new == NewDelivery(l, g)
<1>1. g = runGeneration[l] /\ RunCurrent(l) /\ Live(l)
  BY DEF IsCurrent, RunCurrent, Live
<1>2. new \in [lane : Lanes, gen : Nat, at : {"writes", "view"}]
      /\ new.lane = l /\ new.gen = g
  BY DEF NewDelivery
<1>3. Types'
  BY <1>2 DEF Types
<1>4. LaneInv(l)'
  <2>1. /\ status'[l] \in Finished /\ notices'[l] = 0
        /\ \A d \in deliveries : ~Delivering(l, d)
        /\ \A r \in Nat : ~WindingDown(l, r)
    BY <1>1 DEF Types, LaneInv, OneVoice
  <2>2. Past(l)'
    BY <1>1, <1>2, <2>1 DEF LaneInv, Past, Types, Finished
  <2>3. \A d \in deliveries' : Delivering(l, d)' <=> d = new
    BY <1>1, <1>2, <2>1 DEF Delivering
  <2>4. ~RunCurrent(l)' /\ \A r \in Nat : ~WindingDown(l, r)'
    BY <1>1, <2>1 DEF RunCurrent, WindingDown
  <2>5. OneVoice(l)'
    BY <2>1, <2>3, <2>4 DEF OneVoice, Types
  <2>6. Heard(l)' /\ notices'[l] =< 1
    BY <2>1, <2>3 DEF Heard
  <2> QED
    BY <2>2, <2>5, <2>6 DEF LaneInv
<1>5. ASSUME NEW k \in Lanes, k # l
      PROVE  LaneInv(k)'
  BY <1>2, <1>5, Untouched DEF Types
<1> QED
  BY <1>3, <1>4, <1>5

LEMMA RunKeeps ==
  ASSUME LanesInv, NEW l \in Lanes, NEW g \in Generations,
         RunResolves(l, g) \/ RunRejects(l, g)
  PROVE  LanesInv'
<1>1. g \in Nat
  BY GenerationsNat
<1>2. CASE RunRejects(l, g)
  BY <1>1, <1>2, FinishKeeps DEF RunRejects, Finished
<1>3. CASE RunResolves(l, g)
  <2>1. CASE StartLane(l) /\ UNCHANGED <<lanes, epoch, laneEpoch, windDowns, deliveries>>
             /\ runs' = (runs \ {<<l, g>>}) \cup {<<l, g + 1>>}
    <3>1. g = runGeneration[l] /\ laneEpoch' \in [Lanes -> Nat] /\ laneEpoch'[l] =< epoch
      BY <1>3, <2>1 DEF RunResolves, IsCurrent, LanesInv, LaneInv, Past, Types
    <3>2. runs' \subseteq runs \cup {<<l, runGeneration[l] + 1>>}
      BY <2>1, <3>1
    <3> QED
      BY <2>1, <3>1, <3>2, Starting
  <2>2. CASE \E outcome \in {"completed", "aborted"} :
               FinishLane(l, g, outcome) /\ runs' = runs \ {<<l, g>>}
    BY <1>1, <1>3, <2>2, FinishKeeps DEF RunResolves, Finished
  <2> QED
    BY <1>3, <2>1, <2>2 DEF RunResolves
<1> QED
  BY <1>2, <1>3

LEMMA StaleRunKeeps ==
  ASSUME LanesInv, NEW l \in Lanes, NEW g \in Nat, StaleRunSettles(l, g)
  PROVE  LanesInv'
<1> USE DEF LanesInv, StaleRunSettles
<1>1. Types'
  BY DEF Types
<1>2. ASSUME NEW k \in Lanes
      PROVE  LaneInv(k)'
  BY Untouched DEF Types
<1> QED
  BY <1>1, <1>2

\* The wind-down of the current stop becomes its delivery; an outdated one
\* only gives its mark back.
LEMMA WindDownKeeps ==
  ASSUME LanesInv, NEW l \in Lanes, NEW r \in Nat, NEW g \in Nat, WindDown(l, r, g)
  PROVE  LanesInv'
<1> USE DEF LanesInv, WindDown
<1> DEFINE new == NewDelivery(l, g)
<1>1. new \in [lane : Lanes, gen : Nat, at : {"writes", "view"}]
      /\ new.lane = l /\ new.gen = g
  BY DEF NewDelivery
<1>2. Types'
  BY <1>1 DEF Types
<1>3. LaneInv(l)'
  <2>1. CASE IsCurrent(l, g)
    <3>1. WindingDown(l, r) /\ Live(l) /\ g = runGeneration[l]
      BY <2>1 DEF IsCurrent, WindingDown, Live
    <3>2. /\ status[l] = "aborted" /\ notices[l] = 0 /\ ~RunCurrent(l)
          /\ \A q \in Nat : WindingDown(l, q) => q = r
          /\ \A d \in deliveries : ~Delivering(l, d)
      BY <3>1 DEF LaneInv, OneVoice
    <3>3. deliveries' = deliveries \cup {new}
      BY <2>1, <3>2
    <3>4. Past(l)'
      BY <1>1, <3>1, <3>3 DEF LaneInv, Past, Types
    <3>5. /\ \A d \in deliveries' : Delivering(l, d)' <=> d = new
          /\ ~RunCurrent(l)' /\ \A q \in Nat : ~WindingDown(l, q)'
      BY <1>1, <3>1, <3>2, <3>3 DEF Delivering, RunCurrent, WindingDown
    <3>6. OneVoice(l)'
      BY <3>2, <3>5 DEF OneVoice, Finished
    <3>7. Heard(l)' /\ notices'[l] =< 1
      BY <3>2, <3>3, <3>5 DEF Heard
    <3> QED
      BY <3>4, <3>6, <3>7 DEF LaneInv
  <2>2. CASE ~IsCurrent(l, g)
    <3>1. deliveries' = deliveries
      BY <2>2
    <3>2. Past(l)' /\ OneVoice(l)'
      BY <3>1 DEF LaneInv, Past, OneVoice, RunCurrent, Delivering, WindingDown, Live, Types
    <3>3. Unannounced(l)' => Unannounced(l) /\ runGeneration[l] # g
      BY <2>2 DEF Unannounced, IsCurrent
    <3>4. Heard(l)'
      BY <3>1, <3>3 DEF LaneInv, Heard, Delivering, WindingDown
    <3> QED
      BY <3>2, <3>4 DEF LaneInv
  <2> QED
    BY <2>1, <2>2
<1>4. ASSUME NEW k \in Lanes, k # l
      PROVE  LaneInv(k)'
  BY <1>1, <1>4, Untouched DEF Types
<1> QED
  BY <1>2, <1>3, <1>4

\* A delivery ends: with a notice if it is current, without if it is outdated.
LEMMA EndKeeps ==
  ASSUME LanesInv, NEW d \in deliveries, EndDelivery(d),
         notices' = IF IsCurrent(d.lane, d.gen)
                    THEN [notices EXCEPT ![d.lane] = @ + 1] ELSE notices
  PROVE  LanesInv'
<1> USE DEF LanesInv, EndDelivery
<1> DEFINE l == d.lane
<1>1. l \in Lanes /\ d.gen \in Nat
  BY DEF Types
<1>2. lanes' \subseteq lanes /\ deliveries' = deliveries \ {d}
  OBVIOUS
<1>3. Types'
  BY <1>1, <1>2 DEF Types
<1>4. LaneInv(l)'
  <2>1. CASE IsCurrent(l, d.gen)
    <3>1. Delivering(l, d) /\ Live(l)
      BY <2>1 DEF IsCurrent, Delivering, Live
    <3>2. /\ notices[l] = 0 /\ status[l] \in Finished /\ ~RunCurrent(l)
          /\ \A e \in deliveries : Delivering(l, e) => e = d
          /\ \A r \in Nat : ~WindingDown(l, r)
      BY <1>1, <3>1 DEF LaneInv, OneVoice
    <3>3. notices'[l] = 1
      BY <1>1, <2>1, <3>2 DEF Types
    <3>4. Past(l)'
      BY <1>1, <1>2, <3>2, <3>3 DEF LaneInv, Past, Finished
    <3>5. OneVoice(l)'
      BY <1>2, <3>2 DEF OneVoice, RunCurrent, Delivering, WindingDown
    <3>6. Heard(l)'
      BY <3>3 DEF Heard, Unannounced
    <3> QED
      BY <3>3, <3>4, <3>5, <3>6 DEF LaneInv
  <2>2. CASE ~IsCurrent(l, d.gen)
    <3>1. notices' = notices
      BY <2>2
    <3>2. Past(l)' /\ OneVoice(l)'
      BY <1>1, <1>2, <3>1
      DEF LaneInv, Past, OneVoice, RunCurrent, Delivering, WindingDown, Live, Types
    <3>3. Unannounced(l)' => Unannounced(l) /\ ~Delivering(l, d)
      BY <2>2, <3>1 DEF Unannounced, IsCurrent, Delivering
    <3>4. Heard(l)'
      BY <1>1, <1>2, <3>3 DEF LaneInv, Heard, Delivering, WindingDown
    <3> QED
      BY <1>1, <3>1, <3>2, <3>4 DEF LaneInv
  <2> QED
    BY <2>1, <2>2
<1>5. ASSUME NEW k \in Lanes, k # l
      PROVE  LaneInv(k)'
  <2>1. notices'[k] = notices[k]
    BY <1>1, <1>5 DEF Types
  <2> QED
    BY <1>1, <1>2, <1>5, <2>1, Untouched DEF Types
<1> QED
  BY <1>3, <1>4, <1>5

LEMMA DeliveryKeeps ==
  ASSUME LanesInv, NEW d \in deliveries, AwaitWrites(d) \/ SendNotice(d)
  PROVE  LanesInv'
<1>1. CASE SendNotice(d)
  BY <1>1, EndKeeps DEF SendNotice
<1>2. CASE EndDelivery(d) /\ ~IsCurrent(d.lane, d.gen) /\ notices' = notices
  BY <1>2, EndKeeps
<1>3. CASE /\ deliveries' = (deliveries \ {d}) \cup {[d EXCEPT !.at = "view"]}
           /\ UNCHANGED <<laneVars, runs, windDowns, notices>>
  <2> USE DEF LanesInv
  <2> DEFINE new == [d EXCEPT !.at = "view"]
  <2>1. /\ d \in [lane : Lanes, gen : Nat, at : {"writes", "view"}]
        /\ new \in [lane : Lanes, gen : Nat, at : {"writes", "view"}]
        /\ new.lane = d.lane /\ new.gen = d.gen
    BY DEF Types
  <2>2. Types'
    BY <1>3, <2>1 DEF Types
  <2>3. ASSUME NEW k \in Lanes
        PROVE  LaneInv(k)'
    <3>1. LaneInv(k) /\ Delivering(k, new)' = Delivering(k, d)
      BY <1>3, <2>1 DEF Delivering
    <3>2. \A e \in deliveries' : Delivering(k, e)' =>
            \/ e = new /\ Delivering(k, d)
            \/ e # d /\ e \in deliveries /\ Delivering(k, e)
      BY <1>3, <3>1 DEF Delivering
    <3>3. \A e \in deliveries : Delivering(k, e) =>
            \/ e = d /\ Delivering(k, new)'
            \/ e # d /\ Delivering(k, e)'
      BY <1>3, <3>1 DEF Delivering
    <3>4. Past(k)'
      BY <1>3, <2>1, <3>1 DEF LaneInv, Past
    <3>5. OneVoice(k)'
      BY <1>3, <3>1, <3>2 DEF LaneInv, OneVoice, RunCurrent, WindingDown, Live
    <3>6. Heard(k)'
      BY <1>3, <3>1, <3>3 DEF LaneInv, Heard, Unannounced, Delivering, WindingDown
    <3> QED
      BY <1>3, <3>1, <3>4, <3>5, <3>6 DEF LaneInv
  <2> QED
    BY <2>2, <2>3
<1> QED
  BY <1>1, <1>2, <1>3 DEF AwaitWrites

\* Prompts and answers move nothing of this.
LEMMA AnswersKeep ==
  ASSUME LanesInv, NEW l \in Lanes, NEW g \in Nat,
         QueuePrompt(l) \/ CompleteResponse(l, g) \/ WriteAnswer(l)
  PROVE  LanesInv'
<1> USE DEF LanesInv, QueuePrompt, CompleteResponse, WriteAnswer
<1>1. Types'
  BY DEF Types
<1>2. ASSUME NEW k \in Lanes
      PROVE  LaneInv(k)'
  BY Untouched DEF Types
<1> QED
  BY <1>1, <1>2

\* A shutdown outdates everything under way, by the epoch.
LEMMA ShutdownKeeps ==
  ASSUME LanesInv, Shutdown
  PROVE  LanesInv'
<1> USE DEF LanesInv, Shutdown
<1>1. Types'
  <2>1. status' \in [Lanes -> {"none", "running"} \cup Finished]
    BY DEF Types, Finished
  <2>2. runGeneration' \in [Lanes -> Nat]
    BY DEF Types
  <2>3. epoch' \in Nat /\ lanes' \subseteq Lanes
    BY DEF Types
  <2> QED
    BY <2>1, <2>2, <2>3 DEF Types
<1>2. ASSUME NEW k \in Lanes
      PROVE  LaneInv(k)'
  <2>1. /\ runGeneration'[k] \in {runGeneration[k], runGeneration[k] + 1}
        /\ k \notin lanes => runGeneration'[k] = runGeneration[k]
        /\ k \notin Running => status'[k] = status[k]
        /\ k \in Running => status'[k] = "aborted"
        /\ laneEpoch[k] < epoch'
    BY DEF Types, LaneInv, Past
  <2>2. Past(k)'
    BY <2>1 DEF LaneInv, Past, Types, Running
  <2>3. OneVoice(k)'
    <3>1. CASE runGeneration'[k] = runGeneration[k]
      <4>1. /\ laneEpoch'[k] # epoch' /\ notices'[k] = notices[k]
            /\ deliveries' = deliveries /\ runs' = runs /\ windDowns' = windDowns
        BY <2>1 DEF Types
      <4>2. OneVoice(k)
        BY DEF LaneInv
      <4> QED
        BY ONLY <3>1, <4>1, <4>2 DEF OneVoice, RunCurrent, Delivering, WindingDown, Live
    <3>2. CASE runGeneration'[k] = runGeneration[k] + 1
      <4> DEFINE g == runGeneration[k] + 1
      <4>1. /\ g \in Nat /\ deliveries' = deliveries /\ runs' = runs
            /\ windDowns' = windDowns
        BY DEF Types
      <4>2. /\ <<k, g>> \notin runs
            /\ \A r \in Nat : <<k, r, g>> \notin windDowns
            /\ \A d \in deliveries : d.lane = k => d.gen # g
        BY <4>1 DEF LaneInv, Past, Types
      <4> QED
        BY ONLY <3>2, <4>1, <4>2 DEF OneVoice, RunCurrent, Delivering, WindingDown
    <3> QED
      BY <2>1, <3>1, <3>2
  <2>4. Heard(k)' /\ notices'[k] =< 1
    BY <2>1 DEF LaneInv, Heard, Unannounced, Types
  <2> QED
    BY <2>2, <2>3, <2>4 DEF LaneInv
<1> QED
  BY <1>1, <1>2

LEMMA NextInv ==
  ASSUME LanesInv, [Next]_vars
  PROVE  LanesInv'
<1>1. ASSUME NEW l \in Lanes, Callbacks(l)
      PROVE  LanesInv'
  <2>1. CASE WriteAnswer(l)
    BY <2>1, AnswersKeep
  <2>2. ASSUME NEW g \in Generations, RunResolves(l, g) \/ RunRejects(l, g)
        PROVE  LanesInv'
    BY <2>2, RunKeeps
  <2>3. ASSUME NEW g \in Generations, StaleRunSettles(l, g)
        PROVE  LanesInv'
    BY <2>3, StaleRunKeeps, GenerationsNat
  <2>4. ASSUME NEW g \in Generations, NEW r \in Generations, WindDown(l, r, g)
        PROVE  LanesInv'
    BY <2>4, WindDownKeeps, GenerationsNat
  <2>5. ASSUME NEW d \in deliveries, AwaitWrites(d) \/ SendNotice(d)
        PROVE  LanesInv'
    BY <2>5, DeliveryKeeps
  <2> QED
    BY <1>1, <2>1, <2>2, <2>3, <2>4, <2>5 DEF Callbacks
<1>2. ASSUME NEW l \in Lanes, NEW g \in Generations, CompleteResponse(l, g)
      PROVE  LanesInv'
  BY <1>2, AnswersKeep, GenerationsNat
<1>3. ASSUME NEW l \in Lanes, QueuePrompt(l)
      PROVE  LanesInv'
  BY <1>3, AnswersKeep, 0 \in Nat
<1>4. CASE UNCHANGED vars
  <2>1. Types'
    BY <1>4 DEF LanesInv, Types
  <2>2. ASSUME NEW k \in Lanes
        PROVE  LaneInv(k)'
    BY <1>4, Untouched DEF LanesInv, Types
  <2> QED
    BY <2>1, <2>2 DEF LanesInv
<1> QED
  BY <1>1, <1>2, <1>3, <1>4, LaunchKeeps, StopKeeps, ReplyKeeps, ShutdownKeeps DEF Next

\* What is under way for a lane's current generation is one thing, and while the
\* lane's end is not announced it is there.
THEOREM LanesInvariance == Spec => []LanesInv
  BY InitInv, NextInv, PTL DEF Spec

-----------------------------------------------------------------------------
\* However turns, stops and evictions interleave, a turn is announced once: what
\* could announce it a second time is outdated by then.
THEOREM OneNoticeHolds == Spec => []OneNoticePerTurn
<1>1. LanesInv => OneNoticePerTurn
  BY DEF LanesInv, LaneInv, OneNoticePerTurn
<1> QED
  BY <1>1, LanesInvariance, PTL

\* No end of a turn goes unannounced.
THEOREM FinishAnnouncedHolds == Spec => []FinishAnnounced
<1>1. LanesInv => FinishAnnounced
  BY DEF LanesInv, LaneInv, Heard, FinishAnnounced, Delivering, WindingDown
<1> QED
  BY <1>1, LanesInvariance, PTL

\* Nothing but the end of a delivery sends a notice; a new turn starts without.
LEMMA OnlySendNotice ==
  ASSUME LanesInv, [Next]_vars, NEW l \in Lanes, notices'[l] \notin {0, notices[l]}
  PROVE  \E d \in deliveries : SendNotice(d) /\ d.lane = l
<1> USE DEF LanesInv, Types
<1>1. ASSUME NEW k \in Lanes, StartLane(k)
      PROVE  notices'[l] \in {0, notices[l]}
  BY <1>1 DEF StartLane
<1>2. ~(\E k \in Lanes : StartLane(k)) /\ notices' # notices
  BY <1>1
<1>3. PICK d \in deliveries : AwaitWrites(d) \/ SendNotice(d)
  <2>1. ~Shutdown /\ ~(UNCHANGED vars)
    BY <1>2 DEF Shutdown
  <2>2. PICK k \in Lanes :
          \/ LaunchLane(k) \/ StopLane(k) \/ QueuePrompt(k) \/ InterruptLane(k)
          \/ ReplyToFinished(k) \/ \E g \in Generations : CompleteResponse(k, g)
          \/ Callbacks(k)
    BY <2>1 DEF Next
  <2>3. Callbacks(k)
    BY <1>2, <2>2 DEF LaunchLane, StopLane, QueuePrompt, InterruptLane,
                      ReplyToFinished, CompleteResponse
  <2>4. ~WriteAnswer(k)
    BY <1>2 DEF WriteAnswer
  <2>5. \A g \in Generations : ~RunResolves(k, g) /\ ~RunRejects(k, g)
    BY <1>2 DEF RunResolves, RunRejects, FinishLane
  <2>6. \A g \in Generations : /\ ~StaleRunSettles(k, g)
                               /\ \A r \in Generations : ~WindDown(k, r, g)
    BY <1>2 DEF StaleRunSettles, WindDown
  <2> QED
    BY <2>3, <2>4, <2>5, <2>6 DEF Callbacks
<1>4. SendNotice(d)
  BY <1>2, <1>3 DEF AwaitWrites
<1>5. d.lane = l
  BY <1>4 DEF SendNotice
<1> QED
  BY <1>4, <1>5

\* A notice finds its lane finished and its session alive.
THEOREM NoStaleNoticeHolds == Spec => NoStaleNotice
<1>1. ASSUME LanesInv, [Next]_vars, NEW l \in Lanes, Sends(l)
      PROVE  status[l] \in Finished /\ laneEpoch[l] = epoch
  <2>1. PICK d \in deliveries : SendNotice(d) /\ d.lane = l
    BY <1>1, OnlySendNotice DEF Sends, LanesInv, Types
  <2>2. IsCurrent(l, d.gen)
    BY <1>1, <2>1 DEF SendNotice, Sends, LanesInv, Types
  <2> QED
    BY <1>1, <2>1, <2>2 DEF LanesInv, LaneInv, OneVoice, Delivering, IsCurrent, Live
<1>2. LanesInv /\ [Next]_vars =>
        [\A l \in Lanes : Sends(l) => status[l] \in Finished /\ laneEpoch[l] = epoch]_vars
  BY <1>1
<1> QED
  BY <1>2, LanesInvariance, PTL DEF NoStaleNotice, Spec

-----------------------------------------------------------------------------
(* The limit on running lanes.                                             *)

\* One more member makes a finite set at most one larger.
LEMMA OneMore ==
  ASSUME NEW S, IsFiniteSet(S), NEW x
  PROVE  /\ IsFiniteSet(S \cup {x}) /\ Cardinality(S \cup {x}) \in Nat
         /\ Cardinality(S \cup {x}) =< Cardinality(S) + 1
<1>1. IsFiniteSet(S \cup {x}) /\ Cardinality(S) \in Nat
  BY FS_AddElement, FS_CardinalityType
<1>2. Cardinality(S \cup {x}) = IF x \in S THEN Cardinality(S) ELSE Cardinality(S) + 1
  BY FS_AddElement
<1> QED
  BY <1>1, <1>2

\* One lane starts where there was room for it; all others that may run ran before.
LEMMA LimitStep ==
  ASSUME LanesInv, RunningLimit, [Next]_vars
  PROVE  RunningLimit'
<1> USE DEF LanesInv, Types, Running
<1>1. IsFiniteSet(Running) /\ Cardinality(Running) \in Nat /\ MaxRunning \in Nat
  <2>1. IsFiniteSet(Running)
    BY LanesAssumption, FS_Subset DEF LanesAssumption
  <2> QED
    BY <2>1, LanesAssumption, FS_CardinalityType DEF LanesAssumption
<1>2. ASSUME Running' \subseteq Running
      PROVE  RunningLimit'
  <2>1. Cardinality(Running') \in Nat /\ Cardinality(Running') =< Cardinality(Running)
    BY <1>1, <1>2, FS_Subset, FS_CardinalityType
  <2> QED
    BY <1>1, <2>1 DEF RunningLimit
<1>3. ASSUME NEW l \in Lanes, LaunchLane(l) \/ ReplyToFinished(l)
      PROVE  RunningLimit'
  <2>1. Running' \subseteq Running \cup {l}
    BY <1>3 DEF LaunchLane, ReplyToFinished, StartLane
  <2>2. /\ IsFiniteSet(Running \cup {l}) /\ Cardinality(Running \cup {l}) \in Nat
        /\ Cardinality(Running \cup {l}) =< Cardinality(Running) + 1
    BY <1>1, OneMore
  <2>3. Cardinality(Running') \in Nat
        /\ Cardinality(Running') =< Cardinality(Running \cup {l})
    BY <2>1, <2>2, FS_Subset, FS_CardinalityType
  <2>4. Cardinality(Running) < MaxRunning
    BY <1>3 DEF LaunchLane, ReplyToFinished, BelowLimit
  <2> QED
    BY <1>1, <2>2, <2>3, <2>4 DEF RunningLimit
<1>4. ASSUME NEW l \in Lanes,
             StopLane(l) \/ QueuePrompt(l) \/ InterruptLane(l) \/ WriteAnswer(l)
      PROVE  Running' \subseteq Running
  BY <1>4 DEF StopLane, QueuePrompt, InterruptLane, WriteAnswer, StartLane
<1>5. ASSUME NEW l \in Lanes, NEW g \in Generations,
             CompleteResponse(l, g) \/ RunRejects(l, g) \/ StaleRunSettles(l, g)
      PROVE  Running' \subseteq Running
  BY <1>5 DEF CompleteResponse, RunRejects, StaleRunSettles, FinishLane
<1>6. ASSUME NEW l \in Lanes, NEW g \in Generations, RunResolves(l, g)
      PROVE  Running' \subseteq Running
  <2>1. status[l] = "running"
    BY <1>6 DEF RunResolves, IsCurrent, LaneInv, OneVoice, RunCurrent, Live
  <2> QED
    BY <1>6, <2>1 DEF RunResolves, StartLane, FinishLane
<1>7. ASSUME NEW l \in Lanes, NEW g \in Generations, NEW r \in Generations,
             WindDown(l, r, g)
      PROVE  Running' \subseteq Running
  BY <1>7 DEF WindDown
<1>8. ASSUME NEW d \in deliveries, AwaitWrites(d) \/ SendNotice(d)
      PROVE  Running' \subseteq Running
  BY <1>8 DEF AwaitWrites, SendNotice, EndDelivery
<1>9. ASSUME Shutdown \/ UNCHANGED vars
      PROVE  Running' \subseteq Running
  BY <1>9 DEF Shutdown
<1> QED
  BY <1>2, <1>3, <1>4, <1>5, <1>6, <1>7, <1>8, <1>9 DEF Next, Callbacks

\* For every limit and any number of lanes: never more lanes run than may, although
\* a queued prompt and an interrupt start a turn without a look at the limit.
THEOREM RunningLimitHolds == Spec => []RunningLimit
<1>1. Init => RunningLimit
  <2>1. ASSUME Init
        PROVE  Running = {}
    BY <2>1 DEF Init, Running
  <2> QED
    BY <2>1, FS_EmptySet, LanesAssumption DEF RunningLimit, LanesAssumption
<1> QED
  BY <1>1, LimitStep, LanesInvariance, PTL DEF Spec

-----------------------------------------------------------------------------
(* Retention.                                                              *)

\* Every finished lane that is known has its place in one order.
Ordered ==
  \A k, l \in Kept :
    /\ <<k, l>> \in finishedBefore => <<l, k>> \notin finishedBefore
    /\ k = l \/ <<k, l>> \in finishedBefore \/ <<l, k>> \in finishedBefore
    /\ \A m \in Kept :
         <<k, l>> \in finishedBefore /\ <<l, m>> \in finishedBefore =>
           <<k, m>> \in finishedBefore

\* A lane that is announced has no mark left, so that it can be evicted.
Unmarked == \A l \in Lanes : notices[l] > 0 => l \notin pendingFinal

RetentionInv == Ordered /\ Unmarked /\ RetentionBounded

Below == {p \in Nat \X Nat : p[1] < p[2]}

\* A set of natural numbers that has a member has a least one.
LEMMA LeastOf ==
  ASSUME NEW S \in SUBSET Nat, S # {}
  PROVE  \E n \in S : \A m \in S : n =< m
<1>1. IsWellFoundedOn(Below, Nat)
  BY NatLessThanWellFounded DEF OpToRel, Below
<1>2. PICK n \in S : \A m \in S : ~(<<m, n>> \in Below)
  BY <1>1, WFMin
<1>3. ASSUME NEW m \in S PROVE n =< m
  <2>1. <<m, n>> \in Below <=> m < n
    BY DEF Below
  <2> QED
    BY <1>2, <2>1
<1> QED
  BY <1>3

Newer(S, R, l) == {k \in S : <<l, k>> \in R}
Newest(S, R, M) == {l \in S : Cardinality(Newer(S, R, l)) < M}

\* Of a finite set in a strict order those with fewer than M greater ones are
\* at most M: the one of them that has the most greater ones is below all others.
LEMMA NewestAreFew ==
  ASSUME NEW S, IsFiniteSet(S), NEW R, NEW M \in Nat,
         \A k, l \in S :
           /\ <<k, l>> \in R => <<l, k>> \notin R
           /\ k = l \/ <<k, l>> \in R \/ <<l, k>> \in R
           /\ \A m \in S : <<k, l>> \in R /\ <<l, m>> \in R => <<k, m>> \in R
  PROVE  Cardinality(Newest(S, R, M)) =< M
<1> DEFINE T == Newest(S, R, M)
<1> USE DEF Newest
<1>1. \A l \in S : /\ IsFiniteSet(Newer(S, R, l))
                   /\ Cardinality(Newer(S, R, l)) \in Nat
  BY FS_Subset, FS_CardinalityType DEF Newer
<1>2. CASE T = {}
  BY <1>2, FS_EmptySet
<1>3. CASE T # {}
  <2> DEFINE Room(l) == M - 1 - Cardinality(Newer(S, R, l))
  <2>1. \A l \in T : Room(l) \in Nat
    BY <1>1
  <2> DEFINE Rooms == {Room(l) : l \in T}
  <2>2. Rooms \in SUBSET Nat /\ Rooms # {}
    BY <1>3, <2>1
  <2>3. PICK n \in Rooms : \A m \in Rooms : n =< m
    <3> HIDE DEF Rooms
    <3> QED
      BY <2>2, LeastOf
  <2>4. PICK o \in T : n = Room(o)
    BY <2>3
  <2>5. \A l \in T : Room(o) =< Room(l)
    BY <2>3, <2>4
  <2>6. \A l \in T : Cardinality(Newer(S, R, l)) =< Cardinality(Newer(S, R, o))
    BY <1>1, <2>5
  <2>7. ASSUME NEW l \in T, l # o PROVE l \in Newer(S, R, o)
    <3>1. SUFFICES ASSUME <<l, o>> \in R PROVE FALSE
      BY <2>7 DEF Newer
    <3>2. Newer(S, R, o) \cup {o} \subseteq Newer(S, R, l)
      BY <3>1 DEF Newer
    <3>3. o \notin Newer(S, R, o)
      BY DEF Newer
    <3>4. Cardinality(Newer(S, R, o) \cup {o}) = Cardinality(Newer(S, R, o)) + 1
      BY <1>1, <3>3, FS_AddElement
    <3>5. Cardinality(Newer(S, R, o) \cup {o}) =< Cardinality(Newer(S, R, l))
      BY <1>1, <3>2, FS_Subset
    <3> QED
      BY <1>1, <2>6, <3>4, <3>5
  <2>8. T \subseteq Newer(S, R, o) \cup {o}
    BY <2>7
  <2>9. /\ IsFiniteSet(Newer(S, R, o) \cup {o})
        /\ Cardinality(Newer(S, R, o) \cup {o}) \in Nat
        /\ Cardinality(Newer(S, R, o) \cup {o}) =< Cardinality(Newer(S, R, o)) + 1
    BY <1>1, OneMore
  <2>10. /\ Cardinality(T) \in Nat
         /\ Cardinality(T) =< Cardinality(Newer(S, R, o) \cup {o})
    BY <2>8, <2>9, FS_Subset, FS_CardinalityType
  <2>11. Cardinality(Newer(S, R, o)) < M
    BY <2>4
  <2> QED
    BY <1>1, <2>9, <2>10, <2>11
<1> QED
  BY <1>2, <1>3

\* The order forgets who starts again or is evicted, and puts who finishes last.
LEMMA OrderKept ==
  ASSUME Ordered, NEW gone, Kept' \subseteq Kept \ gone,
         finishedBefore' = Without(gone)
  PROVE  Ordered'
<1>1. \A k, l \in Kept' : <<k, l>> \in finishedBefore' <=> <<k, l>> \in finishedBefore
  BY DEF Without
<1> QED
  BY <1>1 DEF Ordered

LEMMA OrderExtended ==
  ASSUME Ordered, NEW l, Kept' \subseteq Kept \cup {l},
         finishedBefore' = WithNewest(l)
  PROVE  Ordered'
<1>1. /\ \A k, m \in Kept' \ {l} : <<k, m>> \in finishedBefore' <=> <<k, m>> \in finishedBefore
      /\ \A k \in Kept' \ {l} : <<k, l>> \in finishedBefore' /\ <<l, k>> \notin finishedBefore'
      /\ <<l, l>> \notin finishedBefore'
  BY DEF WithNewest, Without
<1>2. \A k \in Kept' : k # l => k \in Kept
  OBVIOUS
<1> HIDE DEF Kept
<1> QED
  BY <1>1, <1>2 DEF Ordered

LEMMA KeptFinite == LanesInv => IsFiniteSet(Kept) /\ Kept \subseteq Lanes
  BY LanesAssumption, FS_Subset DEF LanesInv, Types, Kept, LanesAssumption

\* A step that announces nothing adds no announced lane.
LEMMA BoundKept ==
  ASSUME LanesInv, RetentionBounded, Announced' \subseteq Announced
  PROVE  RetentionBounded'
<1>1. IsFiniteSet(Announced)
  BY KeptFinite, FS_Subset DEF Announced, Kept
<1>2. /\ Cardinality(Announced) \in Nat /\ Cardinality(Announced') \in Nat
      /\ Cardinality(Announced') =< Cardinality(Announced)
  BY <1>1, FS_Subset, FS_CardinalityType
<1> QED
  BY <1>2, LanesAssumption DEF RetentionBounded, LanesAssumption

LEMMA RetentionStarting ==
  ASSUME LanesInv, RetentionInv, NEW l \in Lanes, StartLane(l),
         lanes' \subseteq lanes \cup {l}, pendingFinal' = pendingFinal
  PROVE  RetentionInv'
<1> USE DEF LanesInv, Types, StartLane
<1>1. Kept' \subseteq Kept \ {l}
  BY DEF Kept, Finished
<1>2. Ordered'
  BY <1>1, OrderKept DEF RetentionInv
<1>3. Unmarked'
  BY DEF RetentionInv, Unmarked
<1>4. Announced' \subseteq Announced
  BY DEF Announced, Finished
<1> QED
  BY <1>2, <1>3, <1>4, BoundKept DEF RetentionInv

\* A lane that finishes or is stopped is marked before it is announced.
LEMMA RetentionEnding ==
  ASSUME LanesInv, RetentionInv, NEW l \in Lanes, notices[l] = 0,
         \A k \in Lanes \ {l} : status'[k] = status[k],
         lanes' = lanes, notices' = notices,
         finishedBefore' = WithNewest(l), pendingFinal' = pendingFinal \cup {l}
  PROVE  RetentionInv'
<1> USE DEF LanesInv, Types
<1>1. Kept' \subseteq Kept \cup {l}
  BY DEF Kept
<1>2. Ordered'
  BY <1>1, OrderExtended DEF RetentionInv
<1>3. Unmarked'
  BY DEF RetentionInv, Unmarked
<1>4. Announced' \subseteq Announced
  BY DEF Announced
<1> QED
  BY <1>2, <1>3, <1>4, BoundKept DEF RetentionInv

\* A step that starts, ends and announces no turn.
LEMMA RetentionUntouched ==
  ASSUME LanesInv, RetentionInv,
         UNCHANGED <<lanes, status, notices, finishedBefore>>,
         \A l \in pendingFinal' \ pendingFinal : notices[l] = 0
  PROVE  RetentionInv'
<1>1. Ordered'
  <2>1. Kept' \subseteq Kept \ {} /\ Without({}) = finishedBefore
    BY DEF Kept, Without
  <2> QED
    BY <2>1, OrderKept DEF RetentionInv
<1>2. Unmarked'
  BY DEF RetentionInv, Unmarked
<1>3. Announced' \subseteq Announced
  BY DEF Announced
<1> QED
  BY <1>1, <1>2, <1>3, BoundKept DEF RetentionInv

\* The end of a delivery: what it does not evict is few.
LEMMA RetentionEnd ==
  ASSUME LanesInv, RetentionInv, NEW d \in deliveries, EndDelivery(d),
         notices' = IF IsCurrent(d.lane, d.gen)
                    THEN [notices EXCEPT ![d.lane] = @ + 1] ELSE notices
  PROVE  RetentionInv'
<1> DEFINE pending == pendingFinal \ {d.lane}
           gone == IF laneEpoch[d.lane] = epoch THEN Evicted(pending) ELSE {}
<1>1. /\ pendingFinal' = pending /\ lanes' = lanes \ gone
      /\ finishedBefore' = Without(gone) /\ status' = status
  BY DEF EndDelivery
<1>2. Kept' = Kept \ gone
  BY <1>1 DEF Kept
<1>3. Ordered'
  <2> HIDE DEF gone
  <2> QED
    BY <1>1, <1>2, OrderKept DEF RetentionInv
<1>4. d.lane \in Lanes /\ d.gen \in Nat
  BY DEF LanesInv, Types
<1>5. \A l \in Lanes \ {d.lane} : notices'[l] = notices[l]
  BY <1>4 DEF LanesInv, Types
<1>6. Unmarked'
  BY <1>1, <1>5 DEF RetentionInv, Unmarked
<1>7. CASE ~IsCurrent(d.lane, d.gen)
  <2>1. Announced' \subseteq Announced
    BY <1>1, <1>7 DEF Announced
  <2> QED
    BY <1>3, <1>6, <2>1, BoundKept DEF RetentionInv
<1>8. CASE IsCurrent(d.lane, d.gen)
  <2> DEFINE S == Kept \ pending
             few == Newest(S, finishedBefore, MaxRetained)
  <2>1. gone = Evicted(pending)
    BY <1>8 DEF IsCurrent
  <2>2. IsFiniteSet(S) /\ S \subseteq Lanes
    BY KeptFinite, FS_Subset
  <2>3. MaxRetained \in Nat
    BY LanesAssumption DEF LanesAssumption
  <2>4. Cardinality(few) =< MaxRetained
    <3>1. \A k, l \in S :
           /\ <<k, l>> \in finishedBefore => <<l, k>> \notin finishedBefore
           /\ k = l \/ <<k, l>> \in finishedBefore \/ <<l, k>> \in finishedBefore
           /\ \A m \in S : <<k, l>> \in finishedBefore /\ <<l, m>> \in finishedBefore
                             => <<k, m>> \in finishedBefore
      BY DEF RetentionInv, Ordered
    <3> HIDE DEF S
    <3> QED
      BY <2>2, <2>3, <3>1, NewestAreFew
  <2>5. \A l \in S : Cardinality(Newer(S, finishedBefore, l)) \in Nat
    BY <2>2, FS_Subset, FS_CardinalityType DEF Newer
  <2>6. S \ gone \subseteq few
    BY <2>1, <2>3, <2>5 DEF Evicted, Newer, Newest
  <2>7. Announced' \subseteq S \ gone
    BY <1>1, <1>2, <1>6, <2>2 DEF Announced, Kept, Unmarked, LanesInv, Types
  <2>8. Cardinality(Announced') =< MaxRetained
    <3>1. few \subseteq S /\ Announced' \subseteq few
      BY <2>6, <2>7 DEF Newest
    <3> HIDE DEF S, few
    <3>2. IsFiniteSet(few)
      BY <2>2, <3>1, FS_Subset
    <3>3. /\ Cardinality(Announced') \in Nat /\ Cardinality(few) \in Nat
          /\ Cardinality(Announced') =< Cardinality(few)
      BY <3>1, <3>2, FS_Subset, FS_CardinalityType
    <3> QED
      BY <2>3, <2>4, <3>3
  <2> QED
    BY <1>3, <1>6, <2>8 DEF RetentionInv, RetentionBounded
<1> QED
  BY <1>7, <1>8

LEMMA RetentionDelivery ==
  ASSUME LanesInv, RetentionInv, NEW d \in deliveries, AwaitWrites(d) \/ SendNotice(d)
  PROVE  RetentionInv'
<1>1. CASE SendNotice(d)
  BY <1>1, RetentionEnd DEF SendNotice
<1>2. CASE EndDelivery(d) /\ ~IsCurrent(d.lane, d.gen) /\ notices' = notices
  BY <1>2, RetentionEnd
<1>3. CASE UNCHANGED <<laneVars, pendingFinal, notices>>
  BY <1>3, RetentionUntouched
<1> QED
  BY <1>1, <1>2, <1>3 DEF AwaitWrites

LEMMA RetentionRun ==
  ASSUME LanesInv, RetentionInv, NEW l \in Lanes, NEW g \in Generations,
         RunResolves(l, g) \/ RunRejects(l, g)
  PROVE  RetentionInv'
<1>1. CASE StartLane(l) /\ UNCHANGED <<lanes, pendingFinal>>
  BY <1>1, RetentionStarting
<1>2. ASSUME NEW outcome, FinishLane(l, g, outcome)
      PROVE  RetentionInv'
  <2>1. RunCurrent(l)
    BY DEF RunResolves, RunRejects, IsCurrent, RunCurrent
  <2>2. notices[l] = 0
    BY <2>1 DEF LanesInv, LaneInv, OneVoice
  <2>3. \A k \in Lanes \ {l} : status'[k] = status[k]
    BY <1>2 DEF FinishLane, LanesInv, Types
  <2> QED
    BY <1>2, <2>2, <2>3, RetentionEnding DEF FinishLane
<1> QED
  BY <1>1, <1>2 DEF RunResolves, RunRejects

LEMMA RetentionStep ==
  ASSUME LanesInv, RetentionInv, [Next]_vars
  PROVE  RetentionInv'
<1>1. ASSUME NEW l \in Lanes,
             LaunchLane(l) \/ InterruptLane(l) \/ ReplyToFinished(l)
      PROVE  RetentionInv'
  BY <1>1, RetentionStarting DEF LaunchLane, InterruptLane, ReplyToFinished
<1>2. ASSUME NEW l \in Lanes, StopLane(l)
      PROVE  RetentionInv'
  <2>1. notices[l] = 0
    BY <1>2 DEF StopLane, LanesInv, LaneInv, Past
  <2>2. \A k \in Lanes \ {l} : status'[k] = status[k]
    BY <1>2 DEF StopLane, LanesInv, Types
  <2> QED
    BY <1>2, <2>1, <2>2, RetentionEnding DEF StopLane
<1>3. ASSUME NEW l \in Lanes, NEW g \in Generations,
             CompleteResponse(l, g) \/ StaleRunSettles(l, g)
      PROVE  RetentionInv'
  BY <1>3, RetentionUntouched DEF CompleteResponse, StaleRunSettles
<1>4. ASSUME NEW l \in Lanes, QueuePrompt(l) \/ WriteAnswer(l)
      PROVE  RetentionInv'
  BY <1>4, RetentionUntouched DEF QueuePrompt, WriteAnswer
<1>5. ASSUME NEW l \in Lanes, NEW g \in Generations, NEW r \in Generations,
             WindDown(l, r, g)
      PROVE  RetentionInv'
  <2>1. r \in Nat /\ g \in Nat
    BY GenerationsNat
  <2>2. IsCurrent(l, g) => notices[l] = 0
    BY <1>5, <2>1 DEF WindDown, IsCurrent, WindingDown, LanesInv, LaneInv, OneVoice
  <2> QED
    BY <1>5, <2>2, RetentionUntouched DEF WindDown
<1>6. CASE Shutdown
  <2>1. Kept' = {} /\ Announced' = {}
    BY <1>6 DEF Shutdown, Kept, Announced
  <2>2. Ordered' /\ Unmarked'
    BY <1>6, <2>1 DEF Shutdown, Ordered, Unmarked, RetentionInv
  <2>3. Announced' \subseteq Announced
    BY <2>1
  <2> QED
    BY <2>2, <2>3, BoundKept DEF RetentionInv
<1>7. CASE UNCHANGED vars
  BY <1>7, RetentionUntouched
<1> QED
  BY <1>1, <1>2, <1>3, <1>4, <1>5, <1>6, <1>7, RetentionDelivery, RetentionRun
  DEF Next, Callbacks

\* For every number of lanes and every limit: the announced lanes a session keeps
\* are never more than it may retain.
THEOREM RetentionBoundedHolds == Spec => []RetentionBounded
<1>1. Init => RetentionInv
  <2> SUFFICES ASSUME Init PROVE RetentionInv
    OBVIOUS
  <2>1. Kept = {} /\ Announced = {}
    BY DEF Init, Kept, Announced
  <2>2. Cardinality({}) = 0 /\ MaxRetained \in Nat
    BY FS_EmptySet, LanesAssumption DEF LanesAssumption
  <2> QED
    BY <2>1, <2>2 DEF Init, RetentionInv, Ordered, Unmarked, RetentionBounded
<1>2. RetentionInv => RetentionBounded
  BY DEF RetentionInv
<1> QED
  BY <1>1, <1>2, RetentionStep, LanesInvariance, PTL DEF Spec

-----------------------------------------------------------------------------
(* Answers before notices.                                                 *)

Recorded(l) == l \in journaled \/ completionError[l]
Chained(l) == \E i \in DOMAIN writes[l] : writes[l][i] = started[l]

\* What a turn answered is recorded or on the chain the delivery awaits.
AnswerInv(l) ==
  /\ started[l] =< runGeneration[l]
  /\ RunCurrent(l) /\ Live(l) => started[l] = runGeneration[l]
  /\ l \in answered /\ Live(l) => Recorded(l) \/ Chained(l)
  /\ \A d \in deliveries :
       d.at = "view" /\ Delivering(l, d) /\ Live(l) /\ l \in answered => Recorded(l)

AnswersInv ==
  /\ answered \subseteq Lanes
  /\ writes \in [Lanes -> Seq(Nat)]
  /\ completionError \in [Lanes -> BOOLEAN]
  /\ \A l \in Lanes : AnswerInv(l)

LEMMA InitAnswers == Init => AnswersInv
  BY DEF Init, AnswersInv, AnswerInv, RunCurrent

\* A step that takes nothing back and passes no delivery on.
LEMMA AnswersUntouched ==
  ASSUME NEW k \in Lanes, AnswerInv(k),
         runGeneration'[k] = runGeneration[k], started'[k] = started[k],
         laneEpoch'[k] = laneEpoch[k], epoch' = epoch, writes'[k] = writes[k],
         <<k, runGeneration[k]>> \in runs' => <<k, runGeneration[k]>> \in runs,
         k \in answered' => k \in answered, Recorded(k) => Recorded(k)',
         \A d \in deliveries' : d.lane = k /\ d.at = "view" => d \in deliveries
  PROVE  AnswerInv(k)'
BY DEF AnswerInv, RunCurrent, Live, Chained, Delivering

LEMMA StartAnswers ==
  ASSUME LanesInv, AnswersInv, NEW l \in Lanes, StartLane(l), writes' = writes,
         epoch' = epoch, \A k \in Lanes \ {l} : laneEpoch'[k] = laneEpoch[k],
         runs' \subseteq runs \cup {<<l, runGeneration[l] + 1>>}, deliveries' = deliveries
  PROVE  AnswersInv'
<1> USE DEF AnswersInv, LanesInv, Types, StartLane
<1>1. completionError' \in [Lanes -> BOOLEAN]
  OBVIOUS
<1>2. AnswerInv(l)'
  BY DEF AnswerInv
<1>3. ASSUME NEW k \in Lanes, k # l
      PROVE  AnswerInv(k)'
  <2>1. Recorded(k) => Recorded(k)'
    BY <1>3 DEF Recorded
  <2> QED
    BY <1>3, <2>1, AnswersUntouched
<1> QED
  BY <1>1, <1>2, <1>3

LEMMA StopAnswers ==
  ASSUME LanesInv, AnswersInv, NEW l \in Lanes, StopLane(l)
  PROVE  AnswersInv'
<1> USE DEF AnswersInv, LanesInv, Types, StopLane
<1>1. /\ runGeneration'[l] = runGeneration[l] + 1 /\ started'[l] = started[l]
      /\ \A h \in Nat : <<l, h>> \in runs => h =< runGeneration[l]
      /\ \A d \in deliveries : d.lane = l => d.gen =< runGeneration[l]
  BY DEF LaneInv, Past
<1>2. AnswerInv(l)'
  <2>1. ~RunCurrent(l)' /\ \A d \in deliveries' : ~Delivering(l, d)'
    BY <1>1 DEF RunCurrent, Delivering
  <2>2. started'[l] =< runGeneration'[l]
    BY <1>1 DEF AnswerInv
  <2>3. (l \in answered /\ Live(l) => Recorded(l) \/ Chained(l))'
    BY <1>1 DEF AnswerInv, Live, Recorded, Chained
  <2> QED
    BY <2>1, <2>2, <2>3 DEF AnswerInv
<1>3. ASSUME NEW k \in Lanes, k # l
      PROVE  AnswerInv(k)'
  BY <1>3, AnswersUntouched DEF Recorded
<1> QED
  BY <1>2, <1>3

LEMMA ShutdownAnswers ==
  ASSUME LanesInv, AnswersInv, Shutdown
  PROVE  AnswersInv'
<1> USE DEF AnswersInv, LanesInv, Types, Shutdown
<1>1. ASSUME NEW k \in Lanes
      PROVE  AnswerInv(k)'
  <2>1. ~Live(k)'
    BY DEF Live, LaneInv, Past
  <2>2. started'[k] =< runGeneration'[k]
    BY DEF AnswerInv
  <2> QED
    BY <2>1, <2>2 DEF AnswerInv
<1> QED
  BY <1>1

\* The response a turn completes goes onto its chain.
LEMMA CompleteAnswers ==
  ASSUME LanesInv, AnswersInv, NEW l \in Lanes, NEW g \in Nat, CompleteResponse(l, g)
  PROVE  AnswersInv'
<1> USE DEF AnswersInv, LanesInv, Types, CompleteResponse
<1>1. writes' \in [Lanes -> Seq(Nat)]
  OBVIOUS
<1>2. AnswerInv(l)'
  <2>1. RunCurrent(l) /\ Live(l) /\ g = runGeneration[l]
    BY DEF IsCurrent, RunCurrent, Live
  <2>2. g = started[l] /\ \A d \in deliveries : ~Delivering(l, d)
    BY <2>1 DEF AnswerInv, LaneInv, OneVoice
  <2>3. Chained(l)'
    <3>1. writes'[l] = Append(writes[l], g) /\ writes[l] \in Seq(Nat)
      OBVIOUS
    <3>2. Len(writes[l]) + 1 \in DOMAIN writes'[l]
          /\ writes'[l][Len(writes[l]) + 1] = started'[l]
      BY <2>2, <3>1
    <3> QED
      BY <3>2 DEF Chained
  <2> QED
    BY <2>2, <2>3 DEF AnswerInv, RunCurrent, Live, Delivering
<1>3. ASSUME NEW k \in Lanes, k # l
      PROVE  AnswerInv(k)'
  BY <1>3, AnswersUntouched DEF Recorded
<1> QED
  BY <1>1, <1>2, <1>3

\* A write leaves the chain: the turn's own answer is recorded, or its loss is.
LEMMA WriteAnswers ==
  ASSUME LanesInv, AnswersInv, NEW l \in Lanes, WriteAnswer(l)
  PROVE  AnswersInv'
<1> USE DEF AnswersInv, LanesInv, Types
<1> DEFINE chain == writes[l]
           g == Head(chain)
<1>1. /\ chain \in Seq(Nat) /\ chain # << >> /\ writes'[l] = Tail(chain)
      /\ writes' \in [Lanes -> Seq(Nat)]
  BY DEF WriteAnswer
<1>2. UNCHANGED <<laneVars, noticeVars, answered>>
  BY DEF WriteAnswer
<1>3. /\ completionError' \in [Lanes -> BOOLEAN]
      /\ \A k \in Lanes : Recorded(k) => Recorded(k)'
      /\ \/ g = started[l] => Recorded(l)'
         \/ ~Live(l)
  <2>1. CASE /\ journaled' = IF g = started[l] THEN journaled \cup {l} ELSE journaled
             /\ UNCHANGED completionError
    BY <2>1 DEF Recorded
  <2>2. CASE /\ completionError' = [completionError EXCEPT ![l] = @ \/ g = started[l]]
             /\ UNCHANGED journaled
    <3>1. completionError' \in [Lanes -> BOOLEAN]
      BY <2>2
    <3>2. ASSUME NEW k \in Lanes, Recorded(k)
          PROVE  Recorded(k)'
      BY <2>2, <3>2 DEF Recorded
    <3>3. g = started[l] => Recorded(l)'
      BY <2>2 DEF Recorded
    <3> QED
      BY <3>1, <3>2, <3>3
  <2>3. CASE laneEpoch[l] < epoch /\ UNCHANGED <<journaled, completionError>>
    BY <2>3 DEF Recorded, Live
  <2> QED
    BY <2>1, <2>2, <2>3 DEF WriteAnswer
<1>4. Chained(l) => Chained(l)' \/ g = started[l]
  <2>1. SUFFICES ASSUME NEW i \in DOMAIN chain, chain[i] = started[l], g # started[l]
                 PROVE  Chained(l)'
    BY DEF Chained
  <2>2. i # 1 /\ i \in 1 .. Len(chain)
    BY <1>1, <2>1
  <2>3. i - 1 \in DOMAIN Tail(chain) /\ Tail(chain)[i - 1] = started[l]
    BY <1>1, <2>1, <2>2
  <2> QED
    BY <1>1, <1>2, <2>3 DEF Chained
<1>5. AnswerInv(l)'
  BY <1>2, <1>3, <1>4 DEF AnswerInv, RunCurrent, Live, Delivering
<1>6. ASSUME NEW k \in Lanes, k # l
      PROVE  AnswerInv(k)'
  <2>1. writes'[k] = writes[k]
    BY <1>6 DEF WriteAnswer
  <2> QED
    BY <1>2, <1>3, <2>1, AnswersUntouched
<1> QED
  BY <1>1, <1>2, <1>3, <1>5, <1>6

\* A delivery goes on when the chain of its turn is written.
LEMMA AwaitAnswers ==
  ASSUME LanesInv, AnswersInv, NEW d \in deliveries, AwaitWrites(d) \/ SendNotice(d)
  PROVE  AnswersInv'
<1> USE DEF AnswersInv, LanesInv, Types
<1>1. CASE EndDelivery(d)
  <2>1. ASSUME NEW k \in Lanes
        PROVE  AnswerInv(k)'
    BY <1>1, AnswersUntouched DEF EndDelivery, Recorded
  <2> QED
    BY <1>1, <2>1 DEF EndDelivery
<1>2. CASE /\ WritesDone(d) /\ IsCurrent(d.lane, d.gen)
           /\ deliveries' = (deliveries \ {d}) \cup {[d EXCEPT !.at = "view"]}
           /\ UNCHANGED <<laneVars, runs, answerVars>>
  <2> DEFINE l == d.lane
             new == [d EXCEPT !.at = "view"]
  <2>1. l \in Lanes /\ d.gen \in Nat /\ new.lane = l /\ new.gen = d.gen
    OBVIOUS
  <2>2. AnswerInv(l)'
    <3>1. ~Chained(l)
      BY <1>2, <2>1 DEF Chained, WritesDone, IsCurrent, AnswerInv
    <3>2. l \in answered /\ Live(l) => Recorded(l)
      BY <2>1, <3>1 DEF AnswerInv
    <3> QED
      BY <1>2, <2>1, <3>2 DEF AnswerInv, RunCurrent, Live, Chained, Recorded, Delivering
  <2>3. ASSUME NEW k \in Lanes, k # l
        PROVE  AnswerInv(k)'
    BY <1>2, <2>1, <2>3, AnswersUntouched DEF Recorded
  <2> QED
    BY <1>2, <2>2, <2>3
<1> QED
  BY <1>1, <1>2 DEF AwaitWrites, SendNotice

LEMMA NextAnswers ==
  ASSUME LanesInv, AnswersInv, [Next]_vars
  PROVE  AnswersInv'
<1>1. ASSUME NEW l \in Lanes,
             LaunchLane(l) \/ InterruptLane(l) \/ ReplyToFinished(l)
      PROVE  AnswersInv'
  <2>1. LaunchLane(l) => runGeneration[l] = 0
    BY DEF LanesInv, LaneInv, Past, LaunchLane
  <2>2. \A k \in Lanes \ {l} : laneEpoch'[k] = laneEpoch[k]
    BY <1>1 DEF LaunchLane, InterruptLane, ReplyToFinished, LanesInv, Types
  <2> QED
    BY <1>1, <2>1, <2>2, StartAnswers DEF LaunchLane, InterruptLane, ReplyToFinished
<1>2. ASSUME UNCHANGED <<runGeneration, started, laneEpoch, epoch, answerVars>>,
             runs' \subseteq runs,
             \A d \in deliveries' : d.at = "view" => d \in deliveries
      PROVE  AnswersInv'
  <2>1. ASSUME NEW k \in Lanes
        PROVE  AnswerInv(k)'
    BY <1>2, AnswersUntouched DEF AnswersInv, Recorded
  <2> QED
    BY <1>2, <2>1 DEF AnswersInv
<1>3. ASSUME NEW l \in Lanes, QueuePrompt(l) \/ StopLane(l) \/ WriteAnswer(l)
      PROVE  AnswersInv'
  BY <1>2, <1>3, StopAnswers, WriteAnswers DEF QueuePrompt
<1>4. ASSUME NEW l \in Lanes, NEW g \in Generations, RunResolves(l, g)
      PROVE  AnswersInv'
  <2>1. g = runGeneration[l]
    BY <1>4 DEF RunResolves, IsCurrent
  <2>2. CASE StartLane(l) /\ UNCHANGED <<epoch, laneEpoch, deliveries, writes>>
             /\ runs' = (runs \ {<<l, g>>}) \cup {<<l, g + 1>>}
    <3>1. runs' \subseteq runs \cup {<<l, runGeneration[l] + 1>>}
      BY <2>1, <2>2
    <3> QED
      BY <2>2, <3>1, StartAnswers
  <2>3. ASSUME NEW outcome, FinishLane(l, g, outcome), runs' = runs \ {<<l, g>>}
        PROVE  AnswersInv'
    BY <1>2, <2>3 DEF FinishLane, NewDelivery
  <2> QED
    BY <1>4, <2>2, <2>3 DEF RunResolves
<1>5. ASSUME NEW l \in Lanes, NEW g \in Generations,
             RunRejects(l, g) \/ StaleRunSettles(l, g)
      PROVE  AnswersInv'
  BY <1>2, <1>5 DEF RunRejects, StaleRunSettles, FinishLane, NewDelivery
<1>6. ASSUME NEW l \in Lanes, NEW g \in Generations, NEW r \in Generations,
             WindDown(l, r, g)
      PROVE  AnswersInv'
  BY <1>2, <1>6 DEF WindDown, NewDelivery
<1>7. ASSUME NEW l \in Lanes, NEW g \in Generations, CompleteResponse(l, g)
      PROVE  AnswersInv'
  BY <1>7, CompleteAnswers, GenerationsNat
<1>8. CASE UNCHANGED vars
  BY <1>2, <1>8
<1> QED
  BY <1>1, <1>3, <1>4, <1>5, <1>6, <1>7, <1>8, AwaitAnswers, ShutdownAnswers
  DEF Next, Callbacks

\* No notice goes out before the journal write of the answer it is about has
\* succeeded or its failure is recorded.
THEOREM AnswersBeforeNoticeHolds == Spec => AnswersBeforeNotice
<1>1. ASSUME LanesInv, AnswersInv, [Next]_vars, NEW l \in answered, Sends(l)
      PROVE  l \in journaled \/ completionError[l]
  <2>1. l \in Lanes
    BY <1>1 DEF AnswersInv
  <2>2. PICK d \in deliveries : SendNotice(d) /\ d.lane = l
    BY <1>1, <2>1, OnlySendNotice DEF Sends, LanesInv, Types
  <2>3. IsCurrent(l, d.gen)
    BY <1>1, <2>1, <2>2 DEF SendNotice, Sends, LanesInv, Types
  <2>4. AnswerInv(l) /\ d.at = "view"
    BY <1>1, <2>1, <2>2 DEF AnswersInv, SendNotice
  <2> QED
    BY <2>2, <2>3, <2>4 DEF AnswerInv, Delivering, IsCurrent, Live, Recorded
<1>2. LanesInv /\ AnswersInv /\ [Next]_vars =>
        [\A l \in answered : Sends(l) => l \in journaled \/ completionError[l]]_vars
  BY <1>1
<1> QED
  BY <1>2, InitAnswers, NextAnswers, LanesInvariance, PTL DEF AnswersBeforeNotice, Spec

=============================================================================
