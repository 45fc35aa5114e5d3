-------------------------- MODULE ScenarioNodeProofs --------------------------
(***************************************************************************)
(* Proofs about ScenarioNode, for any seeds, places, hold, timeout, queue and *)
(* bounds.                                                                 *)
(***************************************************************************)
EXTENDS ScenarioNode, TLAPS, SequenceTheorems

-----------------------------------------------------------------------------
(* The inductive strengthening.  An episode is open from the node's first
   judgement on, and the node's seed is that of the last one. *)
OpenInv ==
    /\ opened <=> opens # <<>>
    /\ ~opened => mon = NoEpisode
    /\ opens # <<>> => seed = opens[Len(opens)].seed

(* A monitor that still judges has given no verdict on its episode. *)
UnjudgedInv == Running(mon) => \A o \in Outs : o.episode < Len(opens)

(* The episode in hand opened by the node's clock, which the engine may have left
   behind by MaxLag. *)
LagInv ==
    /\ time - clock <= MaxLag
    /\ mon.start # None => mon.start >= opens[Len(opens)].at - MaxLag

(* The poses that may still be judged, or that the next one is compared with. *)
Known ==
    {poses[i] : i \in 1..Len(poses)}
      \cup (IF cb.at = "pose" THEN {cb.pose} ELSE {})
      \cup (IF mon.last = None THEN {} ELSE {mon.last})

Moves    == {movedAt} \cup {opens[i].moved : i \in 1..Len(opens)}
LastMove == opens[Len(opens)].moved

(* What the object really did between two poses of one gap that both show it slow,
   the later inside: it was at rest there, and no less long than before. *)
Follows(x, y) ==
    x.p # None /\ y.p \in Region /\ Dist(y.p, x.p) <= MaxSpeed =>
        y.since # None /\ y.since = IF x.since = None THEN y.t ELSE x.since

(* A move ends the object's rest, and is never to come. *)
MovesInv ==
    /\ \A m \in Moves : m <= time /\ (since # None => since > m)
    /\ since # None => since <= time
    /\ reset.at = "moving" => reset.seed \in ResetSeeds

(* A pose of now shows the object, unless a reset has just taken it out; one pose
   a step of time was queued, and the oldest dropped. *)
KnownInv ==
    /\ \A x \in Known :
         /\ x.t <= time
         /\ x.since # None => x.since <= x.t /\ \A m \in Moves : x.t > m => x.since > m
         /\ x.t = time => \/ x.p = None
                          \/ place \notin Region /\ movedAt = time
                          \/ x.p = place /\ x.since = since
    /\ \A x, y \in Known : y.t = x.t + 1 => Follows(x, y)
    /\ \A i \in 1..Len(poses) : poses[i].t = time - Len(poses) + i

(* A second pose of an episode was queued after it opened, or shortly before; what
   counts as a hold since `inside` really is one. *)
HoldInv ==
    /\ mon.last # None => mon.last.p # None
    /\ mon.last # None /\ cb.at = "pose" => cb.pose.t > LastMove - QueueDepth
    /\ mon.inside # None =>
          /\ mon.last # None /\ mon.last.since # None /\ mon.last.since <= mon.inside
          /\ mon.inside > LastMove - QueueDepth

EpisodeInv == OneVerdict /\ OpenInv /\ UnjudgedInv

-----------------------------------------------------------------------------
(* The monitor's operators. *)

Verdicts == {None, "success", "failure"}

(* What a call of the monitor leaves: its episode goes on unless there is a verdict,
   and there is one only while it goes on. *)
JudgedBy(m, r) ==
    /\ r.mon \in Monitor /\ r.verdict \in Verdicts
    /\ r.mon.start = m.start
    /\ ~Running(m) => r.mon = m /\ r.verdict = None
    /\ r.verdict # None => r.mon.done

LEMMA TickJudges ==
    ASSUME NEW m \in Monitor, NEW t \in Times
    PROVE  /\ JudgedBy(m, Tick(m, t))
           /\ Tick(m, t).verdict \in {None, "failure"}
           /\ Tick(m, t).verdict # None => m.start \in Times /\ t - m.start >= TimeoutS
           /\ Running(m) => Tick(m, t).mon.inside = m.inside /\ Tick(m, t).mon.last = m.last
  BY DEF Tick, JudgedBy, Running, Monitor, Maybe, Verdicts

LEMMA ObserveJudges ==
    ASSUME NEW m \in Monitor, NEW pose \in Pose
    PROVE  /\ JudgedBy(m, Observe(m, pose))
           /\ Observe(m, pose).verdict \notin {None, "success"}
                => m.start \in Times /\ pose.t - m.start >= TimeoutS
  <1>t. pose.t \in Times
    BY DEF Pose
  <1>1. CASE ~Running(m)
    BY <1>1 DEF Observe, JudgedBy, Verdicts
  <1>2. CASE Running(m) /\ pose.p = None
    <2> DEFINE n == [m EXCEPT !.last = None, !.inside = None]
    <2>1. n \in Monitor /\ n.start = m.start
      BY DEF Monitor, Maybe
    <2>2. Observe(m, pose) = Tick(n, pose.t)
      BY <1>2 DEF Observe
    <2> HIDE DEF n
    <2>3. JudgedBy(n, Tick(n, pose.t))
      BY <2>1, <1>t, TickJudges
    <2> QED
      BY <1>2, <1>t, <2>1, <2>2, <2>3, TickJudges DEF JudgedBy, Running
  <1>3. CASE Running(m) /\ pose.p # None
    <2> DEFINE in == AtRest(m, pose) /\ pose.p \in Region
               n  == [m EXCEPT !.last = pose,
                               !.inside = IF ~in THEN None ELSE IF @ = None THEN pose.t ELSE @]
    <2>1. n \in Monitor /\ n.start = m.start
      BY <1>t DEF Monitor, Maybe
    <2>2. Observe(m, pose) = IF in /\ pose.t - n.inside >= HoldS
                             THEN [mon |-> [n EXCEPT !.done = TRUE], verdict |-> "success"]
                             ELSE Tick(n, pose.t)
      BY <1>3 DEF Observe
    <2> HIDE DEF n, in
    <2>3. JudgedBy(n, Tick(n, pose.t))
      BY <2>1, <1>t, TickJudges
    <2>4. [n EXCEPT !.done = TRUE] \in Monitor /\ [n EXCEPT !.done = TRUE].start = n.start
          /\ [n EXCEPT !.done = TRUE].done
      BY <2>1 DEF Monitor
    <2> QED
      BY <1>3, <1>t, <2>1, <2>2, <2>3, <2>4, TickJudges DEF JudgedBy, Running, Verdicts
  <1> QED
    BY <1>1, <1>2, <1>3

LEMMA OpenedFresh ==
    ASSUME NEW m, NEW t \in Times
    PROVE  /\ Opened(m, t) \in Monitor /\ Opened(m, t).start = t
           /\ Opened(m, t).last = None /\ Opened(m, t).inside = None
  <1>1. NoEpisode \in Monitor /\ NoEpisode.last = None /\ NoEpisode.inside = None
    BY DEF NoEpisode, Monitor, Maybe
  <1> QED
    BY <1>1 DEF Opened, Monitor, Maybe

-----------------------------------------------------------------------------
(* Types. *)

Episode == [seed: Seeds, at: Times, moved: Times]
CbType  == {Idle} \cup [at: {"tick"}, t: Times] \cup [at: {"pose"}, pose: Pose]
             \cup [at: {"publish"}, out: Outcome]
ResetType == {Idle} \cup [at: {"moving"}, seed: Seeds, applied: BOOLEAN]
               \cup [at: {"moved"}, seed: Seeds, ok: BOOLEAN]

LEMMA TypeParts ==
    ASSUME TypeOK
    PROVE  /\ time \in Times /\ clock \in Times /\ clock <= time
           /\ cb \in CbType /\ reset \in ResetType /\ opens \in Seq(Episode)
           /\ cb.at = "tick" => cb.t \in Times
           /\ cb.at = "pose" => cb.pose \in Pose /\ cb.pose.t \in Times /\ cb.pose.since \in Maybe(Times)
           /\ cb.at = "publish" => cb.out \in Outcome
           /\ reset.at = "moving" => reset.seed \in Seeds /\ reset.applied \in BOOLEAN
           /\ reset.at = "moved" => reset.seed \in Seeds /\ reset.ok \in BOOLEAN
  BY TimesAssumption DEF TypeOK, CbType, ResetType, Episode, Idle, Pose, Times

LEMMA VerdictTyped ==
    ASSUME TypeOK, NEW r, r.mon \in Monitor, r.verdict \in Verdicts,
           NEW t \in Times, NEW s \in Maybe(Times), Verdict(r, t, s)
    PROVE  mon' \in Monitor /\ cb' \in CbType
  <1>1. Len(opens) \in Nat /\ seed \in Seeds
    BY DEF TypeOK
  <1>2. r.verdict # None => cb' \in [at: {"publish"}, out: Outcome]
    BY <1>1 DEF Verdict, Outcome
  <1> QED
    BY <1>2 DEF Verdict, CbType

LEMMA TypeInit == Init => TypeOK
  <1> SUFFICES ASSUME Init PROVE TypeOK
    OBVIOUS
  <1>1. NoEpisode \in Monitor
    BY DEF NoEpisode, Monitor, Maybe
  <1> QED
    <2>1. 0 \in Times /\ SpawnAt[FirstSeed] \in Places 
          /\ None \in Maybe(Times) /\ None \in Maybe(Outcome)
      BY TimesAssumption, PlacesAssumption DEF Times, Maybe
    <2>2. <<>> \in Seq(Pose) /\ Len(<<>>) <= QueueDepth /\ <<>> \in Seq(Episode)
      BY TimesAssumption DEF Episode
    <2>3. time \in Times /\ clock \in 0..time /\ place \in Places /\ since \in Maybe(Times) /\ movedAt \in Times
      BY <2>1 DEF Init
    <2>4. poses \in Seq(Pose) /\ Len(poses) <= QueueDepth /\ opens \in Seq(Episode)
      BY <2>2 DEF Init
    <2>5. cb = Idle /\ reset = Idle /\ mon \in Monitor /\ seed \in Seeds /\ outcome \in Maybe(Outcome)
          /\ opened \in BOOLEAN /\ resetting \in BOOLEAN
      BY <1>1, <2>1, PlacesAssumption DEF Init
    <2> QED
      BY <2>3, <2>4, <2>5 DEF TypeOK, Episode

(* Every step keeps the types. *)
LEMMA TypeNext == TypeOK /\ [Next]_vars => TypeOK'
  <1> SUFFICES ASSUME TypeOK, [Next]_vars PROVE TypeOK'
    OBVIOUS
  <1> USE TimesAssumption, PlacesAssumption
  <1>1. CASE EngineStep
    <2>1. time' \in Times /\ place' \in Places /\ since' \in Maybe(Times)
      <3>1. time' \in Times
        BY <1>1 DEF EngineStep, TypeOK, Times
      <3>2. place' \in Places
        BY <1>1 DEF EngineStep, TypeOK
      <3>3. since' \in {None, time', since}
        BY <1>1 DEF EngineStep
      <3> QED
        BY <3>1, <3>2, <3>3 DEF TypeOK, Maybe
    <2>2. PICK p \in {place', None} : Delivered([t |-> time', p |-> p, since |-> since'])
      BY <1>1 DEF EngineStep
    <2> DEFINE pose == [t |-> time', p |-> p, since |-> since']
               q    == Append(poses, pose)
    <2>3. pose \in Pose
      BY <2>1 DEF Pose, Maybe
    <2> HIDE DEF pose
    <2>4. q \in Seq(Pose) /\ Len(q) = Len(poses) + 1
      BY <2>3 DEF TypeOK
    <2>5. poses' = IF Len(q) > QueueDepth THEN Tail(q) ELSE q
      BY <2>2 DEF Delivered, pose
    <2> HIDE DEF q
    <2>6. Tail(q) \in Seq(Pose) /\ Len(Tail(q)) = Len(poses)
      BY <2>4, q # <<>> DEF TypeOK
    <2>7. poses' \in Seq(Pose) /\ Len(poses') <= QueueDepth
      BY <2>4, <2>5, <2>6 DEF TypeOK
    <2>8. clock' \in 0..time'
      BY <1>1 DEF EngineStep, TypeOK, Times
    <2> QED
      BY <1>1, <2>1, <2>7, <2>8 DEF EngineStep, TypeOK, nodeVars
  <1>2. CASE ClockArrives
    BY <1>2 DEF ClockArrives, TypeOK, nodeVars, Times
  <1>3. CASE TickRead
    BY <1>3 DEF TickRead, TypeOK, engineVars, nodeVars, Times
  <1>4. CASE PoseTake
    <2>1. Head(poses) \in Pose /\ Tail(poses) \in Seq(Pose) /\ Len(Tail(poses)) <= QueueDepth
      BY <1>4 DEF PoseTake, TypeOK
    <2> QED
      BY <1>4, <2>1 DEF PoseTake, TypeOK, engineVars, nodeVars
  <1>5. CASE TickOpen
    <2>1. cb.t \in Times
      BY <1>5, TypeParts DEF TickOpen
    <2>2. mon' \in Monitor
      BY <1>5, <2>1, OpenedFresh DEF TickOpen
    <2>3. [seed |-> seed, at |-> cb.t, moved |-> movedAt] \in Episode
      BY <2>1 DEF TypeOK, Episode
    <2>4. opens' \in Seq(Episode)
      BY <1>5, <2>3 DEF TickOpen, TypeOK, Episode
    <2> QED
      BY <1>5, <2>2, <2>4 DEF TickOpen, TypeOK, Episode, engineVars
  <1>6. CASE TickJudge
    <2>1. cb.t \in Times /\ None \in Maybe(Times)
      BY <1>6, TypeParts DEF TickJudge, Maybe
    <2>2. JudgedBy(mon, Tick(mon, cb.t))
      BY <2>1, TickJudges DEF TypeOK
    <2>3. mon' \in Monitor /\ cb' \in CbType
      <3>1. CASE resetting
        BY <1>6, <3>1 DEF TickJudge, TypeOK, CbType
      <3>2. CASE ~resetting
        BY <1>6, <3>2, <2>1, <2>2, VerdictTyped DEF TickJudge, JudgedBy
      <3> QED
        BY <3>1, <3>2
    <2> QED
      BY <1>6, <2>3 DEF TickJudge, TypeOK, CbType, engineVars
  <1>7. CASE PoseJudge
    <2>1. cb.pose \in Pose /\ cb.pose.t \in Times /\ cb.pose.since \in Maybe(Times)
      BY <1>7, TypeParts DEF PoseJudge
    <2>2. JudgedBy(mon, Observe(mon, cb.pose))
      BY <2>1, ObserveJudges DEF TypeOK
    <2>3. mon' \in Monitor /\ cb' \in CbType
      <3>1. CASE resetting
        BY <1>7, <3>1 DEF PoseJudge, TypeOK, CbType
      <3>2. CASE ~resetting
        BY <1>7, <3>2, <2>1, <2>2, VerdictTyped DEF PoseJudge, JudgedBy
      <3> QED
        BY <3>1, <3>2
    <2> QED
      BY <1>7, <2>3 DEF PoseJudge, TypeOK, CbType, engineVars
  <1>8. CASE Publish
    <2>1. cb.out \in Outcome
      BY <1>8, TypeParts DEF Publish
    <2> QED
      BY <1>8, <2>1 DEF Publish, TypeOK, Maybe, engineVars, nodeVars
  <1>9. CASE ResetBegin
    <2>1. reset' \in [at: {"moving"}, seed: Seeds, applied: BOOLEAN]
      BY <1>9 DEF ResetBegin
    <2> QED
      BY <1>9, <2>1 DEF ResetBegin, TypeOK, engineVars
  <1>10. CASE ResetMoves
    <2>1. reset \in [at: {"moving"}, seed: Seeds, applied: BOOLEAN]
      BY <1>10, TypeParts DEF ResetMoves, ResetType, Idle
    <2>2. reset' \in [at: {"moving"}, seed: Seeds, applied: BOOLEAN] /\ place' \in Places
      BY <1>10, <2>1 DEF ResetMoves
    <2> QED
      BY <1>10, <2>2 DEF ResetMoves, TypeOK, Maybe, nodeVars
  <1>11. CASE ResetAnswered
    <2>1. reset.seed \in Seeds /\ reset.applied \in BOOLEAN
      BY <1>11, TypeParts DEF ResetAnswered
    <2>2. reset' \in [at: {"moved"}, seed: Seeds, ok: BOOLEAN]
      <3>1. PICK ok \in {reset.applied, FALSE} : reset' = [at |-> "moved", seed |-> reset.seed, ok |-> ok]
        BY <1>11 DEF ResetAnswered
      <3> QED
        BY <2>1, <3>1
    <2> QED
      BY <1>11, <2>2 DEF ResetAnswered, TypeOK, engineVars, nodeVars
  <1>12. CASE ResetEnd
    <2>1. reset.seed \in Seeds /\ clock \in Times /\ time \in Times
      BY <1>12, TypeParts DEF ResetEnd
    <2>2. mon' \in Monitor /\ seed' \in Seeds /\ opened' \in BOOLEAN
      <3>1. CASE reset.ok
        BY <1>12, <2>1, <3>1, OpenedFresh DEF ResetEnd
      <3>2. CASE ~reset.ok
        BY <1>12, <3>2 DEF ResetEnd, TypeOK
      <3> QED
        BY <3>1, <3>2
    <2>3. [seed |-> reset.seed, at |-> time, moved |-> movedAt] \in Episode
      BY <2>1 DEF TypeOK, Episode
    <2>4. opens' \in Seq(Episode)
      <3>1. opens' \in {opens, Append(opens, [seed |-> reset.seed, at |-> time, moved |-> movedAt])}
        BY <1>12 DEF ResetEnd
      <3>2. opens \in Seq(Episode)
        BY TypeParts
      <3> QED
        BY <2>3, <3>1, <3>2
    <2> QED
      BY <1>12, <2>2, <2>4 DEF ResetEnd, TypeOK, Episode, engineVars
  <1>13. CASE UNCHANGED vars
    BY <1>13 DEF vars, TypeOK, engineVars, nodeVars
  <1> QED
    BY <1>1, <1>2, <1>3, <1>4, <1>5, <1>6, <1>7, <1>8, <1>9, <1>10, <1>11, <1>12, <1>13
       DEF Next, Callback, ResetServed

-----------------------------------------------------------------------------
(* One verdict per episode. *)

(* What is published or latched is an outcome. *)
LEMMA OutsTyped == ASSUME TypeOK PROVE \A o \in Outs : o \in Outcome
  BY TypeParts DEF TypeOK, Outs, Maybe

(* Episodes opened before stay as they were. *)
LEMMA OpensKept ==
    ASSUME opens \in Seq(Episode), NEW e \in Episode, opens' = Append(opens, e)
    PROVE  /\ Len(opens') = Len(opens) + 1 /\ opens' # <<>> /\ opens'[Len(opens')] = e
           /\ \A i \in 1..Len(opens) : opens'[i] = opens[i]
  OBVIOUS

(* A new episode has no verdict yet, and no outcome is of it. *)
LEMMA NewEpisode ==
    ASSUME EpisodeInv, NEW e \in Episode, opens' = Append(opens, e), seed' = e.seed,
           opened' = TRUE, outcome' = outcome, Outs' = Outs,
           cb'.at = "publish" => cb' = cb
    PROVE  OncePerEpisode' /\ OwnSeed' /\ OpenInv' /\ UnjudgedInv'
  <1>1. /\ Len(opens') = Len(opens) + 1 /\ opens' # <<>> /\ opens'[Len(opens')] = e
        /\ \A i \in 1..Len(opens) : opens'[i] = opens[i]
    <2>1. opens \in Seq(Episode)
      BY TypeParts DEF EpisodeInv, OneVerdict
    <2> QED
      BY <2>1, OpensKept
  <1>2. \A o \in Outs' : o.episode \in 1..Len(opens) /\ o.seed = opens[o.episode].seed
    BY DEF EpisodeInv, OneVerdict, OwnSeed
  <1>3. Len(opens) \in Nat
    BY DEF EpisodeInv, OneVerdict, TypeOK
  <1>4. OwnSeed' /\ UnjudgedInv'
    BY <1>1, <1>2, <1>3 DEF OwnSeed, UnjudgedInv
  <1>5. OncePerEpisode'
    BY DEF EpisodeInv, OneVerdict, OncePerEpisode
  <1> QED
    BY <1>1, <1>4, <1>5 DEF OpenInv

(* A judgement that ends the episode in hand gives its one outcome. *)
LEMMA Judgement ==
    ASSUME EpisodeInv, NEW r, JudgedBy(mon, r), NEW t, NEW s, Verdict(r, t, s), cb.at # "publish",
           UNCHANGED <<seed, opened, opens, outcome>>
    PROVE  OncePerEpisode' /\ OwnSeed' /\ OpenInv' /\ UnjudgedInv'
  <1> USE DEF EpisodeInv, OneVerdict
  <1>1. mon' = r.mon
    BY DEF Verdict
  <1>2. OpenInv'
    <2>1. ~opened => ~Running(mon) /\ mon' = mon
      BY <1>1 DEF OpenInv, NoEpisode, Running, JudgedBy
    <2> QED
      BY <2>1 DEF OpenInv
  <1>3. CASE r.verdict = None
    <2>1. cb' = Idle /\ Outs' = Outs
      BY <1>3 DEF Verdict, Outs, Idle
    <2>2. Running(mon') => Running(mon)
      BY <1>1 DEF JudgedBy, Running
    <2>3. UnjudgedInv'
      BY <2>1, <2>2 DEF UnjudgedInv
    <2> QED
      BY <1>2, <2>1, <2>3 DEF OncePerEpisode, OwnSeed, Idle
  <1>4. CASE r.verdict # None
    <2>1. Running(mon) /\ ~Running(mon')
      BY <1>1, <1>4 DEF JudgedBy, Running
    <2>2. opens # <<>> /\ Len(opens) \in Nat /\ Len(opens) # 0 /\ seed = opens[Len(opens)].seed
      BY <2>1 DEF OpenInv, NoEpisode, Running, TypeOK
    <2>3. cb'.at = "publish" /\ cb'.out.episode = Len(opens) /\ cb'.out.seed = seed
      BY <1>4 DEF Verdict
    <2>4. \A o \in Outs : o.episode < Len(opens)
      BY <2>1 DEF UnjudgedInv
    <2>5. OncePerEpisode'
      BY <2>3, <2>4 DEF OncePerEpisode, Outs
    <2>6. \A o \in Outs' : o \in Outs \/ o = cb'.out
      BY DEF Outs
    <2>7. OwnSeed'
      BY <2>2, <2>3, <2>6 DEF OwnSeed
    <2> QED
      BY <1>2, <2>1, <2>5, <2>7 DEF UnjudgedInv
  <1> QED
    BY <1>3, <1>4

(* The monitor may also be left alone: a judgement while objects move. *)
LEMMA NoJudgement ==
    ASSUME EpisodeInv, UNCHANGED <<mon, seed, opened, opens, outcome>>, Outs' = Outs,
           cb'.at = "publish" => cb' = cb
    PROVE  OncePerEpisode' /\ OwnSeed' /\ OpenInv' /\ UnjudgedInv'
  BY DEF EpisodeInv, OneVerdict, OncePerEpisode, OwnSeed, OpenInv, UnjudgedInv

(* Every step keeps the episodes' invariant. *)
LEMMA EpisodeNext == EpisodeInv /\ [Next]_vars => EpisodeInv'
  <1> SUFFICES ASSUME EpisodeInv, [Next]_vars PROVE EpisodeInv'
    OBVIOUS
  <1>t. TypeOK /\ TypeOK'
    BY TypeNext DEF EpisodeInv, OneVerdict
  <1> SUFFICES OncePerEpisode' /\ OwnSeed' /\ OpenInv' /\ UnjudgedInv'
    BY <1>t DEF EpisodeInv, OneVerdict
  <1>1. CASE EngineStep \/ ClockArrives \/ ResetBegin \/ ResetMoves \/ ResetAnswered \/ UNCHANGED vars
    <2>1. UNCHANGED <<cb, mon, seed, opened, opens, outcome>>
      BY <1>1 DEF EngineStep, ClockArrives, ResetBegin, ResetMoves, ResetAnswered, nodeVars, vars
    <2>2. Outs' = Outs
      BY <2>1 DEF Outs
    <2> QED
      BY <2>1, <2>2, NoJudgement
  <1>2. CASE TickRead \/ PoseTake
    <2>1. UNCHANGED <<mon, seed, opened, opens, outcome>> /\ cb.at # "publish" /\ cb'.at # "publish"
      BY <1>2 DEF TickRead, PoseTake, nodeVars, Idle
    <2>2. Outs' = Outs
      BY <2>1 DEF Outs
    <2> QED
      BY <2>1, <2>2, NoJudgement
  <1>3. CASE TickOpen
    <2> DEFINE e == [seed |-> seed, at |-> cb.t, moved |-> movedAt]
    <2>1. e \in Episode /\ e.seed = seed
      BY <1>3, <1>t, TypeParts DEF TickOpen, Episode, TypeOK
    <2>2. opens' = Append(opens, e) /\ opened' = TRUE /\ outcome' = outcome /\ seed' = seed
          /\ cb.at # "publish" /\ cb'.at # "publish"
      BY <1>3 DEF TickOpen, Idle
    <2>3. Outs' = Outs
      BY <2>2 DEF Outs
    <2> HIDE DEF e
    <2> QED
      BY <2>1, <2>2, <2>3, NewEpisode
  <1>4. CASE TickJudge
    <2>1. UNCHANGED <<seed, opened, opens, outcome>> /\ cb.at # "publish"
      BY <1>4 DEF TickJudge
    <2>2. CASE resetting
      <3>1. mon' = mon /\ cb' = Idle
        BY <1>4, <2>2 DEF TickJudge
      <3>2. Outs' = Outs
        BY <2>1, <3>1 DEF Outs, Idle
      <3> QED
        BY <2>1, <3>1, <3>2, NoJudgement DEF Idle
    <2>3. CASE ~resetting
      <3>1. Verdict(Tick(mon, cb.t), cb.t, None)
        BY <1>4, <2>3 DEF TickJudge
      <3>2. JudgedBy(mon, Tick(mon, cb.t))
        BY <1>4, <1>t, TypeParts, TickJudges DEF TickJudge, TypeOK
      <3> QED
        BY <2>1, <3>1, <3>2, Judgement
    <2> QED
      BY <2>2, <2>3
  <1>5. CASE PoseJudge
    <2>1. UNCHANGED <<seed, opened, opens, outcome>> /\ cb.at # "publish"
      BY <1>5 DEF PoseJudge
    <2>2. CASE resetting
      <3>1. mon' = mon /\ cb' = Idle
        BY <1>5, <2>2 DEF PoseJudge
      <3>2. Outs' = Outs
        BY <2>1, <3>1 DEF Outs, Idle
      <3> QED
        BY <2>1, <3>1, <3>2, NoJudgement DEF Idle
    <2>3. CASE ~resetting
      <3>1. Verdict(Observe(mon, cb.pose), cb.pose.t, cb.pose.since)
        BY <1>5, <2>3 DEF PoseJudge
      <3>2. JudgedBy(mon, Observe(mon, cb.pose))
        BY <1>5, <1>t, TypeParts, ObserveJudges DEF PoseJudge, TypeOK
      <3> QED
        BY <2>1, <3>1, <3>2, Judgement
    <2> QED
      BY <2>2, <2>3
  <1>6. CASE Publish
    <2>1. UNCHANGED <<mon, seed, opened, opens>> /\ outcome' = cb.out /\ cb.at = "publish" /\ cb' = Idle
      BY <1>6 DEF Publish, nodeVars
    <2>2. \A o \in Outs' : o \in Outs
      BY <2>1 DEF Outs, Idle
    <2> QED
      BY <2>1, <2>2 DEF EpisodeInv, OneVerdict, OncePerEpisode, OwnSeed, OpenInv, UnjudgedInv, Idle
  <1>7. CASE ResetEnd
    <2>1. UNCHANGED <<cb, outcome>>
      BY <1>7 DEF ResetEnd
    <2>2. Outs' = Outs
      BY <2>1 DEF Outs
    <2>3. CASE reset.ok
      <3> DEFINE e == [seed |-> reset.seed, at |-> time, moved |-> movedAt]
      <3>1. e \in Episode /\ e.seed = reset.seed
        BY <1>7, <1>t, TypeParts DEF ResetEnd, Episode, TypeOK
      <3>2. opens' = Append(opens, e) /\ opened' = TRUE /\ seed' = reset.seed
        BY <1>7, <2>3 DEF ResetEnd
      <3> HIDE DEF e
      <3> QED
        BY <2>1, <2>2, <3>1, <3>2, NewEpisode
    <2>4. CASE ~reset.ok
      <3>1. UNCHANGED <<mon, seed, opened, opens>>
        BY <1>7, <2>4 DEF ResetEnd
      <3> QED
        BY <2>1, <2>2, <3>1, NoJudgement
    <2> QED
      BY <2>3, <2>4
  <1> QED
    BY <1>1, <1>2, <1>3, <1>4, <1>5, <1>6, <1>7 DEF Next, Callback, ResetServed

LEMMA EpisodeInit == Init => EpisodeInv
  <1> SUFFICES ASSUME Init PROVE EpisodeInv
    OBVIOUS
  <1>1. TypeOK
    BY TypeInit
  <1>2. Outs = {}
    BY DEF Init, Outs, Idle
  <1>3. ~Running(mon)
    BY DEF Init, NoEpisode, Running
  <1> QED
    BY <1>1, <1>2, <1>3 DEF Init, EpisodeInv, OneVerdict, OncePerEpisode, OwnSeed, OpenInv, UnjudgedInv, Idle

(* No episode has a second verdict, none is replaced by an earlier episode's, and
   each names its own episode's seed, whatever reset, tick or pose comes between a
   judgement and its publication (scenario_node.py, _judge and _on_reset). *)
THEOREM OutcomesAreTheirEpisodes == Spec => []OneVerdict
  <1>1. EpisodeInv => OneVerdict
    BY DEF EpisodeInv
  <1> QED
    BY EpisodeInit, EpisodeNext, <1>1, PTL DEF Spec

-----------------------------------------------------------------------------
(* No failure before the timeout. *)

TimeInv == EpisodeInv /\ LagInv /\ TimeoutKept

(* A verdict is as late as its judgement says. *)
LEMMA FailureIsLate ==
    ASSUME TimeInv, NEW r, JudgedBy(mon, r), NEW t \in Times, NEW s, Verdict(r, t, s), cb.at # "publish",
           r.verdict \notin {None, "success"} => t - mon.start >= TimeoutS,
           UNCHANGED <<opens, outcome, time, clock>>
    PROVE  LagInv' /\ TimeoutKept'
  <1>1. mon'.start = mon.start
    BY DEF Verdict, JudgedBy
  <1>2. LagInv'
    BY <1>1 DEF TimeInv, LagInv
  <1>3. CASE r.verdict = None
    <2>1. Outs' = Outs
      BY <1>3 DEF Verdict, Outs, Idle
    <2> QED
      BY <1>2, <2>1 DEF TimeInv, TimeoutKept
  <1>4. CASE r.verdict # None
    <2>1. cb'.at = "publish" /\ cb'.out.episode = Len(opens) /\ cb'.out.t = t
          /\ (~cb'.out.success => r.verdict \notin {None, "success"})
      BY <1>4 DEF Verdict
    <2>2. Running(mon) /\ mon.start \in Times /\ opens # <<>>
      BY <1>4 DEF JudgedBy, Running, TimeInv, EpisodeInv, OneVerdict, TypeOK, Monitor, Maybe, OpenInv, NoEpisode
    <2>3. Len(opens) \in 1..Len(opens) /\ opens[Len(opens)].at \in Times
      <3>1. opens \in Seq(Episode)
        BY TypeParts DEF TimeInv, EpisodeInv, OneVerdict
      <3>2. Len(opens) \in 1..Len(opens) /\ opens[Len(opens)] \in Episode
        BY <2>2, <3>1
      <3> QED
        BY <3>2 DEF Episode
    <2>4. mon.start >= opens[Len(opens)].at - MaxLag
      BY <2>2, PlacesAssumption DEF TimeInv, LagInv, Running
    <2>5. ~cb'.out.success => t - opens[Len(opens)].at >= TimeoutS - MaxLag
      BY <2>1, <2>2, <2>3, <2>4, TimesAssumption DEF Times
    <2>6. \A o \in Outs' : o \in Outs \/ o = cb'.out
      BY DEF Outs
    <2> QED
      BY <1>2, <2>1, <2>5, <2>6 DEF TimeInv, TimeoutKept
  <1> QED
    BY <1>3, <1>4

(* An episode opens no further in the node's past than its clock lags. *)
LEMMA OpensInTime ==
    ASSUME TimeInv, NEW e \in Episode, opens' = Append(opens, e), Outs' = Outs,
           NEW t \in Times, NEW m, mon' = Opened(m, t), t >= e.at - MaxLag,
           UNCHANGED <<time, clock>>
    PROVE  LagInv' /\ TimeoutKept'
  <1>1. /\ Len(opens') = Len(opens) + 1 /\ opens' # <<>> /\ opens'[Len(opens')] = e
        /\ \A i \in 1..Len(opens) : opens'[i] = opens[i]
    <2>1. opens \in Seq(Episode)
      BY TypeParts DEF TimeInv, EpisodeInv, OneVerdict
    <2> QED
      BY <2>1, OpensKept
  <1>2. mon'.start = t
    BY OpenedFresh
  <1>3. LagInv'
    BY <1>1, <1>2 DEF TimeInv, LagInv
  <1>4. TimeoutKept'
    BY <1>1 DEF TimeInv, TimeoutKept, EpisodeInv, OneVerdict, OwnSeed
  <1> QED
    BY <1>3, <1>4

LEMMA TimeNext ==
    ASSUME MaxBoot <= MaxLag
    PROVE  TimeInv /\ [Next]_vars => TimeInv'
  <1> SUFFICES ASSUME TimeInv, [Next]_vars PROVE TimeInv'
    OBVIOUS
  <1>t. TypeOK /\ EpisodeInv'
    BY EpisodeNext DEF TimeInv, EpisodeInv, OneVerdict
  <1> SUFFICES LagInv' /\ TimeoutKept'
    BY <1>t DEF TimeInv
  <1>1. CASE EngineStep \/ ClockArrives
    <2>1. UNCHANGED <<cb, mon, opens, outcome>>
      BY <1>1 DEF EngineStep, ClockArrives, nodeVars
    <2>2. Outs' = Outs
      BY <2>1 DEF Outs
    <2>3. time' - clock' <= MaxLag
      BY <1>1, <1>t, TypeParts, TimesAssumption DEF EngineStep, ClockArrives, TimeInv, LagInv, Times
    <2> QED
      BY <2>1, <2>2, <2>3 DEF TimeInv, LagInv, TimeoutKept
  <1>2. CASE ResetBegin \/ ResetMoves \/ ResetAnswered \/ UNCHANGED vars
    <2>1. UNCHANGED <<cb, mon, opens, outcome, time, clock>>
      BY <1>2 DEF ResetBegin, ResetMoves, ResetAnswered, nodeVars, engineVars, vars
    <2>2. Outs' = Outs
      BY <2>1 DEF Outs
    <2> QED
      BY <2>1, <2>2 DEF TimeInv, LagInv, TimeoutKept
  <1>3. CASE TickRead \/ PoseTake \/ Publish
    <2>1. UNCHANGED <<mon, opens, time, clock>>
      BY <1>3 DEF TickRead, PoseTake, Publish, engineVars, nodeVars
    <2>2. \A o \in Outs' : o \in Outs
      BY <1>3 DEF TickRead, PoseTake, Publish, Outs, Idle
    <2> QED
      BY <2>1, <2>2 DEF TimeInv, LagInv, TimeoutKept
  <1>4. CASE TickOpen
    <2> DEFINE e == [seed |-> seed, at |-> cb.t, moved |-> movedAt]
    <2>1. e \in Episode /\ e.at = cb.t /\ cb.t \in Times
      BY <1>4, <1>t, TypeParts DEF TickOpen, Episode, TypeOK
    <2>2. /\ opens' = Append(opens, e) /\ mon' = Opened(mon, cb.t) /\ UNCHANGED <<time, clock, outcome>>
          /\ cb.at # "publish" /\ cb'.at # "publish"
      BY <1>4 DEF TickOpen, engineVars, Idle
    <2>3. Outs' = Outs
      BY <2>2 DEF Outs
    <2> HIDE DEF e
    <2>4. cb.t >= e.at - MaxLag
      BY <2>1, TimesAssumption DEF Times
    <2> QED
      BY <2>1, <2>2, <2>3, <2>4, OpensInTime
  <1>5. CASE TickJudge
    <2>1. UNCHANGED <<opens, outcome, time, clock>> /\ cb.at # "publish"
      BY <1>5 DEF TickJudge, engineVars
    <2>2. CASE resetting
      <3>1. mon' = mon /\ cb' = Idle
        BY <1>5, <2>2 DEF TickJudge
      <3>2. Outs' = Outs
        BY <2>1, <3>1 DEF Outs, Idle
      <3> QED
        BY <2>1, <3>1, <3>2 DEF TimeInv, LagInv, TimeoutKept
    <2>3. CASE ~resetting
      <3>1. Verdict(Tick(mon, cb.t), cb.t, None) /\ cb.t \in Times
        BY <1>5, <2>3, <1>t, TypeParts DEF TickJudge
      <3>2. /\ JudgedBy(mon, Tick(mon, cb.t))
            /\ Tick(mon, cb.t).verdict # None => cb.t - mon.start >= TimeoutS
        BY <1>t, <3>1, TickJudges DEF TypeOK
      <3> QED
        BY <2>1, <3>1, <3>2, FailureIsLate
    <2> QED
      BY <2>2, <2>3
  <1>6. CASE PoseJudge
    <2>1. UNCHANGED <<opens, outcome, time, clock>> /\ cb.at # "publish"
      BY <1>6 DEF PoseJudge, engineVars
    <2>2. CASE resetting
      <3>1. mon' = mon /\ cb' = Idle
        BY <1>6, <2>2 DEF PoseJudge
      <3>2. Outs' = Outs
        BY <2>1, <3>1 DEF Outs, Idle
      <3> QED
        BY <2>1, <3>1, <3>2 DEF TimeInv, LagInv, TimeoutKept
    <2>3. CASE ~resetting
      <3>1. /\ Verdict(Observe(mon, cb.pose), cb.pose.t, cb.pose.since)
            /\ cb.pose \in Pose /\ cb.pose.t \in Times
        BY <1>6, <2>3, <1>t, TypeParts DEF PoseJudge
      <3>2. /\ JudgedBy(mon, Observe(mon, cb.pose))
            /\ Observe(mon, cb.pose).verdict \notin {None, "success"} => cb.pose.t - mon.start >= TimeoutS
        BY <1>t, <3>1, ObserveJudges DEF TypeOK
      <3> QED
        BY <2>1, <3>1, <3>2, FailureIsLate
    <2> QED
      BY <2>2, <2>3
  <1>7. CASE ResetEnd
    <2>1. UNCHANGED <<cb, outcome, time, clock>>
      BY <1>7 DEF ResetEnd, engineVars
    <2>2. Outs' = Outs
      BY <2>1 DEF Outs
    <2>3. CASE reset.ok
      <3> DEFINE e == [seed |-> reset.seed, at |-> time, moved |-> movedAt]
      <3>1. e \in Episode /\ e.at = time /\ clock \in Times /\ time \in Times
        BY <1>7, <1>t, TypeParts DEF ResetEnd, Episode, TypeOK
      <3>2. opens' = Append(opens, e) /\ mon' = Opened(mon, clock)
        BY <1>7, <2>3 DEF ResetEnd
      <3> HIDE DEF e
      <3>3. clock >= e.at - MaxLag
        BY <3>1, TimesAssumption DEF TimeInv, LagInv, Times
      <3> QED
        BY <2>1, <2>2, <3>1, <3>2, <3>3, OpensInTime
    <2>4. CASE ~reset.ok
      <3>1. UNCHANGED <<mon, opens>>
        BY <1>7, <2>4 DEF ResetEnd
      <3> QED
        BY <2>1, <2>2, <3>1 DEF TimeInv, LagInv, TimeoutKept
    <2> QED
      BY <2>3, <2>4
  <1> QED
    BY <1>1, <1>2, <1>3, <1>4, <1>5, <1>6, <1>7 DEF Next, Callback, ResetServed

LEMMA TimeInit == Init => TimeInv
  <1> SUFFICES ASSUME Init PROVE TimeInv
    OBVIOUS
  <1>1. Outs = {}
    BY DEF Init, Outs, Idle
  <1>2. mon.start = None
    BY DEF Init, NoEpisode
  <1>3. time - clock <= MaxLag
    BY TimesAssumption DEF Init
  <1> QED
    BY <1>1, <1>2, <1>3, EpisodeInit DEF TimeInv, LagInv, TimeoutKept

(* Where /clock lags no more before its first message than after, no episode fails
   before its timeout_s is over, up to that lag, whatever ticks, poses and resets
   come between (scenario.py, EpisodeMonitor.tick). *)
THEOREM FailuresAreLate ==
    ASSUME MaxBoot <= MaxLag
    PROVE  Spec => []TimeoutKept
  <1>1. TimeInv => TimeoutKept
    BY DEF TimeInv
  <1>2. TimeInv /\ [Next]_vars => TimeInv'
    BY TimeNext
  <1> QED
    BY TimeInit, <1>1, <1>2, PTL DEF Spec

-----------------------------------------------------------------------------
(* A success is a hold the object made. *)

SightInv == MovesInv /\ KnownInv /\ HoldInv
HeldInv  == EpisodeInv /\ SightInv /\ Earned

LEMMA DistSymmetric ==
    ASSUME NEW x \in Int, NEW y \in Int
    PROVE  Dist(x, y) = Dist(y, x) /\ Dist(x, y) \in Int
  BY DEF Dist

LEMMA PlacesNumbered == Places \subseteq Int /\ None \notin Region
  <1>1. Places \subseteq Nat /\ Region \subseteq Places /\ None \notin Int
    BY PlacesAssumption
  <1>2. Nat \subseteq Int
    OBVIOUS
  <1> QED
    BY <1>1, <1>2, Zenon

LEMMA KnownTyped ==
    ASSUME TypeOK
    PROVE  /\ \A x \in Known : x \in Pose /\ x.t \in Times /\ x.p \in Maybe(Places) /\ x.since \in Maybe(Times)
           /\ \A m \in Moves : m \in Times
  <1>1. \A i \in 1..Len(poses) : poses[i] \in Pose
    BY DEF TypeOK
  <1>2. mon.last # None => mon.last \in Pose
    BY DEF TypeOK, Monitor, Maybe
  <1>3. \A x \in Known : x \in Pose
    BY <1>1, <1>2, TypeParts DEF Known
  <1>4. \A i \in 1..Len(opens) : opens[i] \in Episode
    BY TypeParts
  <1>5. \A m \in Moves : m \in Times
    BY <1>4 DEF Moves, Episode, TypeOK
  <1> QED
    BY <1>3, <1>5 DEF Pose

(* What a call of observe says of the hold. *)
LEMMA ObserveHolds ==
    ASSUME NEW m \in Monitor, NEW pose \in Pose, MaxPoseGap = 1, NEW r, r = Observe(m, pose)
    PROVE  /\ r.mon.last \in {m.last, pose, None}
           /\ r.mon.last \notin {m.last, None} => r.mon.last.p # None
           /\ \/ ~Running(m) /\ r.mon = m /\ r.verdict = None
              \/ /\ r.mon.inside # None =>
                     /\ r.mon.last = pose /\ m.last # None
                     /\ pose.t = m.last.t + 1 /\ Dist(pose.p, m.last.p) <= MaxSpeed /\ pose.p \in Region
                     /\ r.mon.inside = IF m.inside = None THEN pose.t ELSE m.inside
                 /\ r.verdict # None /\ r.verdict = "success" =>
                     r.mon.inside # None /\ pose.t - r.mon.inside >= HoldS
  <1>t. pose.t \in Times /\ pose # None
    BY NoneAssumption DEF Pose
  <1>1. CASE ~Running(m)
    BY <1>1 DEF Observe
  <1>2. CASE Running(m) /\ pose.p = None
    <2> DEFINE n == [m EXCEPT !.last = None, !.inside = None]
    <2>1. n \in Monitor /\ n.last = None /\ n.inside = None
      BY DEF Monitor, Maybe
    <2>2. r = Tick(n, pose.t)
      BY <1>2 DEF Observe
    <2> HIDE DEF n
    <2>3. r.mon.last = None /\ r.mon.inside = None /\ r.verdict \in {None, "failure"}
      BY <2>1, <2>2 DEF Tick, Monitor
    <2> QED
      BY <2>3
  <1>3. CASE Running(m) /\ pose.p # None
    <2> DEFINE in == AtRest(m, pose) /\ pose.p \in Region
               n  == [m EXCEPT !.last = pose,
                               !.inside = IF ~in THEN None ELSE IF @ = None THEN pose.t ELSE @]
    <2>1. /\ n \in Monitor /\ n.last = pose
          /\ n.inside = IF ~in THEN None ELSE IF m.inside = None THEN pose.t ELSE m.inside
      BY <1>t DEF Monitor, Maybe
    <2>2. r = IF in /\ pose.t - n.inside >= HoldS
              THEN [mon |-> [n EXCEPT !.done = TRUE], verdict |-> "success"]
              ELSE Tick(n, pose.t)
      BY <1>3 DEF Observe
    <2>3. in => m.last # None /\ pose.t = m.last.t + 1 /\ Dist(pose.p, m.last.p) <= MaxSpeed /\ pose.p \in Region
      <3>1. SUFFICES ASSUME AtRest(m, pose)
                     PROVE  m.last # None /\ pose.t = m.last.t + 1 /\ Dist(pose.p, m.last.p) <= MaxSpeed
        OBVIOUS
      <3>2. m.last # None /\ m.last.t \in Times
        BY <3>1 DEF AtRest, Monitor, Maybe, Pose
      <3>3. pose.t - m.last.t = 1
        BY <1>t, <3>1, <3>2 DEF AtRest, Times
      <3>4. MaxSpeed * 1 = MaxSpeed
        BY TimesAssumption
      <3> QED
        BY <1>t, <3>1, <3>2, <3>3, <3>4 DEF AtRest, Times
    <2>4. m.inside # None => m.inside \in Times
      BY DEF Monitor, Maybe
    <2>5. in => n.inside # None
      BY <1>t, <2>1, PlacesAssumption DEF Times
    <2> HIDE DEF n, in
    <2>6. /\ r.mon.last = n.last /\ r.mon.inside = n.inside
          /\ r.verdict # None /\ r.verdict = "success" => in /\ pose.t - n.inside >= HoldS
      BY <2>1, <2>2 DEF Tick, Monitor
    <2> QED
      BY <1>3, <1>t, <2>1, <2>3, <2>5, <2>6
  <1> QED
    BY <1>1, <1>2, <1>3

(* A step that shows the node no new pose keeps what is known. *)
LEMMA FewerKnown ==
    ASSUME KnownInv, \A x \in Known' : x \in Known, \A m \in Moves' : m \in Moves,
           UNCHANGED <<time, place, since, movedAt>>,
           \A i \in 1..Len(poses') : poses'[i].t = time' - Len(poses') + i
    PROVE  KnownInv'
  BY DEF KnownInv

(* A new pose: the engine's step. *)
LEMMA PoseShown ==
    ASSUME TypeOK, SightInv, EngineStep
    PROVE  MovesInv' /\ KnownInv' /\ HoldInv'
  <1> USE TimesAssumption, PlacesAssumption
  <1>1. PICK p \in {place', None} : Delivered([t |-> time', p |-> p, since |-> since'])
    BY DEF EngineStep
  <1> DEFINE y == [t |-> time', p |-> p, since |-> since']
  <1>2. /\ UNCHANGED <<cb, mon, opens, movedAt, reset>> /\ time' = time + 1 /\ time \in Int
        /\ since' \in {None, time', since}
    BY DEF EngineStep, nodeVars, TypeOK, Times
  <1>3. y.t = time + 1 /\ y.p = p /\ y.since = since'
    BY <1>2
  <1>4. poses' = IF Len(Append(poses, y)) > QueueDepth THEN Tail(Append(poses, y)) ELSE Append(poses, y)
    BY <1>1 DEF Delivered
  <1> HIDE DEF y
  <1>5. /\ \A i \in 1..Len(poses') : poses'[i] = y \/ \E j \in 1..Len(poses) : poses'[i] = poses[j]
        /\ \A i \in 1..Len(poses') : poses'[i].t = time' - Len(poses') + i
    <2>0. Len(poses) \in Nat /\ poses \in Seq(Pose) /\ \A i \in 1..Len(poses) : poses[i].t = time - Len(poses) + i
      BY DEF TypeOK, SightInv, KnownInv
    <2> DEFINE q == Append(poses, y)
    <2>1. Len(q) = Len(poses) + 1 /\ \A i \in 1..Len(q) : q[i] = IF i = Len(q) THEN y ELSE poses[i]
      BY <2>0
    <2>2. \A i \in 1..Len(q) : q[i].t = time' - Len(q) + i
      BY <1>2, <1>3, <2>0, <2>1
    <2>3. Len(Tail(q)) = Len(q) - 1 /\ \A i \in 1..Len(Tail(q)) : Tail(q)[i] = q[i + 1]
      BY <2>0, <2>1
    <2>4. CASE poses' = q
      BY <2>0, <2>1, <2>2, <2>4
    <2> HIDE DEF q
    <2>5. CASE poses' = Tail(q)
      <3>1. \A i \in 1..Len(poses') : i + 1 \in 1..Len(q)
        BY <2>0, <2>1, <2>3, <2>5
      <3>2. \A i \in 1..Len(poses') : poses'[i] = q[i + 1] /\ poses'[i].t = time' - Len(q) + (i + 1)
        BY <2>2, <2>3, <2>5, <3>1
      <3>3. \A i \in 1..Len(poses') : poses'[i].t = time' - Len(poses') + i
        <4>1. Len(poses') = Len(q) - 1 /\ Len(q) \in Int /\ time' \in Int
          BY <1>2, <2>0, <2>1, <2>3, <2>5
        <4>2. \A i \in 1..Len(poses') : time' - Len(q) + (i + 1) = time' - Len(poses') + i
          BY <4>1
        <4> QED
          BY <3>2, <4>2
      <3>4. \A i \in 1..Len(poses') : i + 1 = Len(q) \/ i + 1 \in 1..Len(poses)
        BY <2>0, <2>1, <3>1
      <3> QED
        BY <2>1, <3>1, <3>2, <3>3, <3>4
    <2> QED
      BY <1>4, <2>4, <2>5 DEF q
  <1>6. \A x \in Known' : x = y \/ x \in Known
    BY <1>2, <1>5 DEF Known
  <1>7. Moves' = Moves
    BY <1>2 DEF Moves
  <1>8. MovesInv'
    <2>1. \A m \in Moves : m \in Times
      BY KnownTyped
    <2>2. since \in Maybe(Times) /\ time' \in Int
      BY <1>2 DEF TypeOK
    <2> QED
      BY <1>2, <1>7, <2>1, <2>2 DEF SightInv, MovesInv, Maybe, Times
  <1>9. \A x \in Known : x.t = time => Follows(x, y)
    <2>1. SUFFICES ASSUME NEW x \in Known, x.t = time, x.p # None, y.p \in Region,
                          Dist(y.p, x.p) <= MaxSpeed
                   PROVE  y.since # None /\ y.since = IF x.since = None THEN y.t ELSE x.since
      BY DEF Follows
    <2>2. y.p = place' /\ place' \in Region
      <3>1. None \notin Region
        BY PlacesNumbered
      <3> QED
        BY <1>3, <2>1, <3>1
    <2>3. ~(place \notin Region /\ movedAt = time)
      BY <2>2 DEF EngineStep
    <2>4. x.p = place /\ x.since = since
      BY <2>1, <2>3 DEF SightInv, KnownInv
    <2>5. Dist(place, place') <= MaxSpeed
      <3>1. place \in Int /\ place' \in Int
        BY PlacesNumbered DEF EngineStep, TypeOK
      <3> QED
        BY <2>1, <2>2, <2>4, <3>1, DistSymmetric
    <2>6. since' = IF since = None THEN time' ELSE since
      <3>1. place \in Int /\ place' \in Int
        BY PlacesNumbered DEF EngineStep, TypeOK
      <3>2. ~(Dist(place, place') > MaxSpeed)
        BY <2>5, <3>1, DistSymmetric, TimesAssumption
      <3> QED
        BY <2>2, <3>2 DEF EngineStep
    <2> QED
      BY <1>2, <1>3, <2>4, <2>6
  <1>10. /\ \A x \in Known : x.t <= time /\ x.t \in Int
         /\ y.t = time + 1
    BY <1>3, KnownTyped DEF SightInv, KnownInv, Times
  <1>11. \A x, z \in Known' : z.t = x.t + 1 => Follows(x, z)
    BY <1>2, <1>6, <1>9, <1>10 DEF SightInv, KnownInv
  <1>12. \A x \in Known' :
           /\ x.t <= time'
           /\ x.since # None => x.since <= x.t /\ \A m \in Moves' : x.t > m => x.since > m
           /\ x.t = time' => \/ x.p = None
                             \/ place' \notin Region /\ movedAt' = time'
                             \/ x.p = place' /\ x.since = since'
    <2>1. SUFFICES ASSUME NEW x \in Known'
                   PROVE  /\ x.t <= time'
                          /\ x.since # None => x.since <= x.t /\ \A m \in Moves : x.t > m => x.since > m
                          /\ x.t = time' => x.p = None \/ (x.p = place' /\ x.since = since')
      BY <1>7
    <2>2. CASE x \in Known
      BY <1>2, <1>10, <2>2 DEF SightInv, KnownInv
    <2>3. CASE x = y
      <3>1. since' # None => since' <= time' /\ \A m \in Moves : since' > m
        BY <1>7, <1>8 DEF MovesInv
      <3> QED
        BY <1>2, <1>3, <2>3, <3>1
    <2> QED
      BY <1>6, <2>1, <2>2, <2>3
  <1>13. KnownInv'
    BY <1>5, <1>11, <1>12 DEF KnownInv
  <1>14. HoldInv'
    BY <1>2 DEF SightInv, HoldInv, LastMove
  <1> QED
    BY <1>8, <1>13, <1>14

(* A step that neither moves the object nor shows it. *)
LEMMA NothingShown ==
    ASSUME SightInv, UNCHANGED <<time, place, since, movedAt, poses, opens, mon>>,
           cb'.at = "pose" => cb' = cb, reset'.at = "moving" => reset'.seed \in ResetSeeds
    PROVE  MovesInv' /\ KnownInv' /\ HoldInv'
  <1>1. \A x \in Known' : x \in Known
    BY DEF Known
  <1>2. Moves' = Moves
    BY DEF Moves
  <1>3. KnownInv'
    BY <1>1, <1>2, FewerKnown DEF SightInv, KnownInv
  <1> QED
    BY <1>2, <1>3 DEF SightInv, MovesInv, HoldInv, LastMove

(* A pose on its way to judgement was queued no earlier than QueueDepth ago. *)
LEMMA PoseTaken ==
    ASSUME EpisodeInv, SightInv, PoseTake
    PROVE  MovesInv' /\ KnownInv' /\ HoldInv'
  <1> USE DEF EpisodeInv, OneVerdict
  <1>1. /\ poses # <<>> /\ poses' = Tail(poses) /\ cb' = [at |-> "pose", pose |-> Head(poses)]
        /\ UNCHANGED <<time, place, since, movedAt, opens, mon, reset>>
    BY DEF PoseTake, engineVars, nodeVars
  <1>2. poses \in Seq(Pose) /\ Len(poses) \in Nat /\ Len(poses) # 0 /\ Len(poses) <= QueueDepth /\ time \in Int
    BY <1>1 DEF TypeOK, Times
  <1>3. Head(poses) = poses[1] /\ 1 \in 1..Len(poses)
    BY <1>1, <1>2
  <1>4. Len(poses') = Len(poses) - 1 /\ \A i \in 1..Len(poses') : poses'[i] = poses[i + 1] /\ i + 1 \in 1..Len(poses)
    BY <1>1, <1>2
  <1>5. \A i \in 1..Len(poses) : poses[i].t = time - Len(poses) + i
    BY DEF SightInv, KnownInv
  <1>6. \A i \in 1..Len(poses') : poses'[i].t = time' - Len(poses') + i
    <2>1. \A i \in 1..Len(poses') : poses'[i].t = time - Len(poses) + (i + 1)
      BY <1>4, <1>5
    <2>2. \A i \in 1..Len(poses') : time - Len(poses) + (i + 1) = time - Len(poses') + i
      BY <1>2, <1>4
    <2> QED
      BY <1>1, <2>1, <2>2
  <1>7. \A x \in Known' : x \in Known
    BY <1>1, <1>3, <1>4 DEF Known
  <1>8. Moves' = Moves
    BY <1>1 DEF Moves
  <1>9. KnownInv'
    BY <1>1, <1>6, <1>7, <1>8, FewerKnown DEF SightInv
  <1>10. cb'.pose.t > time - QueueDepth
    <2>1. cb'.pose.t = time - Len(poses) + 1
      BY <1>1, <1>3, <1>5
    <2> QED
      BY <1>2, <2>1, TimesAssumption
  <1>11. mon.last # None => LastMove \in Moves
    <2>1. mon.last # None => opens # <<>>
      BY DEF OpenInv, NoEpisode
    <2> QED
      BY <2>1 DEF LastMove, Moves, TypeOK
  <1>12. mon.last # None => cb'.pose.t > LastMove - QueueDepth
    <2>1. SUFFICES ASSUME mon.last # None PROVE cb'.pose.t > LastMove - QueueDepth
      OBVIOUS
    <2>2. LastMove <= time /\ LastMove \in Int
      BY <1>11, <2>1, KnownTyped DEF SightInv, MovesInv, Times
    <2>3. cb'.pose.t \in Int
      <3>1. cb'.pose = poses[1] /\ poses[1] \in Pose
        BY <1>1, <1>2, <1>3
      <3> QED
        BY <3>1 DEF Pose, Times
    <2> QED
      BY <1>2, <1>10, <2>2, <2>3, TimesAssumption
  <1> QED
    BY <1>1, <1>8, <1>9, <1>12 DEF SightInv, MovesInv, HoldInv, LastMove

(* A judgement of a pose. *)
LEMMA HoldJudged ==
    ASSUME EpisodeInv, SightInv, MaxPoseGap = 1, cb.at = "pose",
           NEW r, r = Observe(mon, cb.pose), mon' = r.mon, cb'.at # "pose",
           UNCHANGED <<engineVars, poses, reset, opens>>
    PROVE  /\ MovesInv' /\ KnownInv' /\ HoldInv'
           /\ r.verdict # None /\ r.verdict = "success" =>
                /\ cb.pose.since # None /\ cb.pose.t - cb.pose.since >= HoldS
                /\ HoldS >= QueueDepth => cb.pose.since >= LastMove
  <1> DEFINE pose == cb.pose
             was  == mon.last
             in   == mon'.inside
  <1> USE DEF EpisodeInv, OneVerdict
  <1>1. pose \in Pose /\ pose.t \in Times /\ pose.since \in Maybe(Times) /\ pose \in Known
    BY TypeParts DEF Known
  <1>2. mon \in Monitor /\ mon.inside \in Maybe(Times)
    BY DEF TypeOK, Monitor
  <1>3. /\ mon'.last \in {was, pose, None}
        /\ mon'.last \notin {was, None} => mon'.last.p # None
        /\ \/ mon' = mon /\ r.verdict = None
           \/ /\ in # None =>
                  /\ mon'.last = pose /\ was # None /\ pose.t = was.t + 1
                  /\ Dist(pose.p, was.p) <= MaxSpeed /\ pose.p \in Region
                  /\ in = IF mon.inside = None THEN pose.t ELSE mon.inside
              /\ r.verdict # None /\ r.verdict = "success" => in # None /\ pose.t - in >= HoldS
    BY <1>1, <1>2, ObserveHolds
  <1>4. UNCHANGED <<time, place, since, movedAt, poses, opens, reset>>
    BY DEF engineVars
  <1>5. \A x \in Known' : x \in Known
    BY <1>1, <1>3, <1>4 DEF Known
  <1>6. Moves' = Moves /\ LastMove' = LastMove
    BY <1>4 DEF Moves, LastMove
  <1>7. MovesInv' /\ KnownInv'
    BY <1>4, <1>5, <1>6, FewerKnown DEF SightInv, MovesInv, KnownInv
  <1>8. mon'.last # None => mon'.last.p # None
    BY <1>3 DEF SightInv, HoldInv
  <1>9. CASE mon' = mon /\ r.verdict = None
    BY <1>4, <1>6, <1>7, <1>8, <1>9 DEF SightInv, HoldInv
  <1>10. CASE in = None
    BY <1>3, <1>7, <1>8, <1>10 DEF HoldInv
  <1>11. CASE in # None /\ ~(mon' = mon /\ r.verdict = None)
    <2>1. /\ mon'.last = pose /\ was # None /\ pose.t = was.t + 1 /\ was \in Known
          /\ Dist(pose.p, was.p) <= MaxSpeed /\ pose.p \in Region
          /\ in = IF mon.inside = None THEN pose.t ELSE mon.inside
      BY <1>3, <1>11 DEF Known
    <2>2. pose.since # None /\ pose.since = IF was.since = None THEN pose.t ELSE was.since
      <3>1. Follows(was, pose)
        BY <1>1, <2>1 DEF SightInv, KnownInv
      <3>2. was.p # None
        BY <2>1 DEF SightInv, HoldInv
      <3> QED
        BY <2>1, <3>1, <3>2 DEF Follows
    <2>3. pose.since \in Times /\ pose.since <= pose.t /\ pose.since <= in /\ in \in Times
      <3>1. pose.since \in Times /\ pose.since <= pose.t
        BY <1>1, <2>2 DEF SightInv, KnownInv, Maybe
      <3>2. CASE mon.inside = None
        BY <1>1, <2>1, <3>1, <3>2
      <3>3. CASE mon.inside # None
        <4>1. was.since # None /\ was.since <= mon.inside
          BY <3>3 DEF SightInv, HoldInv
        <4> QED
          BY <1>2, <2>1, <2>2, <3>1, <3>3, <4>1 DEF Maybe
      <3> QED
        BY <3>2, <3>3
    <2>4. LastMove \in Moves /\ LastMove \in Int
      <3>1. opens # <<>>
        BY <2>1 DEF OpenInv, NoEpisode
      <3>2. LastMove \in Moves
        BY <3>1 DEF LastMove, Moves, TypeOK
      <3> QED
        BY <3>2, KnownTyped DEF Times
    <2>5. in > LastMove - QueueDepth
      BY <2>1 DEF SightInv, HoldInv
    <2>6. HoldInv'
      <3>1. mon'.last # None
        BY <1>1, <2>1, NoneAssumption
      <3> QED
        BY <1>6, <1>8, <2>1, <2>2, <2>3, <2>5, <3>1 DEF HoldInv
    <2>7. ASSUME r.verdict # None, r.verdict = "success"
          PROVE  /\ pose.t - pose.since >= HoldS
                 /\ HoldS >= QueueDepth => pose.since >= LastMove
      <3>1. pose.t - in >= HoldS
        BY <1>3, <1>11, <2>7
      <3>2. pose.t - pose.since >= HoldS
        BY <1>1, <2>3, <3>1, TimesAssumption DEF Times
      <3>3. ASSUME HoldS >= QueueDepth
            PROVE  pose.since >= LastMove
        <4>1. pose.t > LastMove
          BY <1>1, <2>3, <2>4, <2>5, <3>1, <3>3, TimesAssumption DEF Times
        <4>2. pose.since > LastMove
          BY <1>1, <2>2, <2>4, <4>1 DEF SightInv, KnownInv
        <4> QED
          BY <2>3, <2>4, <4>2 DEF Times
      <3> QED
        BY <3>2, <3>3
    <2> QED
      BY <1>7, <2>2, <2>6, <2>7
  <1> QED
    BY <1>3, <1>9, <1>10, <1>11

(* A new episode has seen no pose, and its move is the last there was. *)
LEMMA OpensUnseen ==
    ASSUME EpisodeInv, SightInv, NEW e \in Episode, e.moved = movedAt, opens' = Append(opens, e),
           mon'.last = None, mon'.inside = None,
           UNCHANGED <<time, place, since, movedAt, poses>>,
           cb'.at = "pose" => cb' = cb, reset'.at = "moving" => reset'.seed \in ResetSeeds
    PROVE  MovesInv' /\ KnownInv' /\ HoldInv'
  <1>1. /\ Len(opens') = Len(opens) + 1 /\ opens'[Len(opens')] = e
        /\ \A i \in 1..Len(opens) : opens'[i] = opens[i]
    <2>1. opens \in Seq(Episode)
      BY TypeParts DEF EpisodeInv, OneVerdict
    <2> QED
      BY <2>1, OpensKept
  <1>2. \A m \in Moves' : m \in Moves
    <2>1. Len(opens) \in Nat
      BY DEF EpisodeInv, OneVerdict, TypeOK
    <2>2. \A i \in 1..Len(opens') : opens'[i].moved = movedAt \/ i \in 1..Len(opens)
      BY <1>1, <2>1
    <2> QED
      BY <1>1, <2>2 DEF Moves
  <1>3. \A x \in Known' : x \in Known
    BY DEF Known
  <1>4. KnownInv'
    BY <1>2, <1>3, FewerKnown DEF SightInv, KnownInv
  <1> QED
    BY <1>2, <1>4 DEF SightInv, MovesInv, HoldInv

(* What is published stays earned while episodes open. *)
LEMMA EarnedKept ==
    ASSUME EpisodeInv, Earned, \A o \in Outs' : o \in Outs,
           \A i \in 1..Len(opens) : opens'[i] = opens[i]
    PROVE  Earned'
  BY DEF Earned, EpisodeInv, OneVerdict, OwnSeed

LEMMA HeldNext ==
    ASSUME MaxPoseGap = 1, HoldS >= QueueDepth, \A s \in ResetSeeds : SpawnAt[s] \notin Region
    PROVE  HeldInv /\ [Next]_vars => HeldInv'
  <1> SUFFICES ASSUME HeldInv, [Next]_vars PROVE HeldInv'
    OBVIOUS
  <1>t. TypeOK /\ EpisodeInv /\ EpisodeInv' /\ SightInv /\ Earned
    BY EpisodeNext DEF HeldInv, EpisodeInv, OneVerdict
  <1> SUFFICES MovesInv' /\ KnownInv' /\ HoldInv' /\ Earned'
    BY <1>t DEF HeldInv, SightInv
  <1>0. reset.at = "moving" => reset.seed \in ResetSeeds
    BY <1>t DEF SightInv, MovesInv
  <1>1. CASE EngineStep
    <2>1. \A o \in Outs' : o \in Outs
      BY <1>1 DEF EngineStep, Outs
    <2> QED
      BY <1>1, <1>t, <2>1, PoseShown, EarnedKept DEF EngineStep, nodeVars
  <1>2. CASE ClockArrives \/ ResetBegin \/ ResetAnswered \/ TickRead \/ Publish \/ UNCHANGED vars
    <2>1. UNCHANGED <<time, place, since, movedAt, poses, opens, mon>>
      BY <1>2 DEF ClockArrives, ResetBegin, ResetAnswered, TickRead, Publish, vars, engineVars, nodeVars
    <2>2. cb'.at = "pose" => cb' = cb
      BY <1>2 DEF ClockArrives, ResetBegin, ResetAnswered, TickRead, Publish, vars, Idle
    <2>3. reset'.at = "moving" => reset'.seed \in ResetSeeds
      BY <1>2, <1>0 DEF ClockArrives, ResetBegin, ResetAnswered, TickRead, Publish, vars
    <2>4. \A o \in Outs' : o \in Outs
      BY <1>2 DEF ClockArrives, ResetBegin, ResetAnswered, TickRead, Publish, vars, Idle, Outs
    <2> QED
      BY <1>t, <2>1, <2>2, <2>3, <2>4, NothingShown, EarnedKept
  <1>3. CASE ResetMoves
    <2>1. /\ UNCHANGED <<time, poses, cb, mon, opens, outcome>> /\ since' = None /\ movedAt' = time
          /\ reset.at = "moving" /\ reset' = [reset EXCEPT !.applied = TRUE] /\ place' = SpawnAt[reset.seed]
      BY <1>3 DEF ResetMoves, nodeVars
    <2>2. place' \notin Region
      BY <1>0, <2>1
    <2>3. reset'.seed \in ResetSeeds
      <3>1. reset \in [at: {"moving"}, seed: Seeds, applied: BOOLEAN]
        BY <1>t, <2>1, TypeParts DEF ResetType, Idle
      <3> QED
        BY <1>0, <2>1, <3>1
    <2>4. Known' = Known
      BY <2>1 DEF Known
    <2>5. \A m \in Moves' : m \in Moves \/ m = time
      BY <2>1 DEF Moves
    <2>6. time \in Int
      BY <1>t DEF TypeOK, Times
    <2>7. MovesInv'
      BY <1>t, <2>1, <2>3, <2>5, <2>6 DEF SightInv, MovesInv
    <2>8. \A x \in Known : x.t <= time /\ x.t \in Int
      BY <1>t, KnownTyped DEF SightInv, KnownInv, Times
    <2>9. KnownInv'
      BY <1>t, <2>1, <2>2, <2>4, <2>5, <2>6, <2>8 DEF SightInv, KnownInv
    <2>10. HoldInv'
      BY <1>t, <2>1 DEF SightInv, HoldInv, LastMove
    <2>11. \A o \in Outs' : o \in Outs
      BY <2>1 DEF Outs
    <2> QED
      BY <1>t, <2>1, <2>7, <2>9, <2>10, <2>11, EarnedKept
  <1>4. CASE PoseTake
    <2>1. \A o \in Outs' : o \in Outs
      BY <1>4 DEF PoseTake, Outs
    <2> QED
      BY <1>4, <1>t, <2>1, PoseTaken, EarnedKept DEF PoseTake, nodeVars
  <1>5. CASE TickOpen
    <2> DEFINE e == [seed |-> seed, at |-> cb.t, moved |-> movedAt]
    <2>1. e \in Episode /\ e.moved = movedAt /\ cb.t \in Times
      BY <1>5, <1>t, TypeParts DEF TickOpen, Episode, TypeOK
    <2>2. /\ opens' = Append(opens, e) /\ mon' = Opened(mon, cb.t)
          /\ UNCHANGED <<time, place, since, movedAt, poses, reset, outcome>> /\ cb' = Idle
      BY <1>5 DEF TickOpen, engineVars
    <2>3. mon'.last = None /\ mon'.inside = None
      BY <2>1, <2>2, OpenedFresh
    <2>4. cb'.at # "pose" /\ \A o \in Outs' : o \in Outs
      BY <2>2 DEF Outs, Idle
    <2> HIDE DEF e
    <2>5. \A i \in 1..Len(opens) : opens'[i] = opens[i]
      BY <1>t, <2>1, <2>2, TypeParts, OpensKept
    <2>6. MovesInv' /\ KnownInv' /\ HoldInv'
      BY <1>0, <1>t, <2>1, <2>2, <2>3, <2>4, OpensUnseen
    <2> QED
      BY <1>t, <2>4, <2>5, <2>6, EarnedKept
  <1>6. CASE TickJudge
    <2>1. UNCHANGED <<engineVars, poses, reset, opens, outcome>> /\ cb.at = "tick" /\ cb.t \in Times
      BY <1>6, <1>t, TypeParts DEF TickJudge
    <2>2. mon'.last = mon.last /\ mon'.inside = mon.inside /\ cb'.at # "pose"
          /\ (cb'.at = "publish" => ~cb'.out.success)
      <3>1. CASE resetting
        BY <1>6, <3>1 DEF TickJudge, Idle
      <3>2. CASE ~resetting
        <4>1. Verdict(Tick(mon, cb.t), cb.t, None)
          BY <1>6, <3>2 DEF TickJudge
        <4>2. /\ JudgedBy(mon, Tick(mon, cb.t)) /\ Tick(mon, cb.t).verdict \in {None, "failure"}
              /\ Running(mon) => /\ Tick(mon, cb.t).mon.inside = mon.inside
                                 /\ Tick(mon, cb.t).mon.last = mon.last
          BY <1>t, <2>1, TickJudges DEF TypeOK
        <4> QED
          BY <4>1, <4>2 DEF Verdict, JudgedBy, Idle
      <3> QED
        BY <3>1, <3>2
    <2>3. MovesInv' /\ KnownInv' /\ HoldInv'
      <3>1. \A x \in Known' : x \in Known
        BY <2>1, <2>2 DEF Known
      <3>2. Moves' = Moves
        BY <2>1 DEF Moves, engineVars
      <3>3. KnownInv'
        BY <1>t, <2>1, <3>1, <3>2, FewerKnown DEF SightInv, KnownInv, engineVars
      <3> QED
        BY <1>t, <2>1, <2>2, <3>2, <3>3 DEF SightInv, MovesInv, HoldInv, LastMove, engineVars
    <2>4. \A o \in Outs' : o \in Outs \/ ~o.success
      BY <2>1, <2>2 DEF Outs
    <2>5. Earned'
      BY <1>t, <2>1, <2>4 DEF Earned
    <2> QED
      BY <2>3, <2>5
  <1>7. CASE PoseJudge
    <2>1. UNCHANGED <<engineVars, poses, reset, opens, outcome>> /\ cb.at = "pose"
      BY <1>7 DEF PoseJudge
    <2>2. CASE resetting
      <3>1. mon' = mon /\ cb' = Idle
        BY <1>7, <2>2 DEF PoseJudge
      <3>2. cb'.at # "pose" /\ \A o \in Outs' : o \in Outs
        BY <2>1, <3>1 DEF Outs, Idle
      <3> QED
        BY <1>0, <1>t, <2>1, <3>1, <3>2, NothingShown, EarnedKept DEF engineVars
    <2>3. CASE ~resetting
      <3> DEFINE r == Observe(mon, cb.pose)
      <3>1. Verdict(r, cb.pose.t, cb.pose.since)
        BY <1>7, <2>3 DEF PoseJudge
      <3>2. mon' = r.mon /\ cb'.at # "pose"
        BY <3>1 DEF Verdict, Idle
      <3>3. JudgedBy(mon, r)
        BY <1>t, <2>1, TypeParts, ObserveJudges DEF TypeOK
      <3>4. /\ MovesInv' /\ KnownInv' /\ HoldInv'
            /\ r.verdict # None /\ r.verdict = "success" =>
                 /\ cb.pose.since # None /\ cb.pose.t - cb.pose.since >= HoldS
                 /\ cb.pose.since >= LastMove
        BY <1>t, <2>1, <3>2, HoldJudged
      <3> HIDE DEF r
      <3>5. \A o \in Outs' : \/ o \in Outs
                             \/ /\ r.verdict # None /\ (o.success => r.verdict = "success")
                                /\ o.t = cb.pose.t /\ o.since = cb.pose.since /\ o.episode = Len(opens)
        <4>1. r.verdict = None => \A o \in Outs' : o \in Outs
          BY <2>1, <3>1 DEF Verdict, Outs, Idle
        <4>2. r.verdict # None => /\ cb'.out.success <=> r.verdict = "success"
                                  /\ cb'.out.t = cb.pose.t /\ cb'.out.since = cb.pose.since
                                  /\ cb'.out.episode = Len(opens)
          BY <3>1 DEF Verdict
        <4>3. \A o \in Outs' : o \in Outs \/ o = cb'.out
          BY <2>1 DEF Outs
        <4> QED
          BY <4>1, <4>2, <4>3
      <3>6. Earned'
        <4>1. SUFFICES ASSUME NEW o \in Outs', o.success
                       PROVE  o.since # None /\ o.t - o.since >= HoldS /\ o.since >= opens[o.episode].moved
          BY <2>1 DEF Earned
        <4>2. CASE o \in Outs
          BY <1>t, <4>1, <4>2 DEF Earned
        <4>3. CASE o \notin Outs
          BY <3>4, <3>5, <4>1, <4>3 DEF LastMove
        <4> QED
          BY <4>2, <4>3
      <3> QED
        BY <3>4, <3>6
    <2> QED
      BY <2>2, <2>3
  <1>8. CASE ResetEnd
    <2>1. UNCHANGED <<time, place, since, movedAt, poses, cb, outcome>> /\ reset' = Idle
      BY <1>8 DEF ResetEnd, engineVars
    <2>2. \A o \in Outs' : o \in Outs
      BY <2>1 DEF Outs
    <2>3. CASE reset.ok
      <3> DEFINE e == [seed |-> reset.seed, at |-> time, moved |-> movedAt]
      <3>1. e \in Episode /\ e.moved = movedAt /\ clock \in Times
        BY <1>8, <1>t, TypeParts DEF ResetEnd, Episode, TypeOK
      <3>2. opens' = Append(opens, e) /\ mon' = Opened(mon, clock)
        BY <1>8, <2>3 DEF ResetEnd
      <3>3. mon'.last = None /\ mon'.inside = None
        BY <3>1, <3>2, OpenedFresh
      <3> HIDE DEF e
      <3>4. \A i \in 1..Len(opens) : opens'[i] = opens[i]
        BY <1>t, <3>1, <3>2, TypeParts, OpensKept
      <3>5. MovesInv' /\ KnownInv' /\ HoldInv'
        BY <1>t, <2>1, <3>1, <3>2, <3>3, OpensUnseen DEF Idle
      <3> QED
        BY <1>t, <2>2, <3>4, <3>5, EarnedKept
    <2>4. CASE ~reset.ok
      <3>1. UNCHANGED <<mon, opens>>
        BY <1>8, <2>4 DEF ResetEnd
      <3> QED
        BY <1>t, <2>1, <2>2, <3>1, NothingShown, EarnedKept DEF Idle
    <2> QED
      BY <2>3, <2>4
  <1> QED
    BY <1>1, <1>2, <1>3, <1>4, <1>5, <1>6, <1>7, <1>8 DEF Next, Callback, ResetServed

LEMMA HeldInit == Init => HeldInv
  <1> SUFFICES ASSUME Init PROVE HeldInv
    OBVIOUS
  <1>1. Outs = {} /\ Known = {}
    BY DEF Init, Outs, Known, Idle, NoEpisode
  <1>2. Moves = {0}
    BY DEF Init, Moves
  <1>3. MovesInv
    BY <1>2 DEF Init, MovesInv, Idle
  <1>4. KnownInv
    BY <1>1 DEF Init, KnownInv
  <1>5. HoldInv
    BY DEF Init, HoldInv, NoEpisode
  <1> QED
    BY <1>1, <1>3, <1>4, <1>5, EpisodeInit DEF HeldInv, SightInv, Earned

(* Where a step of time is the longest gap the monitor takes a speed over, a hold is
   no shorter than what the pose queue keeps, and resets put the object outside the
   region, a success is a hold the object really made, in its own episode and after
   the move that opened it, whatever poses are lost, late or not finite
   (scenario.py, EpisodeMonitor.observe). *)
THEOREM SuccessesAreHeld ==
    ASSUME MaxPoseGap = 1, HoldS >= QueueDepth, \A s \in ResetSeeds : SpawnAt[s] \notin Region
    PROVE  Spec => []Earned
  <1>1. HeldInv => Earned
    BY DEF HeldInv
  <1>2. HeldInv /\ [Next]_vars => HeldInv'
    BY HeldNext
  <1> QED
    BY HeldInit, <1>1, <1>2, PTL DEF Spec
=============================================================================
