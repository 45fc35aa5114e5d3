----------------------------- MODULE ScenarioNode -----------------------------
(***************************************************************************)
(* The scenario node (fm_sim_scenarios/scenario_node.py) and the episode    *)
(* monitor it judges with (scenario.py, EpisodeMonitor), for a scenario     *)
(* with a success predicate.                                               *)
(*                                                                         *)
(* Three things run beside each other: the default callback group (`cb`:    *)
(* one tick or one pose update at a time), the reset service (`reset`, one  *)
(* request at a time) and the engine, which moves the object, publishes its *)
(* pose and drives /clock.  The lock makes one judgement, and each end of a *)
(* reset, one step.                                                         *)
(*                                                                         *)
(* Time is sim time in steps of MAX_POSE_GAP_S: what an object does between *)
(* two poses of one gap is not seen.  A place is a point on a line, the     *)
(* region a set of places; opens, movedAt and the field `since` are         *)
(* history: what the object really did, for the properties.                 *)
(***************************************************************************)
EXTENDS Integers, Sequences

CONSTANTS
    None,
    Seeds, FirstSeed,    \* FirstSeed is the parameter `seed`
    ResetSeeds,          \* what a reset asks for
    Places, Region,      \* Region is grown by its tolerance
    SpawnAt,             \* where a seed puts the object
    HoldS, TimeoutS,     \* the predicate's hold_s and timeout_s
    MaxSpeed,            \* its max_speed
    MaxPoseGap,          \* MAX_POSE_GAP_S
    QueueDepth,          \* the pose subscription keeps this many
    MaxBoot, MaxLag,     \* bounds: how far /clock may lag before and after it first arrives
    MaxTime, MaxResets   \* bounds of the runs

ASSUME TimesAssumption ==
    /\ HoldS \in Nat /\ TimeoutS \in Nat \ {0} /\ MaxSpeed \in Nat
    /\ MaxPoseGap \in Nat \ {0} /\ QueueDepth \in Nat \ {0}
    /\ MaxBoot \in Nat /\ MaxLag \in Nat /\ MaxTime \in Nat /\ MaxResets \in Nat
ASSUME PlacesAssumption ==
    /\ Places \subseteq Nat /\ Region \subseteq Places
    /\ FirstSeed \in Seeds /\ ResetSeeds \subseteq Seeds /\ SpawnAt \in [Seeds -> Places]
    /\ None \notin Int /\ None \notin Seeds

VARIABLES
    time, clock,      \* the engine's sim time, and the node's
    place, since,     \* the object, and since when it really is at rest inside
    poses,            \* pose updates on their way to the node
    cb, reset,        \* control of the callback group and of the reset service
    mon,              \* EpisodeMonitor's fields
    seed, opened, resetting,  \* ScenarioNode's fields, guarded by its lock
    outcome,          \* what /sim/outcome latches
    opens,            \* the episodes opened so far
    movedAt           \* when a reset last put the object at a spawn

engineVars == <<time, clock, place, since, movedAt>>
nodeVars   == <<mon, seed, opened, resetting, opens>>
vars == <<engineVars, poses, cb, reset, nodeVars, outcome>>

Times   == 0..MaxTime
Maybe(S) == S \cup {None}
Pose    == [t: Times, p: Maybe(Places), since: Maybe(Times)]
Monitor == [start: Maybe(Times), inside: Maybe(Times), last: Maybe(Pose), done: BOOLEAN]
Outcome == [success: BOOLEAN, seed: Seeds, t: Times, episode: Nat, since: Maybe(Times)]
Idle    == [at |-> "idle"]
ASSUME NoneAssumption == None \notin Pose

TypeOK ==
    /\ time \in Times /\ clock \in 0..time
    /\ place \in Places /\ since \in Maybe(Times) /\ movedAt \in Times
    /\ poses \in Seq(Pose) /\ Len(poses) <= QueueDepth
    /\ cb \in {Idle} \cup [at: {"tick"}, t: Times] \cup [at: {"pose"}, pose: Pose]
               \cup [at: {"publish"}, out: Outcome]
    /\ reset \in {Idle} \cup [at: {"moving"}, seed: Seeds, applied: BOOLEAN]
                  \cup [at: {"moved"}, seed: Seeds, ok: BOOLEAN]
    /\ mon \in Monitor
    /\ seed \in Seeds /\ opened \in BOOLEAN /\ resetting \in BOOLEAN
    /\ outcome \in Maybe(Outcome)
    /\ opens \in Seq([seed: Seeds, at: Times, moved: Times])

NoEpisode == [start |-> None, inside |-> None, last |-> None, done |-> FALSE]

Init ==
    /\ time = 0 /\ clock = 0 /\ place = SpawnAt[FirstSeed] /\ since = None /\ movedAt = 0
    /\ poses = <<>> /\ cb = Idle /\ reset = Idle
    /\ mon = NoEpisode /\ seed = FirstSeed /\ opened = FALSE /\ resetting = FALSE
    /\ outcome = None /\ opens = <<>>

-----------------------------------------------------------------------------
(* EpisodeMonitor.  Its methods return the monitor after the call and the
   verdict: "success", "failure" or None.  "Mutant" marks the operator after it
   with a bug a change to the code could make. *)

(* Mutant: an episode that runs on after its verdict. *)
RunningOn(m) == m.start # None

Running(m) == m.start # None /\ ~m.done

(* Mutant: a reset that leaves the timeout running. *)
OpenedRunning(m, t) == [NoEpisode EXCEPT !.start = IF m.start = None THEN t ELSE m.start]

(* start: opens an episode. *)
Opened(m, t) == [NoEpisode EXCEPT !.start = t]

(* tick: the timeout. *)
Tick(m, t) ==
    IF Running(m) /\ t - m.start >= TimeoutS
    THEN [mon |-> [m EXCEPT !.done = TRUE], verdict |-> "failure"]
    ELSE [mon |-> m, verdict |-> None]

Dist(p, q) == IF p < q THEN q - p ELSE p - q

(* Mutant: a pose across a gap counts by its average speed. *)
AtRestAcross(m, pose) ==
    /\ m.last # None
    /\ pose.t > m.last.t
    /\ Dist(pose.p, m.last.p) <= MaxSpeed * (pose.t - m.last.t)

(* The finite difference to the previous fresh pose; none yet, a repeated or
   older stamp, or a gap long enough to hide a move is no speed. *)
AtRest(m, pose) ==
    /\ m.last # None
    /\ pose.t - m.last.t \in 1..MaxPoseGap
    /\ Dist(pose.p, m.last.p) <= MaxSpeed * (pose.t - m.last.t)

(* observe: the object's pose, or that it has no fresh one. *)
Observe(m, pose) ==
    IF ~Running(m) THEN [mon |-> m, verdict |-> None]
    ELSE IF pose.p = None
    THEN Tick([m EXCEPT !.last = None, !.inside = None], pose.t)
    ELSE LET in == AtRest(m, pose) /\ pose.p \in Region
             n  == [m EXCEPT !.last = pose,
                             !.inside = IF ~in THEN None ELSE IF @ = None THEN pose.t ELSE @]
         IN IF in /\ pose.t - n.inside >= HoldS
            THEN [mon |-> [n EXCEPT !.done = TRUE], verdict |-> "success"]
            ELSE Tick(n, pose.t)

-----------------------------------------------------------------------------
(* The engine, and what reaches the node of it. *)

(* The object moves, or does not, and its pose is published: fresh, or not
   finite.  A full subscription loses its oldest.  What a reset has just put
   down stays there for the next pose. *)
DeliveredAll(pose) == poses' = Append(poses, pose)   \* Mutant: none is dropped.

Delivered(pose) ==
    LET q == Append(poses, pose)
    IN poses' = IF Len(q) > QueueDepth THEN Tail(q) ELSE q

EngineStep ==
    /\ time < MaxTime /\ time - clock < IF clock = 0 THEN MaxBoot ELSE MaxLag
    /\ time' = time + 1
    /\ place' \in IF movedAt = time THEN {place} ELSE Places
    /\ since' = IF place' \notin Region \/ Dist(place, place') > MaxSpeed THEN None
                ELSE IF since = None THEN time' ELSE since
    /\ \E p \in {place', None} : Delivered([t |-> time', p |-> p, since |-> since'])
    /\ UNCHANGED <<clock, movedAt, cb, reset, nodeVars, outcome>>

ClockArrives ==
    /\ clock < time
    /\ clock' = time
    /\ UNCHANGED <<time, place, since, movedAt, poses, cb, reset, nodeVars, outcome>>

-----------------------------------------------------------------------------
(* The default callback group: _on_tick and _on_poses. *)

(* _on_tick reads the clock before it takes the lock. *)
TickRead ==
    /\ cb = Idle
    /\ cb' = [at |-> "tick", t |-> clock]
    /\ UNCHANGED <<engineVars, poses, reset, nodeVars, outcome>>

PoseTake ==
    /\ cb = Idle /\ poses # <<>>
    /\ cb' = [at |-> "pose", pose |-> Head(poses)]
    /\ poses' = Tail(poses)
    /\ UNCHANGED <<engineVars, reset, nodeVars, outcome>>

(* The verdict and the seed are taken under the lock, and published outside. *)
Verdict(r, t, s) ==
    /\ mon' = r.mon
    /\ cb' = IF r.verdict = None THEN Idle
             ELSE [at |-> "publish",
                   out |-> [success |-> r.verdict = "success", seed |-> seed, t |-> t,
                            episode |-> Len(opens), since |-> s]]

(* The first episode opens with the sim clock. *)
TickOpen ==
    /\ cb.at = "tick" /\ ~opened /\ cb.t > 0
    /\ opened' = TRUE
    /\ mon' = Opened(mon, cb.t)
    /\ opens' = Append(opens, [seed |-> seed, at |-> cb.t, moved |-> movedAt])
    /\ cb' = Idle
    /\ UNCHANGED <<engineVars, poses, reset, seed, resetting, outcome>>

TickJudge ==
    /\ cb.at = "tick" /\ (opened \/ cb.t = 0)
    /\ IF resetting THEN cb' = Idle /\ UNCHANGED mon
       ELSE Verdict(Tick(mon, cb.t), cb.t, None)
    /\ UNCHANGED <<engineVars, poses, reset, seed, opened, resetting, opens, outcome>>

PoseJudge ==
    /\ cb.at = "pose"
    /\ IF resetting THEN cb' = Idle /\ UNCHANGED mon
       ELSE Verdict(Observe(mon, cb.pose), cb.pose.t, cb.pose.since)
    /\ UNCHANGED <<engineVars, poses, reset, seed, opened, resetting, opens, outcome>>

(* Mutant: the seed read when the outcome is published. *)
PublishUnderSeed ==
    /\ cb.at = "publish"
    /\ outcome' = [cb.out EXCEPT !.seed = seed]
    /\ cb' = Idle
    /\ UNCHANGED <<engineVars, poses, reset, nodeVars>>

Publish ==
    /\ cb.at = "publish"
    /\ outcome' = cb.out
    /\ cb' = Idle
    /\ UNCHANGED <<engineVars, poses, reset, nodeVars>>

-----------------------------------------------------------------------------
(* /sim/reset. *)

(* The old episode stops judging while objects move. *)
ResetBegin ==
    /\ reset = Idle
    /\ Len(opens) <= MaxResets
    /\ \E s \in ResetSeeds : reset' = [at |-> "moving", seed |-> s, applied |-> FALSE]
    /\ resetting' = TRUE
    /\ UNCHANGED <<engineVars, poses, cb, mon, seed, opened, opens, outcome>>

(* The engine moves the object to its spawn, at rest. *)
ResetMoves ==
    /\ reset.at = "moving" /\ ~reset.applied
    /\ reset' = [reset EXCEPT !.applied = TRUE]
    /\ place' = SpawnAt[reset.seed] /\ since' = None /\ movedAt' = time
    /\ UNCHANGED <<time, clock, poses, cb, nodeVars, outcome>>

(* move returns: done, refused, or not answered in time (moved or not). *)
ResetAnswered ==
    /\ reset.at = "moving"
    /\ \E ok \in {reset.applied, FALSE} :
         reset' = [at |-> "moved", seed |-> reset.seed, ok |-> ok]
    /\ UNCHANGED <<engineVars, poses, cb, nodeVars, outcome>>

(* Mutant: judging taken up again only when the objects moved. *)
ResetEndStuck ==
    /\ reset.at = "moved"
    /\ reset' = Idle
    /\ IF reset.ok
       THEN /\ resetting' = FALSE
            /\ seed' = reset.seed /\ mon' = Opened(mon, clock) /\ opened' = TRUE
            /\ opens' = Append(opens, [seed |-> reset.seed, at |-> time, moved |-> movedAt])
       ELSE UNCHANGED nodeVars
    /\ UNCHANGED <<engineVars, poses, cb, outcome>>

(* A refused reset keeps the old seed and the old episode. *)
ResetEnd ==
    /\ reset.at = "moved"
    /\ reset' = Idle
    /\ resetting' = FALSE
    /\ IF reset.ok
       THEN /\ seed' = reset.seed /\ mon' = Opened(mon, clock) /\ opened' = TRUE
            /\ opens' = Append(opens, [seed |-> reset.seed, at |-> time, moved |-> movedAt])
       ELSE UNCHANGED <<seed, mon, opened, opens>>
    /\ UNCHANGED <<engineVars, poses, cb, outcome>>

-----------------------------------------------------------------------------
Callback == TickRead \/ PoseTake \/ TickOpen \/ TickJudge \/ PoseJudge \/ Publish
ResetServed == ResetMoves \/ ResetAnswered \/ ResetEnd

Next == EngineStep \/ ClockArrives \/ Callback \/ ResetBegin \/ ResetServed

Spec == Init /\ [][Next]_vars

(* Callbacks run and a move gives up after MOVE_TIMEOUT_S; the engine may stop. *)
LiveSpec == Spec /\ WF_vars(Callback) /\ WF_vars(ResetServed) /\ WF_vars(ClockArrives)

-----------------------------------------------------------------------------
(* Properties. *)

Outs == (IF outcome = None THEN {} ELSE {outcome})
          \cup (IF cb.at = "publish" THEN {cb.out} ELSE {})

(* "one per episode": no episode has a second verdict, and what is latched is
   never replaced by an earlier episode's. *)
OncePerEpisode ==
    cb.at = "publish" /\ outcome # None => outcome.episode < cb.out.episode

(* An outcome names the seed of the episode it judged, whatever reset comes
   between the judgement and its publication. *)
OwnSeed == \A o \in Outs : o.episode \in 1..Len(opens) /\ o.seed = opens[o.episode].seed

(* "the object's origin stays inside the region ... for hold_s seconds, and with
   max_speed set moves no faster than it": a success is a hold the object really
   made, in its own episode and not before the reset that opened it, whatever
   poses were lost, late or not finite. *)
Earned ==
    \A o \in Outs : o.success =>
        o.since # None /\ o.t - o.since >= HoldS /\ o.since >= opens[o.episode].moved

(* "the episode fails at timeout_s": a failure comes no earlier than its own
   episode's timeout, up to the clock's lag. *)
TimeoutKept ==
    \A o \in Outs : ~o.success => o.t - opens[o.episode].at >= TimeoutS - MaxLag

(* An episode past its timeout is judged, and its outcome latched, unless a
   reset is in hand: one that was refused leaves it judged as before. *)
Judged ==
    (Running(mon) /\ clock - mon.start >= TimeoutS)
      ~> (reset # Idle \/ (outcome # None /\ outcome.episode = Len(opens)))

(* One verdict per episode, and it is that episode's: the types, and the two
   parts above. *)
OneVerdict == TypeOK /\ OncePerEpisode /\ OwnSeed
=============================================================================
