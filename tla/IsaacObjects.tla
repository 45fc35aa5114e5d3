----------------------------- MODULE IsaacObjects -----------------------------
(***************************************************************************)
(* The scenario node's Isaac Sim backend (fm_sim_scenarios/isaac_objects.py) *)
(* and the stage runner it talks to (fm_sim_backends/isaac/fm_sim_isaac.py). *)
(*                                                                         *)
(* The runner checks its assets, starts the app, builds the stage, listens,  *)
(* plays, marks itself ready, and then takes one command a step.  A move     *)
(* waits for the runner to listen, publishes, and counts as done when a pose *)
(* update stamped after the command shows every object at its target.        *)
(* A place stands for a pose up to POSITION_TOLERANCE_M; `sent` and `there`   *)
(* are history: when the last command was published, and whether all were at  *)
(* their targets in a step since.                                          *)
(***************************************************************************)
EXTENDS Integers, Sequences, FiniteSets

CONSTANTS
    None,
    Objects,           \* what a move sends: the scenario's free objects
    Free,              \* the rigid bodies of the stage
    Places, Workspace, \* object_workspace
    FirstPlace,
    Assets,            \* the usd files the spec names
    QueueDepth,        \* the subscriptions keep this many
    MaxTime, MaxMoves, MaxPushes  \* bounds of the runs

IsaacAssumption ==
    /\ Workspace \subseteq Places /\ FirstPlace \in [Objects -> Places]
    /\ None \notin Places \cup {"moved", "failed"}
    /\ QueueDepth \in Nat \ {0} /\ MaxTime \in Nat /\ MaxMoves \in Nat /\ MaxPushes \in Nat

VARIABLES
    time,            \* sim time, and the node's
    here,            \* the assets directory's files
    place,           \* the bodies on the stage
    stage,           \* the runner: its stage, whether it listens, is marked ready, has the app open
    commands,        \* commands on their way to the runner
    air,             \* pose updates on their way to the node
    latest,          \* _latest and _latest_ns
    move,            \* control and locals of move()
    moves, pushes, sent, there

stageVars == <<time, here, place, stage, commands, pushes, there>>
nodeVars  == <<latest, move, moves, sent>>
vars == <<stageVars, air, nodeVars>>

MoveTargets == [Objects -> Places]
Idle    == [at |-> "idle", told |-> None]
Update  == [t: 0..MaxTime, p: [Objects -> Places]]

TypeOK ==
    /\ time \in 0..MaxTime /\ here \subseteq Assets /\ place \in [Objects -> Places]
    /\ stage \in [at: {"off", "building", "built", "playing", "ended"},
                  listens: BOOLEAN, ready: BOOLEAN, app: BOOLEAN, error: BOOLEAN]
    /\ commands \in Seq(MoveTargets) /\ Len(commands) <= QueueDepth
    /\ air \in Seq(Update) /\ Len(air) <= QueueDepth
    /\ latest \in Update \cup {None}
    /\ move.at \in {"idle", "listener", "reaching"} /\ move.told \in {None, "moved", "failed"}
    /\ moves \in 0..MaxMoves /\ pushes \in 0..MaxPushes
    /\ sent \in 0..MaxTime /\ there \in BOOLEAN

Init ==
    /\ time = 0 /\ here \in SUBSET Assets /\ place = FirstPlace /\ pushes = 0
    /\ stage = [at |-> "off", listens |-> FALSE, ready |-> FALSE, app |-> FALSE, error |-> FALSE]
    /\ commands = <<>> /\ air = <<>> /\ latest = None
    /\ move = Idle /\ moves = 0 /\ sent = 0 /\ there = FALSE

(* Mutant: a subscription that keeps every message. *)
KeptAll(q) == q

(* A full subscription loses its oldest. *)
Kept(q) == IF Len(q) > QueueDepth THEN Tail(q) ELSE q

-----------------------------------------------------------------------------
(* run(), in fm_sim_isaac.py. *)

(* Mutant: ready as soon as the app is up. *)
StartReady ==
    /\ stage.at = "off"
    /\ stage' = IF Assets \subseteq here
                THEN [stage EXCEPT !.at = "building", !.app = TRUE, !.ready = TRUE]
                ELSE [stage EXCEPT !.at = "ended", !.error = TRUE]
    /\ UNCHANGED <<time, here, place, commands, pushes, there, air, nodeVars>>

(* Mutant: the assets are looked for once the app is up. *)
StartBlind ==
    /\ stage.at = "off"
    /\ stage' = [stage EXCEPT !.at = "building", !.app = TRUE]
    /\ UNCHANGED <<time, here, place, commands, pushes, there, air, nodeVars>>

(* usd_path refuses a missing asset before the app starts. *)
Start ==
    /\ stage.at = "off"
    /\ stage' = IF Assets \subseteq here THEN [stage EXCEPT !.at = "building", !.app = TRUE]
                ELSE [stage EXCEPT !.at = "ended", !.error = TRUE]
    /\ UNCHANGED <<time, here, place, commands, pushes, there, air, nodeVars>>

(* The world, robot, objects, cameras and graph; the reset; the listener. *)
Listen ==
    /\ stage.at = "building"
    /\ Assets \subseteq here
    /\ stage' = [stage EXCEPT !.at = "built", !.listens = TRUE]
    /\ UNCHANGED <<time, here, place, commands, pushes, there, air, nodeVars>>

(* world.play, _mark_ready. *)
Play ==
    /\ stage.at = "built"
    /\ stage' = [stage EXCEPT !.at = "playing", !.ready = TRUE]
    /\ UNCHANGED <<time, here, place, commands, pushes, there, air, nodeVars>>

(* A step of the build or the loop raises, or the app is closed; the listener is
   closed if it was opened, and the app always. *)
End ==
    /\ stage.app
    /\ \E error \in BOOLEAN :
         /\ ~error => stage.at = "playing"
         /\ stage' = [stage EXCEPT !.at = "ended", !.listens = FALSE, !.app = FALSE, !.error = error]
    /\ commands' = <<>>
    /\ UNCHANGED <<time, here, place, pushes, there, air, nodeVars>>

(* object_commands: a free object, inside the workspace. *)
Allowed(cmd) == {o \in Objects : o \in Free /\ cmd[o] \in Workspace}

(* The loop's step: spin_once takes one command or, though one waits, none;
   _teleport moves each body at rest, or logs that it could not; the world steps,
   may have an object pushed, and its graph publishes every pose. *)
Step ==
    /\ stage.at = "playing" /\ time < MaxTime
    /\ moves < MaxMoves \/ move.at # "idle"
    /\ time' = time + 1
    /\ \E taken \in {None} \cup {commands[i] : i \in 1..Len(commands) \cap {1}},
          stuck \in {None} \cup Objects, pushed \in {None} \cup Objects :
         LET moved == IF taken = None THEN {} ELSE Allowed(taken) \ {stuck}
         IN /\ commands' = IF taken = None THEN commands ELSE Tail(commands)
            /\ stuck # None => taken # None
            /\ pushed # None => pushes < MaxPushes /\ pushed \notin moved
            /\ pushes' = IF pushed = None THEN pushes ELSE pushes + 1
            /\ place' \in [Objects -> Places]
            /\ \A o \in Objects \ {pushed} :
                 place'[o] = IF o \in moved THEN taken[o] ELSE place[o]
    /\ there' = (there \/ (move.at = "reaching" /\ place' = move.targets))
    /\ air' = Kept(Append(air, [t |-> time', p |-> place']))
    /\ UNCHANGED <<here, stage, nodeVars>>

-----------------------------------------------------------------------------
(* isaac_objects.py. *)

(* _poses: a message replaces every pose.  One in another frame is lost. *)
Poses ==
    /\ air # <<>>
    /\ air' = Tail(air)
    /\ latest' \in {latest, Head(air)}
    /\ UNCHANGED <<stageVars, move, moves, sent>>

(* Mutant: any pose update counts, whatever its stamp. *)
ReachedAny(targets) == latest # None /\ latest.p = targets

(* Mutant: one stamped with the command's own time counts. *)
ReachedAt(targets) == latest # None /\ latest.t >= sent /\ latest.p = targets

Reached(targets) == latest # None /\ latest.t > sent /\ latest.p = targets

Ask ==
    /\ move.at = "idle" /\ moves < MaxMoves
    /\ \E targets \in MoveTargets : move' = [at |-> "listener", told |-> None, targets |-> targets]
    /\ moves' = moves + 1
    /\ UNCHANGED <<stageVars, air, latest, sent>>

(* _wait_for_listener gives up. *)
NoListener ==
    /\ move.at = "listener" /\ ~stage.listens
    /\ move' = [Idle EXCEPT !.told = "failed"]
    /\ UNCHANGED <<stageVars, air, latest, moves, sent>>

Publish ==
    /\ move.at = "listener" /\ stage.listens
    /\ move' = [move EXCEPT !.at = "reaching"]
    /\ sent' = time /\ there' = FALSE
    /\ commands' = Kept(Append(commands, move.targets))
    /\ UNCHANGED <<time, here, place, stage, pushes, air, latest, moves>>

(* Done when reached, or given up at the deadline. *)
Polled ==
    /\ move.at = "reaching"
    /\ move' = [move EXCEPT !.at = "idle", !.told = IF Reached(move.targets) THEN "moved" ELSE "failed"]
    /\ UNCHANGED <<stageVars, air, latest, moves, sent>>

-----------------------------------------------------------------------------
Runner == Start \/ Listen \/ Play \/ End \/ Step
Mover  == Ask \/ NoListener \/ Publish \/ Polled

Next == Runner \/ Poses \/ Mover

Spec == Init /\ [][Next]_vars

-----------------------------------------------------------------------------
(* Properties. *)

(* "a pose update stamped strictly after the command puts every object within
   POSITION_TOLERANCE_M of its target": a move told done saw every object at its
   target in a step after its command, however late the poses. *)
ReallyThere == move.told = "moved" => there

(* "Before publishing, a move waits ... for the stage runner to subscribe": a
   move told done was not published to nobody; a ready stage listens. *)
ReadyListens == stage.ready /\ stage.app => stage.listens /\ Assets \subseteq here

(* A missing asset is found before the app starts, and the app never outlives
   the runner. *)
AppClosed == (stage.app => Assets \subseteq here) /\ (stage.at = "ended" => ~stage.app)
=============================================================================
