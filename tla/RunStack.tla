------------------------------ MODULE RunStack ------------------------------
(***************************************************************************)
(* The containers of one run (runner.py, isaac.py): the run itself, in it    *)
(* run.launch.py, and beside it Isaac Sim and the bridge where they are      *)
(* wanted.  SimAgent takes them as one container; this is what is inside     *)
(* its steps.                                                              *)
(*                                                                         *)
(* start() and stop() may run at once: a down that comes before docker run   *)
(* has begun stops the run itself (`fin`), one that comes later leaves it    *)
(* to the worker inside start() (`late`), which stops an overtaken run in    *)
(* either case (agent.py: _start_container).                               *)
(***************************************************************************)
EXTENDS FiniteSets

VARIABLES
    wants,     \* constant: the sidecars of the run
    hasRoles,  \* constant: the controller has launch roles
    start,     \* where start() is
    stop,      \* where each caller of stop() is
    box,       \* each container
    stuck,     \* those the last docker rm did not remove
    marked,    \* the run is in _isaac_runs
    ours,      \* no down, and nothing of the run's own, has ended it
    told,      \* bring-up was told every broadcaster is active
    launch,    \* run.launch.py
    world,     \* its world directory
    writing,   \* its stage.json: "no", "began" or "done"
    spawner,   \* the active controllers' spawner
    roles,     \* the launch roles are up
    isaac,     \* the script in Isaac Sim's container, and then the stage runner
    ready,     \* isaac.ready is there
    logs,      \* the log stream
    waiter     \* _end_with_isaac

startVars  == <<start, marked>>
stopVars   == <<stop, stuck, ours>>
launchVars == <<launch, world, writing, spawner, roles>>
isaacVars  == <<isaac, ready>>
watchVars  == <<logs, waiter, told>>
vars == <<wants, hasRoles, startVars, stopVars, box, launchVars, isaacVars, watchVars>>

Sidecars == {"isaac", "bridge"}
Boxes    == Sidecars \cup {"run"}
Stoppers == {"fin", "late"}
InDocker == {"prepare", "run", "mark", "isaac", "bridge", "returned", "failed"}
StopPc   == {"idle", "discard", "bridge", "isaac", "run", "ended"}

TypeOK ==
    /\ wants \subseteq Sidecars /\ hasRoles \in BOOLEAN
    /\ start \in {"new", "started", "raised"} \cup InDocker
    /\ stop \in [Stoppers -> StopPc]
    /\ box \in [Boxes -> {"none", "up", "exited", "gone"}] /\ stuck \subseteq Boxes
    /\ marked \in BOOLEAN /\ ours \in BOOLEAN /\ told \in BOOLEAN
    /\ launch \in {"off", "setup", "building", "up", "over", "killed"}
    /\ world \in {"none", "made", "removed"} /\ writing \in {"no", "began", "done"}
    /\ spawner \in {"waiting", "active", "failed"} /\ roles \in BOOLEAN
    /\ isaac \in {"off", "waiting", "loading", "playing", "broken", "over"} /\ ready \in BOOLEAN
    /\ logs \in {"off", "following", "ended"} /\ waiter \in {"off", "waiting", "woken", "done"}

Init ==
    /\ wants \in SUBSET Sidecars /\ hasRoles \in BOOLEAN
    /\ start = "new" /\ stop = [s \in Stoppers |-> "idle"]
    /\ box = [b \in Boxes |-> "none"] /\ stuck = {}
    /\ marked = FALSE /\ ours = TRUE /\ told = FALSE
    /\ launch = "off" /\ world = "none" /\ writing = "no" /\ spawner = "waiting" /\ roles = FALSE
    /\ isaac = "off" /\ ready = FALSE /\ logs = "off" /\ waiter = "off"

-----------------------------------------------------------------------------
(* start().  "Mutant" marks the operator after it with a bug a change to the
   code could make. *)

EnterDockerRun ==
    /\ start = "new" /\ start' = "prepare"
    /\ UNCHANGED <<wants, hasRoles, marked, stopVars, box, launchVars, isaacVars, watchVars>>

(* The trees to mount, Isaac's stage and its caches pass their checks or not. *)
Prepare ==
    /\ start = "prepare" /\ start' \in {"run", "failed"}
    /\ UNCHANGED <<wants, hasRoles, marked, stopVars, box, launchVars, isaacVars, watchVars>>

AfterIsaac == IF "bridge" \in wants THEN "bridge" ELSE "returned"
AfterRun   == IF "isaac" \in wants THEN "mark" ELSE AfterIsaac

(* docker run makes the container and says so; or it fails, and may have made
   it.  The bridge joins the run's network; Isaac Sim may be on the host's. *)
DockerRun(b, then) ==
    /\ start = b
    /\ \E made \in BOOLEAN :
         /\ made /\ b = "bridge" => box["run"] = "up"
         /\ box' = IF made THEN [box EXCEPT ![b] = "up"] ELSE box
         /\ start' \in IF made THEN {then, "failed"} ELSE {"failed"}
    /\ launch' = IF b = "run" /\ box'[b] = "up" THEN "setup" ELSE launch
    /\ isaac' = IF b = "isaac" /\ box'[b] = "up" THEN "waiting" ELSE isaac
    /\ UNCHANGED <<wants, hasRoles, marked, stopVars, world, writing, spawner, roles, ready, watchVars>>

StartRun    == DockerRun("run", AfterRun)
StartIsaac  == DockerRun("isaac", AfterIsaac)
StartBridge == DockerRun("bridge", "returned")

Mark ==
    /\ start = "mark" /\ start' = "isaac" /\ marked' = TRUE
    /\ UNCHANGED <<wants, hasRoles, stopVars, box, launchVars, isaacVars, watchVars>>

(* However start() ends, a run that is no longer starting is stopped here. *)
LeaveDockerRun ==
    /\ start \in {"returned", "failed"}
    /\ start' = IF start = "returned" THEN "started" ELSE "raised"
    /\ stop' = IF ours THEN stop ELSE [stop EXCEPT !["late"] = "discard"]
    /\ UNCHANGED <<wants, hasRoles, marked, stuck, ours, box, launchVars, isaacVars, watchVars>>

-----------------------------------------------------------------------------
(* stop(). *)

(* A down, the time limit, or the run's own failure; inside docker run the
   finaliser leaves the stop to the worker. *)
Down ==
    /\ ours /\ ours' = FALSE
    /\ stop' = IF start \in InDocker THEN stop ELSE [stop EXCEPT !["fin"] = "discard"]
    /\ UNCHANGED <<wants, hasRoles, startVars, stuck, box, launchVars, isaacVars, watchVars>>

Discard(s) ==
    /\ stop[s] = "discard" /\ stop' = [stop EXCEPT ![s] = "bridge"]
    /\ marked' = FALSE
    /\ UNCHANGED <<wants, hasRoles, start, stuck, ours, box, launchVars, isaacVars, watchVars>>

(* launch gets docker stop's signal and shuts down, or is killed when it does
   not in time; rm --force kills it, too. *)
Shutdown(l, w) ==
    IF l \in {"off", "over", "killed"} THEN {<<l, w>>}
    ELSE {<<"killed", w>>} \cup (IF w = "made" THEN {<<"over", "removed">>} ELSE {<<"over", w>>})

(* docker stop and docker rm: one that is not there is no failure. *)
Remove(s, b) ==
    \/ /\ box[b] # "none" /\ stuck' = stuck \cup {b} /\ UNCHANGED <<box, launch, world, isaac>>
    \/ /\ stuck' = stuck \ {b}
       /\ box' = IF box[b] = "none" THEN box ELSE [box EXCEPT ![b] = "gone"]
       /\ \E end \in Shutdown(launch, world) :
            IF b = "run" THEN launch' = end[1] /\ world' = end[2] ELSE UNCHANGED <<launch, world>>
       /\ isaac' = IF b = "isaac" /\ isaac # "off" THEN "over" ELSE isaac

(* Mutant: the Isaac Sim of a run that is not in _isaac_runs is left alone. *)
HasIsaacIfMarked == marked
HasIsaac         == TRUE

(* A sidecar that will not go does not keep the run up. *)
Step(s, b, then) ==
    /\ stop[s] = b
    /\ IF b = "isaac" /\ ~HasIsaac
       THEN stop' = [stop EXCEPT ![s] = then] /\ UNCHANGED <<stuck, box, launch, world, isaac>>
       ELSE /\ Remove(s, b)
            /\ stop' = [stop EXCEPT ![s] = then]
    /\ UNCHANGED <<wants, hasRoles, startVars, ours, writing, spawner, roles, ready, watchVars>>

StopBridge(s) == Step(s, "bridge", "isaac")
StopIsaac(s)  == Step(s, "isaac", "run")
StopRun(s)    == Step(s, "run", "ended")

-----------------------------------------------------------------------------
(* run.launch.py, as the run's container. *)

LaunchStep ==
    /\ box["run"] = "up"
    /\ UNCHANGED <<wants, hasRoles, startVars, stopVars, isaacVars, watchVars>>

(* launch ends: on a failure, an engine that exits, or Shutdown. *)
LaunchEnds(w) ==
    /\ launch' = "over" /\ world' = w
    /\ box' = [box EXCEPT !["run"] = "exited"] /\ UNCHANGED <<writing, spawner, roles>>

(* What is judged first fails the launch before there is a world. *)
LaunchChecks ==
    /\ LaunchStep /\ launch = "setup"
    /\ \/ launch' = "building" /\ world' = "made" /\ UNCHANGED <<box, writing, spawner, roles>>
       \/ LaunchEnds(world)

(* Mutant: what fails before the handler is registered removes nothing. *)
CleanUpNot == world
CleanUp    == "removed"

LaunchBuilds ==
    /\ LaunchStep /\ launch = "building"
    /\ \/ launch' = "up" /\ UNCHANGED <<box, world, writing, spawner, roles>>
       \/ LaunchEnds(CleanUp)

(* isaac.launch.py writes the stage: a partial file, then os.replace. *)
WriteStage ==
    /\ LaunchStep /\ launch = "up" /\ "isaac" \in wants
    /\ \/ writing = "no" /\ writing' = "began"
       \/ writing = "began" /\ writing' = "done"
    /\ UNCHANGED <<box, launch, world, spawner, roles>>

SpawnerEnds ==
    /\ LaunchStep /\ launch = "up" /\ spawner = "waiting"
    /\ spawner' \in {"active", "failed"}
    /\ UNCHANGED <<box, launch, world, writing, roles>>

(* _after_active: there is a handler only where there are roles to start. *)
AfterActive ==
    /\ LaunchStep /\ launch = "up" /\ hasRoles /\ ~roles
    /\ \/ spawner = "active" /\ roles' = TRUE /\ UNCHANGED <<box, launch, world, writing, spawner>>
       \/ spawner = "failed" /\ LaunchEnds("removed")

LaunchExits == LaunchStep /\ launch = "up" /\ LaunchEnds("removed")

-----------------------------------------------------------------------------
(* Isaac Sim's container. *)

(* Mutant: the stage is written where it is read. *)
StageFileInPlace == CASE writing = "no" -> "none" [] writing = "began" -> "partial" [] OTHER -> "whole"
StageFile        == IF writing = "done" THEN "whole" ELSE "none"

IsaacStep ==
    /\ box["isaac"] = "up"
    /\ UNCHANGED <<wants, hasRoles, startVars, stopVars, launchVars, watchVars>>

(* SCRIPT: the stage is found, unless launch has removed its directory. *)
FindStage ==
    /\ IsaacStep /\ isaac = "waiting" /\ StageFile # "none" /\ world # "removed"
    /\ isaac' = IF StageFile = "whole" THEN "loading" ELSE "broken"
    /\ UNCHANGED <<box, ready>>

(* The world plays, and then isaac.ready says so. *)
Play ==
    /\ IsaacStep /\ isaac \in {"loading", "playing"} /\ ~ready
    /\ isaac' = "playing" /\ ready' = (isaac = "playing") /\ UNCHANGED box

(* No stage in STAGE_WAIT_S, or the stage runner ends. *)
IsaacExits ==
    /\ IsaacStep /\ isaac # "off"
    /\ isaac' = IF isaac = "broken" THEN isaac ELSE "over"
    /\ box' = [box EXCEPT !["isaac"] = "exited"] /\ UNCHANGED ready

BridgeExits ==
    /\ box["bridge"] = "up" /\ box' = [box EXCEPT !["bridge"] = "exited"]
    /\ UNCHANGED <<wants, hasRoles, startVars, stopVars, launchVars, isaacVars, watchVars>>

-----------------------------------------------------------------------------
(* What the agent sees of it: the log stream and the poll of bring-up. *)

WatchStep == UNCHANGED <<wants, hasRoles, startVars, stopVars, box, launchVars, isaacVars>>

Follow ==
    /\ WatchStep /\ start = "started" /\ stop["late"] = "idle" /\ logs = "off"
    /\ logs' = "following" /\ waiter' = IF marked THEN "waiting" ELSE "off"
    /\ UNCHANGED told

RunEnds ==
    /\ WatchStep /\ logs = "following" /\ box["run"] # "up"
    /\ logs' = "ended" /\ UNCHANGED <<waiter, told>>

(* docker wait returns for a container that is not up. *)
Wake ==
    /\ WatchStep /\ waiter = "waiting" /\ box["isaac"] # "up"
    /\ waiter' = "woken" /\ UNCHANGED <<logs, told>>

(* Mutant: a stage that never played ends nothing. *)
EndsStreamIfPlayed == logs = "following" /\ marked /\ ready
EndsStream         == logs = "following" /\ marked

EndWithIsaac ==
    /\ WatchStep /\ waiter = "woken" /\ waiter' = "done"
    /\ logs' = IF EndsStream THEN "ended" ELSE logs
    /\ UNCHANGED told

(* Mutant: the controllers alone are asked. *)
ListsUnplayed == TRUE
Lists         == marked => ready

(* list_controllers, while the run is starting. *)
ListControllers ==
    /\ WatchStep /\ start = "started" /\ ours /\ ~told
    /\ box["run"] = "up" /\ spawner = "active" /\ Lists
    /\ told' = TRUE /\ UNCHANGED <<logs, waiter>>

Next ==
    \/ EnterDockerRun \/ Prepare \/ StartRun \/ Mark \/ StartIsaac \/ StartBridge \/ LeaveDockerRun
    \/ Down
    \/ \E s \in Stoppers : Discard(s) \/ StopBridge(s) \/ StopIsaac(s) \/ StopRun(s)
    \/ LaunchChecks \/ LaunchBuilds \/ WriteStage \/ SpawnerEnds \/ AfterActive \/ LaunchExits
    \/ FindStage \/ Play \/ IsaacExits \/ BridgeExits
    \/ Follow \/ RunEnds \/ Wake \/ EndWithIsaac \/ ListControllers

Spec == Init /\ [][Next]_vars

-----------------------------------------------------------------------------
(* Properties. *)

Quiet ==
    /\ ~ours /\ start \in {"new", "started", "raised"}
    /\ \A s \in Stoppers : stop[s] \in {"idle", "ended"}

(* Once the starts and stops of a run are over, each container of it that is
   left is one that docker would not remove itself, and the run is no longer
   known as one with Isaac Sim: also where a stop ran before the container was
   there, where docker run failed and made it, and where another would not go. *)
NothingLeft == Quiet /\ start # "new" => ~marked /\ \A b \in Boxes : box[b] \in {"up", "exited"} => b \in stuck

(* A run with Isaac Sim is not taken for up before its stage has played. *)
UpMeansPlaying == told /\ "isaac" \in wants => ready

(* Isaac Sim reads a whole stage or none. *)
StageWhole == isaac # "broken"

(* An Isaac Sim that is gone has ended the log stream of a run nobody is
   stopping, for whatever reason it went and whenever: so the agent sees it. *)
StageLost == ours /\ waiter = "done" => logs # "following"

(* A launch that was not killed leaves no world behind, wherever it failed. *)
WorldGone == launch = "over" => world # "made"

(* A run comes up whole, is seen to be lost, and leaves nothing: the five above. *)
RunWhole == NothingLeft /\ UpMeansPlaying /\ StageWhole /\ StageLost /\ WorldGone
=============================================================================
