# fm-sim: a TLA+ verification of the run control

This directory holds TLA+ modules that model fm-sim's control code, the TLC
configurations that check them on small instances, and theorems about them
checked by TLAPS. `PROJECT.json` lists the components, the runs, the source
lines each definition stands for, the hazards and the findings.

    tlc -workers 2 -config MCSimAgentLifecycle.cfg MCSimAgent   # a run
    tlapm SimAgentProofs.tla                                    # the proofs

## 1. Inventory

fm-sim runs robot simulations in containers. A *client* (`fm sim`, the desktop
app) sends verbs over Zenoh to the *sim agent* of a host. The agent runs one
container per run; in it `run.launch.py` starts an engine backend, a controller
manager, the scenario node, cameras and the controller under test. On AWS two
Lambda functions start the host and an on-host timer stops it.

| Component | State it keeps | Operations | Talks to |
|---|---|---|---|
| Sim agent, run lifecycle (`agent.py`) | active run and state under `_lock`; each `Run`'s metrics, outcome, `ended_at`, `reset_seed` under its `write_lock`; `_stopped_at` | `up`, `down`, `reset`, `perception_debug`, `status`, `recover`; threads `_bring_up`, `_expire`, `_pump_logs` | runner, run store |
| Agent reads (`agent.py`) | catalog by image id, failure time, meshes cache | `catalog`, `description`, `asset`, `runs` | runner |
| Docker runner (`runner.py`, `isaac.py`, `bridge.py`) | containers under the label; Isaac run ids | `start`, `stop`, `logs`, `reset`, `start_recording`, `stop_recording`, `outcome`, `active_runs`, `stop_stale` | Docker |
| Run store (`runs.py`) | one summary per run, written whole | `write`, `read`, `recent`, `unfinished`, `recordings` | disk |
| Service (`service.py`) | lanes with a ceiling; queryables; publishers | `_handler`, `Lane.submit`, `close`, `serve` | agent, Zenoh |
| This machine (`this_machine.py`) | pid file under a file lock | `start`, `stop`, `restart`, `pull`, `running` | agent process, Docker |
| Client and trials (`client.py`, `trial.py`) | none but a call's retries | `Remote.call`, `Local.call`, `run_trial`, `drive`, `aggregate` | service or in-process agent |
| AWS controller and idle stop (`controller.py`, `idle_to_zero.py`, `cloud.py`) | capacity, budget and idle clock, outside the process | `start`, `stop`, `status`, reconcile; the idle tick | AWS APIs, Docker |
| Scenario node (`scenario_node.py`, `scenario.py`) | episode monitor, seed, `resetting` | pose updates, tick, `/sim/reset`, `/sim/outcome` | engine adapters |
| Engine adapters (`gazebo_objects.py`, `isaac_objects.py`) | latest and known poses, generation | `move` with rollback, pose filtering | Gazebo, Isaac Sim |
| EE follower (`follower_node.py`, `gate.py`, `dls.py`) | last good command, freshness | command, joint state, tick | joint controllers |
| Cameras (`camera_node.py` and helpers) | pending render, depth | render, warp, publish | engine renders |
| Bringup (`run.py`, `catalog.py`, `params.py`, `run.launch.py`) | none: resolves a spec to a launch | catalog load and check, parameter resolution | ament index |
| Backends, core, models, messages | engine loops, launch files, robot models | process group, stepper, launch descriptions | engines |
| World generators (`gazebo_world.py`, `mujoco_world.py`, `isaac_stage.py`) | none: scenario to world file | generate | engines |
| Tools and CI (`tools/`, `infra/` shell, `.github/`) | none | download, install, deploy | network |

Hard behaviour, where tests reach least: the agent's threads ending one run from
several sides; a `down` during `docker run`; container calls made outside the
lock on state read under it; a summary written by two threads; the latched
outcome of an episode that a reset has replaced; an engine move that times out
but takes effect; an agent that stops while a request is still in hand; the
idle stop of a host that has just been asked to run. `hazards` in `PROJECT.json`
names the lines.

What makes each component correct:

- **Run lifecycle.** One run at a time, each finalised exactly once whatever ends
  it, never left without a thread that will end it; a closed summary for every
  run that was claimed; no container left with nobody to stop it; a run that is
  asked to stop, expires or dies is always let go; a new run waits out the DDS
  lease of the last one.
- **Outcome.** The outcome filed for a run is the verdict of its last episode.
- **Runner and store.** A stop is complete or reported; a summary is replaced
  whole.
- **Service.** `down` is never queued behind `up`; a lane's slots are never lost;
  a run outlives no agent.
- **This machine.** One managed agent, and only its own process is ever signalled.
- **Client and trials.** A retried call is not applied twice; a trial leaves no
  run behind.
- **AWS.** The host is never stopped under a run or a start that was accepted;
  it always stops once idle or over budget.
- **Scenario node.** One verdict per episode, from poses of that episode, under
  its own seed; a refused reset changes nothing.
- **Engine adapters.** A move is all or nothing, or says which objects it could
  not restore.
- **EE follower.** No motion without fresh, usable input; a rejected command or a
  clock that jumps back stops it.

## 2. Plan

| Module | Models | Built on | Run |
|---|---|---|---|
| `SimAgent` | the run lifecycle, its threads and containers | | `lifecycle`, `parts`, `live`, `overlap` |
| `RunLifecycle` | the documented lifecycle, abstract | `SimAgent` implements it | `lifecycle`, `live` |
| `SimAgentProofs` | theorems of `SimAgent` and `SimAgentSettle` for every value of their constants | `SimAgentSettle` | |
| `SimAgentSettle` | what `up` asks before its claim, DDS settle time | `SimAgent` | `settle` |
| `RunOutcome` | the agent's `reset` and outcome selection against the node's latch | `ScenarioNode`, reduced | `parts` |
| `RunStack` | the containers of one run, `run.launch.py`, Isaac Sim's staging | refines what `SimAgent` takes as one container (by hand) | `parts` |
| `AgentReads` | the catalog's flight and cache, the mesh reader and its cache | | `parts` |
| `ProcessGroup` | the shutdown of an engine's process group | | `parts`, `engine_left` |
| `ScenarioNode` | episodes, poses, reset and the latched outcome | | `scenario` |
| `ScenarioNodeProofs`, `HostServiceProofs`, `ThisMachineProofs`, `TrialProofs`, `AwsHostProofs`, `AgentPartsProofs`, `NodesProofs` | theorems of the module each is named for | that module | |
| `GazeboObjects`, `IsaacObjects` | a move's rounds, its rollback, late answers and stale poses | the move `ScenarioNode` takes as one step | `nodes` |
| `EeFollower` | the follower's inputs, gate and bounded step | | `nodes` |
| `SimCamera` | the camera node's rate and pairing | | `nodes` |
| `HostService` | lanes, `serve` on its way out, crash and `recover`, two processes on a label | the agent reduced to its run | `service` |
| `ThisMachine` | pid file, lock, start, stop, kill and pid reuse | | `this_machine` |
| `Trial` | calls and lost answers, a seed driven to its end, the report | the host reduced to its run | `trial` |
| `AwsHost` | controller, deadline, budget gate, idle stop | | `aws_host` |
| `AgentParts` | the parts of the agent whose run is `parts`, one in a behaviour | `RunRules`, `RunOutcome`, `SimAgent`, `RunStack`, `AgentReads`, `ProcessGroup` | `parts` |
| `Nodes` | the nodes beside the simulator, one in a behaviour | `GazeboObjects`, `IsaacObjects`, `EeFollower`, `SimCamera` | `nodes` |
| `Tunables`, `Worlds`, `RobotRig`, `RunRules` | from a spec to a run: catalog, params, scenario, world, cameras | `RunRules` extends the other three | `parts` |

Next, in this order: `GazeboObjects` and `IsaacObjects` shown to implement one
abstract move; `RunOutcome` shown to keep to `ScenarioNode`; `perception_debug`.

## 3. The modules and the code

### SimAgent

A step is one section under `_lock` or `write_lock`, or one container call, which
the code makes with no lock held. Each thread of the code has a control variable:

| Variable | Code |
|---|---|
| `run`, `state` | `SimAgent._run`, `_state` |
| `up[r]` | the work-lane worker that runs `up` for request `r`, through `_start_container` |
| `startOk[r]`, `inDocker[r]` | whether `runner.start` raised; `Run.in_docker_run` |
| `pump[r]`, `bring[r]`, `expire[r]` | the threads `_pump_logs`, `_bring_up`, `_expire` |
| `fin[r][a]` | how far thread `a` is inside `_finish` for `r` (`a` is a caller of `down` or one of the four threads above) |
| `stopIt[r]` | the `stop` argument of that `_finish` |
| `seeded[r]`, `ended[r]` | `metrics["seed_applied"]` and `ended_at` of the `Run` in memory |
| `disk[r]` | the summary on disk: `none`, `open`, `ready` (has its metrics), `closed` |
| `container[r]`, `recorder[r]` | the run's containers; `ros2 bag record` in them |

`down` and `_fail` become `Down`/`Fail` (the section that enters `stopping`), the
`Finish...` actions (`_finish`, in its order: outcome, recorder, stop, mark, end,
file) and `FinishRelease` (the `finally` that lets the run go). `Faults` says what
may fail: `docker` (container calls and thread starts), `stop` (the removal of a
container), `disk` (a write).

Left out: the text of errors and logs; `max_duration_reached` and `wall_s`; the
outcome's data (`RunOutcome`); run ids, which are taken to be fresh
(the same-second collision `run_exists` refuses is not modelled); the ceiling of
the work lane (`HostService`); the sidecars of a run (bridge, Isaac Sim), which
start and stop with it, and a container that Docker creates after `docker run`
has already failed (both in `RunStack`); `done.set()`, which is merged with the
release that follows it.

The run `lifecycle` has container calls that fail and no others; `parts` has one
request that may meet every failure (`Faulty`), and two that meet one another where
removals and writes fail (`Stops`). All at once are more than a run can explore.

### RunLifecycle

The lifecycle the head of `agent.py` draws, over what `status` shows: `Claim`,
`Ready`, `Stop`, `LetGo`. `past` is the set of runs let go; a run in it is never
claimed again. `SimAgent` implements it under `past = {r : Released(r)}`.

### SimAgentSettle

Adds the steps of `up` before its claim (the foreign-run check, the settle wait)
and time as the order of three things: a container goes away and leaves DDS
participants behind (`ghost[r]`), `_mark_stopped` notes a stop (`marks`), and the
window of a mark passes (`settled`). The participants' lease (10 s) is shorter
than the window (12 s), so a window that has passed leaves no ghost of a container
that went away before its mark. `_stopped_at` is read once (`seen`), with whether
a run was active (`waited`), as in the code.

### ScenarioNode

Three things run beside each other, as in the code: the default callback group
(`cb`: `_on_tick`, `_on_poses`), the reset service's own group (`reset`) and the
engine. A step is one section under the node's lock, or one thing done outside it.

| Variable | Code |
|---|---|
| `mon` | `EpisodeMonitor._start`, `_inside_since`, `_last`, `_done` |
| `seed`, `opened`, `resetting` | `ScenarioNode._seed`, `_episode_opened`, `_resetting` |
| `cb` | the callback in hand: a tick that has read the clock, a pose update not yet judged, a verdict not yet published |
| `reset` | `_on_reset`: waiting on the engine, or answered |
| `outcome` | the latched `/sim/outcome` |
| `poses` | the pose subscription's queue |
| `time`, `clock` | the engine's sim time, and the `/clock` the node has |
| `place`, `since`, `opens`, `movedAt` | what really happened: the object, since when it has been at rest in the region, the episodes opened, the last time a reset moved it |

`Opened`, `Tick`, `AtRest` and `Observe` are `start`, `tick`, `_speed_since` and
`observe`, as operators on the monitor's fields. A pose carries the object's real
`since`, so that a success can be compared with what the object did. A step of
time is the longest gap over which the code takes a speed (`MAX_POSE_GAP_S`): what
an object does and undoes inside one gap no judge of poses can see. A move that
the engine applies after it was given up on is one of the places the object may
go anyway. Left out: `max_speed` absent (the hold is then a matter of position
alone), static objects, the object and marker topics.

### RunOutcome

| Variable | Code |
|---|---|
| `phase` | the run's state; `closed` from the moment its outcome is filed |
| `caller[c]` | a work-lane worker inside `reset`, or bring-up's own call: asked, waiting on `docker exec`, about to note |
| `requests`, `serving` | `/sim/reset` requests on their way to the node, and the one in `_on_reset` |
| `node`, `pub`, `latch` | the node's episode, a verdict not yet published, the latched one |
| `resetSeed`, `query`, `outcome` | `Run.reset_seed`, what `runner.outcome` returned, `Run.outcome` |
| `told` | the last episode that a caller was told of before the run stopped |

The node is `ScenarioNode` with its poses and time left out: an episode is judged
at any time no reset is in hand, and published later. The agent passes the launch
no seed, so the world boots with seed 0 (`BootSeed`), and bring-up's reset brings
the spec's. A call that is given up on leaves its request with the node, because
`docker exec` ends and the process in the container does not.

### RunStack

What is inside `SimAgent`'s container steps: `start()` (prepare, `docker run`, mark,
Isaac Sim, bridge, and its own clean-up), `stop()` by the finaliser or by the late
worker, the log stream with `_end_with_isaac`, and in the run's container
`run.launch.py`: the world directory and `stage.json`, the spawner, the launch roles,
and what ends the launch. `isaac` is the script that waits for the stage file and
then the stage runner. A `docker run` that fails may have made its container; a
`docker rm` may fail (`stuck`). The bridge's restarts are reduced to up or exited.
Nothing is bounded, and `liveness` is left out.

### AgentReads

`catalog()` in its steps (image id, cache, flight, failure memory, fetch, keep) for
two callers, and `_read_meshes`, one thread per described run, with the cache that
starts again when the image's id changes. A pull moves the tag to an image it never
named before: a tag that goes back to an old image could serve the catalog kept for
it, which is right by its id. `PullsAnytime` lets a pull come while a run is up.

### ProcessGroup

The wrapper's traps, two `wait`s, watchdog and exit code against `ros2 launch`'s
SIGINT, SIGTERM and SIGKILL, for an engine that heeds any subset of the signals.
Time counts in half timeouts; bash runs a trap at once compared with that. The
`spare` form (`xvfb-run` in front of the engine) is not modelled.

### ScenarioNode's move: GazeboObjects and IsaacObjects

`GazeboObjects.move` is `move()`: refuse, ask for every object, wait for answers,
wait until poses show them landed, else put back the ones moved and wait for
those. Gazebo's answers, its queue, requests it applies late (`loose`), each
object's poses in flight (`air`, one late pose kept per object) and the pose filter
(`ignoreBefore`, `known`) are variables. `IsaacObjects` is the same question for
the stage runner: assets, app, stage, listener, ready mark, one command a step.
`put`, `there`, `tidy` and `sent` are history. The node's clock is the engine's.

### EeFollower

Subscriptions and the tick of `follower_node.py`, the gate's ages, a clock that
jumps back, and one joint for the arm: the step's bound, the limits and the walk
back in are integers, the damped least squares solution is any step within the
bound of the target. `real` counts periods whatever the clock says, for
`FreshInputs`. No message from before a jump comes after it.

### SimCamera

`camera_node.py`: the rate thinning, the pairing of a depth render with the colour
of its stamp, the stall timer and clock jumps. A render is its stamp and whether it
can be used.

### HostService

| Variable | Code |
|---|---|
| `query[q]`, `queue[l]`, `used[l]` | a query's way through `_handler`, `Lane.submit` and its worker; the lane's executor queue; its semaphore |
| `svc` | `main`: `recover`'s two halves, `serve`, `close`, the last `down`, the exit that joins the workers |
| `run[p]`, `state[p]`, `cli` | the agents of the service and of an in-process client on the same label |
| `box`, `file[r]` | what `docker ps` and the run store show |
| `held` | the runs `recover` found up, and so left their summaries |

A crash takes the service at any step and leaves what it had. `early` is the
history of one gap: `recover` may close the summary of an in-process client's run
between its write and its container, which `HeldKept` allows for.

### ThisMachine

One process per command (`start`, `stop`, `restart`, `pull`, `up`, `down`), each
with a program counter over the looks at the pid file, `ps`, Docker and the lock;
an agent process per pid. A listing may fail, the pid file may not be written, a
start may be killed between spawn and file, a pid may be taken by a stranger.

### Trial

`run_trial`, `drive` and `Remote`/`Local`'s calls, on a host that is its agent
reduced to one run. `remote` is chosen at the start: a query or its answer may be
lost, or the agent is in this process. `NoneLeft` excludes answers that were lost
(`unheard`): the promise "it never outlives the caller" cannot hold for a `down`
that never arrived. In-process, `Local.close` takes "busy" for an answer while the
run is already stopping, so the process may leave before the finaliser is done.

### AwsHost

Controller and check each ask, decide and act in separate calls to AWS; the group,
the budget and the runs change in between. `cmd` is the operator's invocation,
`rec` the schedule's. Time is in minutes. The group launches and ends instances to
meet its capacity (external).

### RunRules, Tunables, Worlds, RobotRig

Pure rules, in four steps of one run: the agent reads the catalog and answers `up`
(`Up`), writes the run's params, and the launch in the container checks again,
resolves and builds (`Launch`), possibly from an image pulled in between (`Repull`);
`from` is a history variable, the image the container came from. The launch loads
the four entries it was given, the agent lists the whole catalog.
`Tunables` holds the value checks on both sides, `Worlds` a scenario's checks, its
seeded poses and what each backend's generator puts in the world, `RobotRig` the
cameras file and where each backend mounts and renders a camera. A value, a pose or
an image is a small number; a transform is a direction and a position on a line, so
that the order of composition matters.

Notes on what the code does there: two tunables of one entry on one entry path or
xacro argument are not refused, and the last wins; role names of both kinds, and
the generators' and cameras' own refusals, are the launch's alone; the agent passes
no seed to the launch, so a world starts at seed 0 and the seed comes by reset.
Left out: that an MJCF patch names exactly one element, mesh paths, fisheye maths.

### AgentParts and Nodes

Both hold several modules in one state space, one in a behaviour, chosen by a
variable (`part`, `node`); the others stay in one of their first states. Each is
checked and proved about as if on its own; a property names the part it is of.
`AgentParts` extends `RunRules` and takes `RunOutcome`, `SimAgent` (twice: with
requests that may meet every failure, and with requests that meet one another),
`RunStack`, `AgentReads` (for the catalog and for the meshes) and `ProcessGroup` by
INSTANCE. `Nodes` takes `GazeboObjects`, `IsaacObjects`, `EeFollower` and `SimCamera`.
`MCAgentParts` and `MCNodes` give the constants; `MCAgentParts` takes the images and the
specs a caller sends from `MCRunRules`. `Pushable` are the objects the robot can push,
and `FirstJoints` the places the follower's joint may start from.

## 4. The runs

| Run | Instance | What it shows |
|---|---|---|
| `lifecycle` | 2 requests that record, 1 caller; Docker may fail | the safety properties and the refinement |
| `settle` | 2 requests, 1 caller, no faults | a start that waited meets no participants |
| `live` | 2 requests, 1 caller, no faults, fairness | every run is let go, every container removed |
| `parts` | `RunRules`: 3 images, 3 backends, seeds 0 to 3, 2 pulls, render rate 6. `RunOutcome`: 1 caller, 2 resets, no seed twice. `SimAgent`: 1 request and every failure; 2 requests, `docker rm` and the disk may fail. `RunStack`: every set of sidecars. `AgentReads`: 2 callers, 3 images, 2 asks each; 2 runs, 2 meshes, pulls between runs. `ProcessGroup`: timeouts of 2, 5 steps of time | the agent's copies of the rules agree with the launch, overrides take, the world judged is the world built; no older episode's verdict is filed; a run is still finalised once and driven; it is up whole and leaves nothing; a cache is of its image; a hung engine is guarded |
| `scenario` | 1 reset, 5 moments, hold 1, timeout 2, the first spawn inside the region, the reset's outside, fairness | one verdict per episode under its own seed; a success is earned and a failure timed out, whatever poses were lost or late; every episode that lasts is judged |
| `nodes` | Gazebo with 1 move of 2 objects for 3 steps of time, one of which the robot pushes once; Isaac Sim with 2 objects, 3 steps, 2 moves and a push; the follower for 4 periods and a jump; the camera for 6 moments and a jump | a move is whole or says what it left, and true; the arm's steps are fresh and bounded; depth has its colour |
| `service` | 2 ups, a down, another verb; lanes of 2 and 1; 2 runs, 2 starts; the label shared or not | slots come back, `down` is served, nothing forgotten, nothing of a live client taken |
| `this_machine` | 3 commands, 2 pids, all faults | one agent, stoppable, no stranger signalled, every command ends |
| `trial` | 2 seeds, 4 runs, remote and in-process | rows are of their own runs, nothing left, the trial ends |
| `aws_host` | 1 instance, 5 minutes, idle 2, lifetime 3, either deadline line | idle ends after a full idle period, capacity behind the gate, the deadline holds |
| `overlap`, `engine_left` | `SimAgent` as in `live`; `ProcessGroup` | two disagreements with the documents (section 6) |

Two requests and one caller are enough for what the properties of `SimAgent` speak
of: a run and the one that follows or races it, ended by any of five threads. Every
request makes a new run, so a run's own history never needs a third. There are no
counters in `SimAgent`; `marks` of `SimAgentSettle` is bounded by the number of
runs.

`ScenarioNode` is bounded by `MaxTime` (the engine stops), `MaxResets` (accepted
resets), `MaxLag` and `MaxBoot` (how far `/clock` lags, once it has arrived and
before). They hold a success and the next episode's failure, and a success after a
reset. A queue of one pose, with the one in hand, already delivers a pose from
before a reset after it.

`RunOutcome` is bounded by `MaxAsks`, the resets asked for in a run: two, after
bring-up's, give an episode before and after any reset and the orders of two.
`FreshSeeds` and one caller are what section 6 shows to be needed. `AgentReads`:
`MaxImage`, `MaxAsks`; three images are one for the id, one for the fetch and one
after. `ProcessGroup`: `MaxTime`, past both of launch's timeouts.

`GazeboObjects` and `IsaacObjects`: `MaxTime`, `MaxMoves`, `MaxPushes`, `Pushable`. One push of
the robot's is what distinguishes an object that landed from one that is where it
was; a second Isaac Sim move shows commands of the first left behind. `EeFollower`:
`MaxReal` is past the largest age plus the lateness `MaxLate`; `MaxJumps` is one.
`SimCamera`: two periods, `MaxJumps` is one. `RunRules`: `SeedMax`, `MaxPulls` (two: the
image that was read may be pulled away and come back), and the lists of
`MCRunRules`, which give each rule an entry that keeps it and one that breaks it.

`HostService`: `MaxRuns`, `MaxStarts`: one run left by a crash, the next by a later
start. `ThisMachine`: three commands are two that manage the agent and one that uses
it; a second pid is a second agent or a stranger. `Trial`: `MaxRuns` leaves two runs to
the other client. `AwsHost`: `Horizon` is past a lifetime and an idle period;
`MaxLaunch` is the instances at a time, and a place is used again.

A component's invariant is often a conjunction of named parts (`OneVerdict`,
`OwnTrial`, `RunWhole`, ...); each part is stated with its own comment in the
module, and most have a mutant of their own.

Deadlock is not checked: an agent whose requests are all answered has nothing left
to do, an ended command or trial stops, and time is bounded in the rest.

Fairness:

- `live`: the threads of a run and of its finaliser run, and container calls return,
  because every one of them has a timeout in `runner.py`. The time limit is a thread
  like the others. Callers, container exits and failures get no fairness.
- `scenario`: the executor runs its callbacks (the tick is a timer), a move gives up
  after `MOVE_TIMEOUT_S`, and `/clock` arrives; the engine gets none.
- `service`: the stop lane's own worker runs (`StopLane`); nothing else does.
- `this_machine`: a command takes its next step, and a killed agent dies.
- `trial`: the trial's process runs, its wait has a deadline, a run being stopped is
  let go; strong fairness for an answer to a `down` in hand, since the client asks
  again.
- `aws_host`: the host's check, the schedule and AWS run; strong fairness for the
  steps that end an instance, since the schedule and the check repeat and the group
  may answer in either order.

## 5. The proofs

`SimAgentProofs` proves for every set of runs, callers, recorded runs and faults:

- `TypeCorrect`, `InvHolds`: the inductive invariant `Inv` is the types,
  `OneFinaliser`, `Driven` and `Control`. `OneFinaliser` and `Driven` are not
  inductive alone: that a claimed run is driven needs that an unclaimed request
  has no thread and no finaliser, that a launching worker has not started the
  run's threads yet, that a late stop is only for a run no longer starting, and
  that a finished finaliser has let its run go. `Control` says so.
- `LifecycleImplemented`: each action maps to a step of `RunLifecycle` or a
  stutter, under `Inv`.
- `NoLeakHolds`: strengthened by `LeakInv`, which says who will stop a container
  that the finaliser has passed or was told to leave.
- `RecordLeftHolds`, `RunningIsFiledHolds`, `ClosedForGoodHolds`: strengthened by
  `RecordInv`, which follows `ended_at` and `seed_applied` from memory to disk.

`SettledStartsAreClear`, of `SimAgentSettle`, is in `SimAgentProofs` too. On top of
`Inv` and `LeakInv`, `SettleInv` says that what a window has not
passed is a ghost of (`GhostInv`), that the latest ghosts belong to runs whose mark is
still to come or whose worker is still in `_start_container`, and that a request that
waited read a stop whose window has passed, with its own stop a later one
(`SeenInv`). Assumed: no `docker rm` fails (`"stop" \notin Faults`). TLC finds
`SettleHolds` violated with that fault, and it should be: such a container goes away
after its run was marked and let go, and nothing marks that.

The other proof modules have one shape: an invariant `IInv` (or `EpisodeInv`,
`TimeInv`, `HeldInv`, `TrialInv`, `SettleInv`, `RulesInv`), a lemma for the initial states, lemmas for what a
step keeps of each part, and the theorems. TLC checked each invariant on its
component's run before it was proved.

`ScenarioNodeProofs`, for every set of seeds and places, every hold, timeout,
speed, queue depth and bound:

- `OutcomesAreTheirEpisodes`: a verdict is latched under its own episode. Needs that
  the node's seed is that of the last episode opened (`OpenInv`) and that a monitor
  that still judges has not judged its episode (`UnjudgedInv`).
- `FailuresAreLate`, assuming `MaxBoot <= MaxLag` (section 6 says why): the episode
  in hand opened no longer before its real time than the clock may lag (`LagInv`).
- `SuccessesAreHeld` follows the object through the poses that are still to be
  judged: the queue, the one in hand and the monitor's last (`Known`). Two of them
  one gap apart that show the object slow and inside do show it at rest (`Follows`);
  a move ends its rest, so a pose from after a move has no rest from before it
  (`MovesInv`, `KnownInv`); and what the monitor takes for the start of a hold is one
  (`HoldInv`). Assumed: a step of time is the longest gap a speed is taken over
  (`MaxPoseGap = 1`, which is what a step stands for), the hold is no shorter than
  the pose queue, and a reset's seed puts the object outside the region. Section 6
  says what happens without the last two.

`HostServiceProofs`, for every set of queries, lane sizes and bounds, on a label of
the agent's own or a shared one:

- `SlotsAreHeld`: a queued query waits in its lane once, and slots are counted as
  finite sets (`LaneInv`); before the service serves, and once it is gone, there is
  nothing to count (`QuietInv`).
- `HeldRunsAreKept`, `RunsAreAccounted`: a run has one process that started it
  (`OwnInv`), what `recover` leaves is what it found (`LeftInv`), a container that
  the label shows is one that `up` would have found (`OneInv`), and a client's run is
  open until its client ends it (`ClientInv`).

`ThisMachineProofs`, for every set of commands and pids and all faults: `AgentIsOne`,
`AgentsAreStoppable`, `OthersAreSpared`. A pid is an agent's at most once (`UsedInv`);
the lock and an empty pid file belong to one start from its spawn on (`FileInv`); a
command that takes its agent out of the pid file has seen it gone (`GoneInv`).

`TrialProofs`, for every number of seeds and of the host's runs: `TrialScoresItsOwn`,
`TrialLeavesNone`. The host's run, if it is the trial's, is the one in hand or one
whose name was lost (`HostInv`); no row has the run in hand (`MineInv`); rows are a
seed each, in order (`RowsInv`). That the report adds up is counted with
injections between finite sets.

`AwsHostProofs`, for every period, percentage, horizon and number of instances, and
for either deadline line: `LeavesWhenIdle`, `OnlyPaidStartsRaise`, `StartsAreHeld`, and
`AnswersHold`, which assumes that the group has no more instances at a time than the
client reads (`MaxLaunch <= MaxInstances`: the group's maximum is 1, and the client
refuses a page with more). The check's idle clock starts at what it last saw
(`HostInv`), and a start carries what it read of the budget (`PaidInv`).

`AgentPartsProofs`, of `RunRules`, for every catalog the schema lets through, every spec and any number
of pulls: `RulesAreMirrored`, `OverridesAreKept`, `StartedRunsAreWhole`. The invariant
(`RulesInv`) says what is remembered of the past: the answer and the files follow from
the image that was read, which listed; what started, from the image it came from. The
rest is about the rules themselves: a value the agent normalised is taken by the launch
as it is (`ValueKept`), marking a backend unavailable changes no rule but that one
(`MarkedAlike`), the guarded names cover what the launch owns (`GuardedCoversOwned`),
and a patched entry that is not checked again is the listed one (`StartedScenario`).
`CatalogsAssumption` is what the schema and the ament index give: an entry per name,
the fields each kind has, `broadcasters` among a robot's roles, JSON values. Two
hypotheses are what no check in the code sees to, and hold in the repository's
catalogs: no two overrides of a run name one field, xacro argument or MJCF attribute
(`OverridesApart`, without which the last is taken), and no controller has two roles
(`RolesApart`, without which it is spawned active and inactive). `MCRunRules` assumes
both, so TLC evaluates them. `PartsKeepTheRules` carries the three to `AgentParts`.

Of the other parts, `AgentPartsProofs` has for every value of their constants:

- `RunsAreWhole` (`RunStack`, `StackInv`). Two stops may run at once, the finaliser's and
  that of a worker whose run was stopped under it, and either may pass a container
  before it is there. What holds is that, once the start is over and the run has been ended,
  one stop that has begun has taken everything it has passed, but for what docker
  would not remove (`Swept`), so no container came up behind it; while the finaliser has not taken the run over, no stop has begun. That
  an Isaac Sim that is lost ends the stream needs that a waiter which still waits, on a
  run nobody has ended, is of a run still marked (`WatchInv`).
- `KeptIsOfImage` (`AgentReads`). For the catalog (`CatalogInv`) every caller's reads are
  in order, coming, id and document, no later than the tag, and so is what is
  cached. It does not need that one caller fetches at a time: the single flight
  saves work and is not what keeps a catalog fresh. For the meshes (`MeshInv`) a
  container that is up is of the image of the tag, and a reader's image that of its
  container; both come from no pull under a run.
- `RunsAreEnded` (`SimAgent`, `ProcessGroup`). `SimAgentProofs` is taken by INSTANCE for
  both sets of requests, with its own invariant. For the engine, what each trapped
  signal ends and what the watchdog has seen (`EngineInv`), until launch's SIGTERM.
- `OutcomesAreOwn` (`RunOutcome`, `OutcomeInv`). Of every verdict that the code can still
  look at (`Known`: published or not, latched, in the query's hands, filed) the
  episode is no later than the node's, and those of the seed in force are no older
  than the last episode a caller was told of (`EpisodesOrdered`). A reset that was not
  given up on is noted before the next is asked (`SeedNoted`); a request left with the
  node is of a seed nothing else has (`SeedsOnce`). The hypothesis `Apart` is that no
  seed is asked for twice, that the boot's seed is not the spec's, and that one
  caller resets at a time: section 6 says what happens without the first and the
  last, and without the second nothing in the code tells the boot's episode from the
  one bring-up's reset opens. The code sees to none of the three.

`NodesProofs`, for every value of the constants, each node by its own invariant, and
then one node in a behaviour (`EachNodeSteps`): `MovesAreTrue`, `InputsAreUsed`,
`StepsAreAllowed`.

- `GazeboInv`: what a move has in hand fits the round it is in (`GoalsInv`); a pose
  stamped now is of where its object is, and none kept is from before the last move
  (`PoseInv`), so a pose that shows an object landed was true at some moment since
  the answers (`LandingInv`); and what Gazebo was told of each object, round by round,
  with whose requests may still take effect (`TidyInv`).
- `IsaacInv`: the runner's stages in their order (`StageInv`); a pose update of after the
  command that shows all at their targets is of a step in which they were there
  (`SeenInv`), for those in flight as for the one read.
- `FollowerInv`: an input's age in real periods is no more than what its stamp says and
  its lateness, unless the clock has jumped and no tick has noticed (`AgeInv`), and a
  tick comes before the clock moves again. Bringing a joint back inside its
  limits needs that the places it can stand at have no gaps, which
  `FollowerAssumption` says.
- `CameraInv`: within one run of the clock, what is drawn is no older than what was
  published, and the node knows the stamp of that (`DrawnInv`, `PublishedInv`).

The assumptions on constants are those the modules state: sizes and periods are
naturals, lanes have a worker and a place, the faults are known ones, and `None` or
`NoRun` is no value of the set it is added to. No theorem rests on a bound being
small.

Only model-checked:

- Liveness, which is out of this prover's reach: `ImplementsLiveLifecycle`,
  `ContainersEnd`, `DownServed`, `CommandsEnd`, `TrialEnds`, `DeadlineHolds`, `Judged`.
- `WorldTrue` of `RunRules`: where a camera stands folds over the links above it, and
  the Isaac workspace is a minimum over a finite set; what they compute for every
  input is an induction over data.
- `OutcomeOwn` is proved, and checked, where `Apart` holds; section 6 says how it fails
  elsewhere.

No run has every fault and two requests at once; the theorems take any.
`RunningIsFiled` is proved and in no run.

## 6. Findings

Shown by a run:

- `overlap`: `docs/ARCHITECTURE.md:32` says a host "runs one run at a time". A
  `down` during `docker run` lets the run go without stopping its container; the
  worker stops it later. Between the two, the next `up` may start its container.
- `engine_left`: `fm_sim_backends/README.md:117` says a watchdog kills an engine
  that is still alive 5 s after the signal. Each trapped signal ends one of the
  wrapper's two waits, so launch's SIGTERM, 5 s after its SIGINT, ends the second
  when it comes before the watchdog is due; the wrapper stops its watchdog and
  exits, and the engine runs on.

Stated in the modules, or shown by a constant, and checked by hand:

- `NotStartedAgain` (`SimAgent`): `agent.py:833` says what a down has stopped is not
  started again. Bring-up looks, then starts the recorder; a `down` in between has
  already asked the recorder that is not there to stop.
- `SettledStart` (`SimAgentSettle`): `agent.py:116` gives the time after a stop
  before the next run may start. A request that reads the host as busy skips the
  wait; if that run is let go before the claim, the claim succeeds at once.
- `NotStale` with `FreshSeeds = FALSE`: `agent/README.md:114` promises a null
  outcome, not an earlier episode's, for a run stopped before the new episode ended.
  The outcome is matched by seed, so a reset to a seed already used lets the earlier
  verdict through; and with two resets in hand the seeds may be noted in the other
  order than the node served them.
- `SeedAgrees` without `~gaveUp`: `agent.py:181` calls `reset_seed` the seed of the
  last reset that took. One that takes after `RESET_TIMEOUT_S` is not noted, so the
  verdicts of the episode it opened are thrown away.
- `MeshesOfImage` with `PullsAnytime = TRUE`: `agent.py:329` says the meshes are kept
  "for the image they were read from". A pull between a run's start and its reader's
  look at the image id files the old container's meshes under the new id.
- `OutlivesNoAgent` (`HostService`): `service.py` says a run outlives no agent. An
  `up` already in a worker can claim the host after the service's last `down`, and
  the process ends with its container up.
- `NotesItsOwn` (`ThisMachine`): stop takes every run under the label for the
  agent's. A client's own run, started between the agent's exit and the listing, is
  noted too; `SparesLater` holds for those that start after it.
- `TimeoutKept` with `MaxBoot` above `MaxLag`: `catalog.schema.json:433` gives the
  episode `timeout_s`. A reset served before the node's first `/clock` opens its
  episode at time 0, so the time the engine had run by then is taken off the timeout;
  `_on_tick` guards against this, `_on_reset` does not.
- `Earned` with a reset to a seed that puts the object inside the region
  (`ResetSeeds` leaves such seeds out; the repository's scenarios spawn outside):
  poses from before it, judged after it, count towards the new episode's hold. So
  they do with `HoldS` below `QueueDepth`: the schema takes a `hold_s` of 0, the
  subscription keeps 10 poses, and poses of the object inside the region that are
  queued when a reset moves it are judged in the new episode. The repository's
  scenarios hold for 2 s.

## 7. Not modelled

- `perception_debug` and the host's `status`: they change nothing of a run.
- The text of errors, logs, command lines, SDF, MJCF, USD and schemas; image warps,
  depth noise and the least squares solution, which are real-valued arithmetic.
- `fm_sim_core`, `fm_sim_models`, `fm_sim_msgs`, single-model launch files, the AWS
  template, `tools/`, installers and CI: declarative, or run by hand one at a time.
- The wall clock of a restart: an agent that restarts removes stale containers
  without noting a stop, so its first `up` does not wait for their participants. How
  long a start takes is not in any model here.
- The composition of `RunStack`, `AgentReads` and `ScenarioNode` with `SimAgent` in
  one state space: each is checked beside a reduced neighbour, and the reduction is
  argued in its header.
