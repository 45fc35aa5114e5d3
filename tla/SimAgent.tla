------------------------------- MODULE SimAgent -------------------------------
(***************************************************************************)
(* The run lifecycle of the sim agent (agent/src/fm_sim_agent/agent.py) and *)
(* the containers it drives through DockerRunner (runner.py).               *)
(*                                                                         *)
(* One agent process holds at most one active run.  Its threads are         *)
(*   - one work-lane worker per `up` request (here: per run id),            *)
(*   - the callers of `down` (the stop lane, and serve() on the way out),   *)
(*   - for each started run the threads _pump_logs, _bring_up and _expire.  *)
(* A step of the model is one section under `_lock` or `write_lock`, or one *)
(* container call, which the code makes with no lock held.                  *)
(***************************************************************************)
EXTENDS Naturals

CONSTANTS
    Runs,      \* the run ids `up` may create; each request makes a new one
    NoRun,     \* `_run is None`
    Downs,     \* the threads that may call `down` for a caller
    Recorded,  \* the runs whose spec says record
    Faults     \* what may fail: "docker" (calls), "stop" (docker rm), "disk"

ASSUME RunsAssumption == NoRun \notin Runs
ASSUME RecordedAssumption == Recorded \subseteq Runs
ASSUME FaultsAssumption == Faults \subseteq {"docker", "stop", "disk"}
ASSUME DownsAssumption == Downs \cap {"up", "pump", "bring", "expire"} = {}

VARIABLES
    run, state,       \* SimAgent._run and ._state, guarded by _lock
    up,               \* control of each `up` request
    startOk,          \* runner.start returned rather than raised
    inDocker,         \* Run.in_docker_run
    pump, bring, expire, \* control of the run's three threads
    fin,              \* control of _finish, by run and by the thread inside it
    stopIt,           \* the `stop` argument the run's finaliser was given
    seeded, ended,    \* metrics.seed_applied and ended_at of the Run in memory
    disk,             \* the run's summary in the runs directory
    container,        \* the run's containers (simulator, bridge, Isaac Sim)
    recorder          \* the `ros2 bag record` inside the container

lockVars   == <<run, state>>
upVars     == <<up, startOk, inDocker>>
threadVars == <<pump, bring, expire>>
finVars    == <<fin, stopIt>>
memVars    == <<seeded, ended>>
worldVars  == <<container, recorder>>
vars == <<lockVars, upVars, threadVars, finVars, memVars, disk, worldVars>>

Threads == {"up", "pump", "bring", "expire"}
Actors  == Downs \cup Threads   \* every thread that can finalise a run

States   == {"idle", "starting", "running", "stopping", "error"}
Unclaimed == {"new", "refused"}
Launching == {"filing", "entering", "docker", "leaving"}
UpPc     == Unclaimed \cup Launching
              \cup {"lateStop", "lateMark", "threading", "failing", "done"}
PumpPc   == {"off", "follow", "done"}
BringPc  == {"off", "poll", "seed", "reset", "recCheck", "record",
             "last", "file", "flip", "done"}
ExpirePc == {"off", "wait", "done"}
FinPc    == {"no", "outcome", "recorder", "stop", "mark", "end", "file",
             "mcap", "release", "done"}

TypeOK ==
    /\ run \in Runs \cup {NoRun}
    /\ state \in States
    /\ up \in [Runs -> UpPc]
    /\ startOk \in [Runs -> BOOLEAN]
    /\ inDocker \in [Runs -> BOOLEAN]
    /\ pump \in [Runs -> PumpPc]
    /\ bring \in [Runs -> BringPc]
    /\ expire \in [Runs -> ExpirePc]
    /\ fin \in [Runs -> [Actors -> FinPc]]
    /\ stopIt \in [Runs -> BOOLEAN]
    /\ seeded \in [Runs -> BOOLEAN]
    /\ ended \in [Runs -> BOOLEAN]
    /\ disk \in [Runs -> {"none", "open", "ready", "closed"}]
    /\ container \in [Runs -> {"none", "up", "exited", "removed"}]
    /\ recorder \in [Runs -> {"off", "on", "closed", "cut"}]

Init ==
    /\ run = NoRun /\ state = "idle"
    /\ up = [r \in Runs |-> "new"]
    /\ startOk = [r \in Runs |-> FALSE]
    /\ inDocker = [r \in Runs |-> FALSE]
    /\ pump = [r \in Runs |-> "off"]
    /\ bring = [r \in Runs |-> "off"]
    /\ expire = [r \in Runs |-> "off"]
    /\ fin = [r \in Runs |-> [a \in Actors |-> "no"]]
    /\ stopIt = [r \in Runs |-> FALSE]
    /\ seeded = [r \in Runs |-> FALSE]
    /\ ended = [r \in Runs |-> FALSE]
    /\ disk = [r \in Runs |-> "none"]
    /\ container = [r \in Runs |-> "none"]
    /\ recorder = [r \in Runs |-> "off"]

-----------------------------------------------------------------------------
(* What the handlers share.  An operator marked "Mutant" is the one after it
   with a bug a change to the code could make; no specification uses it. *)

Starting(r) == run = r /\ state = "starting"

(* The summary as `summary()` builds it: closed once ended_at is set, and
   "ready" once its metrics carry seed_applied. *)
View(r) == IF ended[r] THEN "closed" ELSE IF seeded[r] THEN "ready" ELSE "open"

(* store.write replaces the file whole, or raises and leaves the old one. *)
Filed(r)   == disk' = [disk EXCEPT ![r] = View(r)]
Unfiled(r) == "disk" \in Faults /\ disk' = disk

(* Mutant: the container's end noted as the recorder's. *)
GoneMixed(r, how) ==
    /\ container' = [container EXCEPT ![r] = how]
    /\ recorder' = [recorder EXCEPT ![r] = how]

(* The container call ends the run's container, and the recorder in it with
   it.  `how` is "exited" or "removed". *)
Gone(r, how) ==
    /\ container' = [container EXCEPT ![r] = how]
    /\ recorder' = [recorder EXCEPT ![r] = IF @ = "on" THEN "cut" ELSE @]

(* runner.stop: stop and remove the run's containers.  A container that is
   not there is no error; a removal that fails raises. *)
RunnerStop(r) ==
    \/ container[r] \in {"none", "removed"} /\ UNCHANGED worldVars
    \/ container[r] \in {"up", "exited"} /\ Gone(r, "removed")
    \/ "stop" \in Faults /\ UNCHANGED worldVars
    \/ "stop" \in Faults /\ container[r] = "up" /\ Gone(r, "exited")

(* Entering "stopping", which makes the caller the run's one finaliser. *)
EnterStopping(r, a, step, stop) ==
    /\ state' = "stopping"
    /\ fin' = [fin EXCEPT ![r][a] = step]
    /\ stopIt' = [stopIt EXCEPT ![r] = stop]
    /\ UNCHANGED run

AfterOutcome(r) == IF r \in Recorded THEN "recorder" ELSE "stop"

(* Mutant: a failure that does not look whether the run is already stopping. *)
FailTwice(r, a) ==
    IF run # r THEN UNCHANGED <<lockVars, finVars>>
    ELSE EnterStopping(r, a, AfterOutcome(r), TRUE)

(* _fail: nothing if the run is no longer the active one or is stopping. *)
Fail(r, a) ==
    IF run # r \/ state = "stopping"
    THEN UNCHANGED <<lockVars, finVars>>
    ELSE EnterStopping(r, a, AfterOutcome(r), TRUE)

(* down's section under the lock, once its refusals are past. *)
Down(r, a) ==
    /\ run = r
    /\ state # "stopping"
    /\ EnterStopping(r, a, "outcome", ~inDocker[r])

-----------------------------------------------------------------------------
(* up, on a work-lane worker. *)

(* Refused before the claim: a bad spec, no free space, another process's run,
   no catalog.  SimAgentSettle models what is asked before the claim. *)
UpRefuse(r) ==
    /\ up[r] = "new"
    /\ up' = [up EXCEPT ![r] = "refused"]
    /\ UNCHANGED <<lockVars, startOk, inDocker, threadVars, finVars, memVars,
                   disk, worldVars>>

(* One section under the lock claims the host, or finds it taken. *)
UpClaim(r) ==
    /\ up[r] = "new"
    /\ IF run = NoRun
       THEN run' = r /\ state' = "starting" /\ up' = [up EXCEPT ![r] = "filing"]
       ELSE up' = [up EXCEPT ![r] = "refused"] /\ UNCHANGED lockVars
    /\ UNCHANGED <<startOk, inDocker, threadVars, finVars, memVars, disk, worldVars>>

(* Mutant: a record that cannot be written is only reported to the caller. *)
UpFileUnguarded(r) ==
    /\ up[r] = "filing"
    /\ \/ Filed(r) /\ up' = [up EXCEPT ![r] = "entering"]
       \/ Unfiled(r) /\ up' = [up EXCEPT ![r] = "done"]
    /\ UNCHANGED <<lockVars, startOk, inDocker, threadVars,
                   finVars, memVars, worldVars>>

(* The record comes before the container.  A write that fails (the summary, or
   the params after it) fails the run. *)
UpFile(r) ==
    /\ up[r] = "filing"
    /\ \/ Filed(r) /\ up' = [up EXCEPT ![r] = "entering"]
       \/ "disk" \in Faults /\ Filed(r) /\ up' = [up EXCEPT ![r] = "failing"]
       \/ Unfiled(r) /\ up' = [up EXCEPT ![r] = "failing"]
    /\ UNCHANGED <<lockVars, startOk, inDocker, threadVars,
                   finVars, memVars, worldVars>>

(* _start_container. *)
UpEnterDocker(r) ==
    /\ up[r] = "entering"
    /\ up' = [up EXCEPT ![r] = "docker"]
    /\ inDocker' = [inDocker EXCEPT ![r] = TRUE]
    /\ UNCHANGED <<lockVars, startOk, threadVars,
                   finVars, memVars, disk, worldVars>>

(* Docker creates the container while runner.start waits. *)
DockerCreates(r) ==
    /\ up[r] = "docker"
    /\ container[r] = "none"
    /\ container' = [container EXCEPT ![r] = "up"]
    /\ UNCHANGED <<lockVars, upVars, threadVars, finVars, memVars,
                   disk, recorder>>

(* runner.start returns, or raises having created the container or not. *)
DockerReturns(r) ==
    /\ up[r] = "docker"
    /\ up' = [up EXCEPT ![r] = "leaving"]
    /\ \/ container[r] # "none" /\ startOk' = [startOk EXCEPT ![r] = TRUE]
       \/ "docker" \in Faults /\ UNCHANGED startOk
    /\ UNCHANGED <<lockVars, inDocker, threadVars,
                   finVars, memVars, disk, worldVars>>

AfterDocker(r) == IF startOk[r] THEN "done" ELSE "failing"

(* Mutant: no look back at whether a down overtook the start. *)
UpLeaveDockerBlind(r) ==
    /\ up[r] = "leaving"
    /\ inDocker' = [inDocker EXCEPT ![r] = FALSE]
    /\ up' = [up EXCEPT ![r] = AfterDocker(r)]
    /\ UNCHANGED <<lockVars, startOk, threadVars,
                   finVars, memVars, disk, worldVars>>

UpLeaveDocker(r) ==
    /\ up[r] = "leaving"
    /\ inDocker' = [inDocker EXCEPT ![r] = FALSE]
    /\ up' = [up EXCEPT ![r] = IF ~Starting(r) THEN "lateStop"
                               ELSE IF startOk[r] THEN "threading" ELSE "failing"]
    /\ UNCHANGED <<lockVars, startOk, threadVars,
                   finVars, memVars, disk, worldVars>>

(* Mutant: an overtaken start that leaves its container to the down. *)
UpLateStopSkipped(r) ==
    /\ up[r] = "lateStop"
    /\ up' = [up EXCEPT ![r] = "lateMark"]
    /\ UNCHANGED <<lockVars, startOk, inDocker, threadVars,
                   finVars, memVars, disk, worldVars>>

(* A down overtook the start: the container is stopped here. *)
UpLateStop(r) ==
    /\ up[r] = "lateStop"
    /\ RunnerStop(r)
    /\ up' = [up EXCEPT ![r] = "lateMark"]
    /\ UNCHANGED <<lockVars, startOk, inDocker, threadVars,
                   finVars, memVars, disk>>

UpLateMark(r) ==
    /\ up[r] = "lateMark"
    /\ up' = [up EXCEPT ![r] = AfterDocker(r)]
    /\ UNCHANGED <<lockVars, startOk, inDocker, threadVars,
                   finVars, memVars, disk, worldVars>>

(* Mutant: a thread that cannot be started is only reported to the caller. *)
UpThreadsUnguarded(r) ==
    /\ up[r] = "threading"
    /\ \E n \in 0..3 :
         /\ n = 3 \/ "docker" \in Faults
         /\ pump' = [pump EXCEPT ![r] = IF n > 0 THEN "follow" ELSE @]
         /\ bring' = [bring EXCEPT ![r] = IF n > 1 THEN "poll" ELSE @]
         /\ expire' = [expire EXCEPT ![r] = IF n > 2 THEN "wait" ELSE @]
    /\ up' = [up EXCEPT ![r] = "done"]
    /\ UNCHANGED <<lockVars, startOk, inDocker, finVars,
                   memVars, disk, worldVars>>

(* The three threads; one that cannot be started fails the run. *)
UpThreads(r) ==
    /\ up[r] = "threading"
    /\ \E n \in 0..3 :
         /\ n = 3 \/ "docker" \in Faults
         /\ pump' = [pump EXCEPT ![r] = IF n > 0 THEN "follow" ELSE @]
         /\ bring' = [bring EXCEPT ![r] = IF n > 1 THEN "poll" ELSE @]
         /\ expire' = [expire EXCEPT ![r] = IF n > 2 THEN "wait" ELSE @]
         /\ up' = [up EXCEPT ![r] = IF n = 3 THEN "done" ELSE "failing"]
    /\ UNCHANGED <<lockVars, startOk, inDocker, finVars,
                   memVars, disk, worldVars>>

UpFail(r) ==
    /\ up[r] = "failing"
    /\ up' = [up EXCEPT ![r] = "done"]
    /\ Fail(r, "up")
    /\ UNCHANGED <<startOk, inDocker, threadVars,
                   memVars, disk, worldVars>>

(* Everything a claimed run's worker does. *)
UpDrive(r) ==
    \/ UpFile(r) \/ UpEnterDocker(r) \/ DockerCreates(r) \/ DockerReturns(r)
    \/ UpLeaveDocker(r) \/ UpLateStop(r) \/ UpLateMark(r)
    \/ UpThreads(r) \/ UpFail(r)

-----------------------------------------------------------------------------
(* _bring_up: wait for the broadcasters, seed, record, then flip to running. *)

BringTo(r, pc) == bring' = [bring EXCEPT ![r] = pc]

(* Every broadcaster active needs the container; the deadline may always have
   passed by the time it is looked at. *)
BringPoll(r) ==
    /\ bring[r] = "poll"
    /\ \/ container[r] = "up" /\ BringTo(r, "seed") /\ UNCHANGED <<lockVars, finVars>>
       \/ ~Starting(r) /\ BringTo(r, "done") /\ UNCHANGED <<lockVars, finVars>>
       \/ Starting(r) /\ BringTo(r, "done") /\ Fail(r, "bring")
    /\ UNCHANGED <<upVars, pump, expire, memVars, disk, worldVars>>

(* Mutant: the state flips before the summary with its metrics is filed. *)
BringCheckUnfiled(r) ==
    /\ \/ bring[r] = "seed"     /\ BringTo(r, IF Starting(r) THEN "reset" ELSE "done")
       \/ bring[r] = "recCheck" /\ BringTo(r, IF Starting(r) THEN "record" ELSE "done")
       \/ bring[r] = "last"     /\ BringTo(r, IF Starting(r) THEN "flip" ELSE "done")
    /\ UNCHANGED <<lockVars, upVars, pump, expire, finVars, memVars,
                   disk, worldVars>>

(* _still_starting before a step: a run that is not is left alone. *)
BringCheck(r) ==
    /\ \/ bring[r] = "seed"     /\ BringTo(r, IF Starting(r) THEN "reset" ELSE "done")
       \/ bring[r] = "recCheck" /\ BringTo(r, IF Starting(r) THEN "record" ELSE "done")
       \/ bring[r] = "last"     /\ BringTo(r, IF Starting(r) THEN "file" ELSE "done")
    /\ UNCHANGED <<lockVars, upVars, pump, expire, finVars, memVars,
                   disk, worldVars>>

BringReset(r) ==
    /\ bring[r] = "reset"
    /\ container[r] = "up"
    /\ seeded' = [seeded EXCEPT ![r] = TRUE]
    /\ BringTo(r, IF r \in Recorded THEN "recCheck" ELSE "last")
    /\ UNCHANGED <<lockVars, upVars, pump, expire, finVars, ended,
                   disk, worldVars>>

BringRecord(r) ==
    /\ bring[r] = "record"
    /\ container[r] = "up"
    /\ recorder' = [recorder EXCEPT ![r] = "on"]
    /\ BringTo(r, "last")
    /\ UNCHANGED <<lockVars, upVars, pump, expire, finVars, memVars,
                   disk, container>>

(* A call into the container raises: always when it is gone. *)
BringFail(r) ==
    /\ bring[r] \in {"reset", "record"}
    /\ container[r] # "up" \/ "docker" \in Faults
    /\ BringTo(r, "done")
    /\ Fail(r, "bring")
    /\ UNCHANGED <<upVars, pump, expire, memVars, disk, worldVars>>

(* Mutant: the summary built before the write lock is taken. *)
BringFileStale(r) ==
    /\ bring[r] = "file"
    /\ disk' = [disk EXCEPT ![r] = "ready"]
    /\ BringTo(r, "flip")
    /\ UNCHANGED <<lockVars, upVars, pump, expire, finVars, memVars, worldVars>>

BringFile(r) ==
    /\ bring[r] = "file"
    /\ Filed(r) \/ Unfiled(r)
    /\ BringTo(r, "flip")
    /\ UNCHANGED <<lockVars, upVars, pump, expire, finVars, memVars, worldVars>>

(* Mutant: the flip looks at the run and not at its state. *)
BringFlipBlind(r) ==
    /\ bring[r] = "flip"
    /\ state' = IF run = r THEN "running" ELSE state
    /\ BringTo(r, "done")
    /\ UNCHANGED <<run, upVars, pump, expire, finVars, memVars, disk, worldVars>>

BringFlip(r) ==
    /\ bring[r] = "flip"
    /\ state' = IF Starting(r) THEN "running" ELSE state
    /\ BringTo(r, "done")
    /\ UNCHANGED <<run, upVars, pump, expire, finVars, memVars, disk, worldVars>>

BringStep(r) ==
    \/ BringPoll(r) \/ BringCheck(r) \/ BringReset(r) \/ BringRecord(r)
    \/ BringFail(r) \/ BringFile(r) \/ BringFlip(r)

-----------------------------------------------------------------------------
(* _pump_logs ends when the container exits, or with its log stream. *)

PumpEnd(r) ==
    /\ pump[r] = "follow"
    /\ container[r] # "up" \/ "docker" \in Faults
    /\ pump' = [pump EXCEPT ![r] = "done"]
    /\ Fail(r, "pump")
    /\ UNCHANGED <<upVars, bring, expire, memVars, disk, worldVars>>

(* Mutant: a time limit that acts on running runs only, once. *)
ExpireEndRunning(r) ==
    /\ expire[r] = "wait"
    /\ expire' = [expire EXCEPT ![r] = "done"]
    /\ \/ state = "running" /\ Down(r, "expire")
       \/ state # "running" /\ UNCHANGED <<lockVars, finVars>>
    /\ UNCHANGED <<upVars, pump, bring, memVars, disk, worldVars>>

(* _expire brings the run down max_run_s after its start; it ends without a
   change when the run's `done` wakes it, or when down refuses. *)
ExpireEnd(r) ==
    /\ expire[r] = "wait"
    /\ expire' = [expire EXCEPT ![r] = "done"]
    /\ \/ Down(r, "expire")
       \/ (run # r \/ state = "stopping") /\ UNCHANGED <<lockVars, finVars>>
    /\ UNCHANGED <<upVars, pump, bring, memVars, disk, worldVars>>

(* down for a caller: on whichever run is active.  Its thread makes one call
   at a time; a refusal changes nothing. *)
CallerDown(d) ==
    /\ \A q \in Runs : fin[q][d] \in {"no", "done"}
    /\ \E r \in Runs : Down(r, d)
    /\ UNCHANGED <<upVars, threadVars, memVars, disk, worldVars>>

-----------------------------------------------------------------------------
(* _finish, run by the thread that entered "stopping". *)

FinTo(r, a, pc) == fin' = [fin EXCEPT ![r][a] = pc]

FinishOutcome(r, a) ==
    /\ fin[r][a] = "outcome"
    /\ FinTo(r, a, AfterOutcome(r))
    /\ UNCHANGED <<lockVars, upVars, threadVars, stopIt, memVars,
                   disk, worldVars>>

(* stop_recording: no recorder is no error, and an error is only logged. *)
FinishRecorder(r, a) ==
    /\ fin[r][a] = "recorder"
    /\ FinTo(r, a, "stop")
    /\ \/ recorder' = [recorder EXCEPT ![r] = IF @ = "on" THEN "closed" ELSE @]
       \/ "docker" \in Faults /\ UNCHANGED recorder
    /\ UNCHANGED <<lockVars, upVars, threadVars, stopIt, memVars,
                   disk, container>>

FinishStop(r, a) ==
    /\ fin[r][a] = "stop"
    /\ FinTo(r, a, "mark")
    /\ IF stopIt[r] THEN RunnerStop(r) ELSE UNCHANGED worldVars
    /\ UNCHANGED <<lockVars, upVars, threadVars, stopIt, memVars, disk>>

(* Mutant: the summary filed before ended_at is set. *)
FinishMarkOpen(r, a) ==
    /\ fin[r][a] = "mark"
    /\ FinTo(r, a, "file")
    /\ UNCHANGED <<lockVars, upVars, threadVars, stopIt, memVars,
                   disk, worldVars>>

FinishMark(r, a) ==
    /\ fin[r][a] = "mark"
    /\ FinTo(r, a, "end")
    /\ UNCHANGED <<lockVars, upVars, threadVars, stopIt, memVars,
                   disk, worldVars>>

FinishEnd(r, a) ==
    /\ fin[r][a] = "end"
    /\ FinTo(r, a, "file")
    /\ ended' = [ended EXCEPT ![r] = TRUE]
    /\ UNCHANGED <<lockVars, upVars, threadVars, stopIt, seeded,
                   disk, worldVars>>

(* The summary, then again with the MCAP files of a recorded run. *)
FinishFile(r, a) ==
    /\ \/ fin[r][a] = "file" /\ FinTo(r, a, IF recorder[r] = "off" THEN "release" ELSE "mcap")
       \/ fin[r][a] = "mcap" /\ FinTo(r, a, "release")
    /\ Filed(r) \/ Unfiled(r)
    /\ UNCHANGED <<lockVars, upVars, threadVars, stopIt, memVars, worldVars>>

(* Back in down or _fail: the run is let go, if it is still the active one. *)
FinishRelease(r, a) ==
    /\ fin[r][a] = "release"
    /\ FinTo(r, a, "done")
    /\ IF run = r
       THEN run' = NoRun /\ state' = IF a \in Downs \cup {"expire"} THEN "idle" ELSE "error"
       ELSE UNCHANGED lockVars
    /\ UNCHANGED <<upVars, threadVars, stopIt, memVars, disk, worldVars>>

FinishStep(r, a) ==
    \/ FinishOutcome(r, a) \/ FinishRecorder(r, a) \/ FinishStop(r, a)
    \/ FinishMark(r, a) \/ FinishEnd(r, a) \/ FinishFile(r, a) \/ FinishRelease(r, a)

-----------------------------------------------------------------------------
(* The world the agent does not control. *)

ContainerExits(r) ==
    /\ container[r] = "up"
    /\ Gone(r, "exited")
    /\ UNCHANGED <<lockVars, upVars, threadVars, finVars, memVars, disk>>

(* The agent past the claim; SimAgentSettle refines what comes before it. *)
DriveNext ==
    \/ \E r \in Runs : \/ UpDrive(r) \/ BringStep(r) \/ PumpEnd(r)
                       \/ ExpireEnd(r) \/ ContainerExits(r)
    \/ \E r \in Runs, a \in Actors : FinishStep(r, a)
    \/ \E d \in Downs : CallerDown(d)

Next == DriveNext \/ \E r \in Runs : UpRefuse(r) \/ UpClaim(r)

Spec == Init /\ [][Next]_vars

(* Threads are scheduled and container calls return (each has a timeout);
   callers, container exits and failures may never come. *)
Fairness ==
    /\ \A r \in Runs : /\ WF_vars(UpDrive(r)) /\ WF_vars(BringStep(r))
                       /\ WF_vars(PumpEnd(r) /\ container[r] # "up")
                       /\ WF_vars(ExpireEnd(r))
    /\ \A r \in Runs, a \in Actors : WF_vars(FinishStep(r, a))

LiveSpec == Spec /\ Fairness

-----------------------------------------------------------------------------
(* Properties. *)

Claimed(r)  == up[r] \notin Unclaimed
Released(r) == Claimed(r) /\ run # r
Finishing   == FinPc \ {"no", "done"}
Present(r)  == container[r] \in {"up", "exited"}

(* One thread finalises a run, whichever of down, expiry, a lost log stream, a
   failed start or bring-up comes first; while it does, the agent is stopping
   that run and nothing else. *)
OneFinaliser ==
    /\ \A r \in Runs : \A a, b \in Actors :
         fin[r][a] # "no" /\ fin[r][b] # "no" => a = b
    /\ \A r \in Runs, a \in Actors :
         fin[r][a] \in Finishing => run = r /\ state = "stopping"

(* "a broken step can never leave the host busy with a run nobody drives": a
   claimed run always has a thread that will end it. *)
Driven ==
    /\ run = NoRun <=> state \in {"idle", "error"}
    /\ state \in {"starting", "running"} =>
         \/ up[run] \in Launching \cup {"threading", "failing"}
         \/ up[run] = "done" /\ pump[run] = "follow" /\ expire[run] = "wait"
    /\ state = "stopping" => \E a \in Actors : fin[run][a] \in Finishing

(* A container outlives its run only while the worker that started it is still
   in _start_container, which stops it.  So no run is left in Docker with
   nobody to stop it, as long as Docker removes what it is asked to. *)
NoLeak ==
    "stop" \notin Faults =>
        \A r \in Runs : Present(r) => run = r \/ up[r] \in {"docker", "leaving", "lateStop"}

(* "the one record a run always leaves": a run that was claimed and let go has
   a closed summary, whatever failed on the way but the disk itself. *)
RecordLeft ==
    "disk" \notin Faults => \A r \in Runs : Released(r) => disk[r] = "closed"

(* "a caller who sees running also finds seed_applied in the summary". *)
RunningIsFiled ==
    "disk" \notin Faults /\ state = "running" => disk[run] = "ready"

(* "a writer holding an older view of the run can never land after a newer
   one": a closed summary never reads as a run still going again. *)
ClosedForGood ==
    [][\A r \in Runs : disk[r] = "closed" => disk'[r] = "closed"]_vars

(* What a caller sees of the host is the lifecycle the agent documents: one run
   at a time, each ended once and never active again. *)
Lifecycle == INSTANCE RunLifecycle WITH past <- {r \in Runs : Released(r)}

ImplementsLifecycle == Lifecycle!Spec

(* ... and no run is left starting, running or stopping for ever. *)
ImplementsLiveLifecycle == Lifecycle!LiveSpec

(* A run's containers end with it, also those a down overtook. *)
ContainersEnd == \A r \in Runs : Present(r) ~> run # r /\ ~Present(r)

(* What the documents say and the code does not keep to (see README.md). *)

(* A sim host "runs one run at a time" (docs/ARCHITECTURE.md). *)
OneContainer == \A q, r \in Runs : container[q] = "up" /\ container[r] = "up" => q = r

(* "whatever a down has already stopped is not started again": no recorder is
   started once the finaliser is past stop_recording. *)
NotStartedAgain ==
    [][\A r \in Runs : recorder[r] # "on" /\ recorder'[r] = "on"
                         => \A a \in Actors : fin[r][a] \in {"no", "outcome", "recorder"}]_vars
=============================================================================
