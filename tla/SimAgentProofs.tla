---------------------------- MODULE SimAgentProofs ----------------------------
(***************************************************************************)
(* Proofs about SimAgent, for any set of runs, callers and faults, and, at   *)
(* the end, about SimAgentSettle.                                           *)
(***************************************************************************)
EXTENDS SimAgentSettle, TLAPS

-----------------------------------------------------------------------------
(* The inductive strengthening.  Control ties the threads of a run to the
   agent's state: what an unclaimed request has not done, what a launching
   worker has not started, and when a run has been let go. *)
Control ==
    /\ \A r \in Runs : up[r] \in Unclaimed => run # r /\ \A a \in Actors : fin[r][a] = "no"
    /\ \A r \in Runs :
         up[r] \in Unclaimed \cup Launching \cup {"lateStop", "lateMark", "threading"}
           => pump[r] = "off" /\ bring[r] = "off" /\ expire[r] = "off"
    /\ \A r \in Runs : up[r] \in {"lateStop", "lateMark"} => ~Starting(r)
    /\ \A r \in Runs : inDocker[r] <=> up[r] \in {"docker", "leaving"}
    /\ \A r \in Runs, a \in Actors : fin[r][a] = "done" => run # r
    /\ state = "running" => up[run] \in {"failing", "done"}

(* A container that is there although nobody will stop it on the run's behalf
   is one the run's own worker will. *)
Covered(r) == Present(r) => up[r] \in {"docker", "leaving", "lateStop"}

StopDone == {"mark", "end", "file", "mcap", "release"}

LeakInv ==
    "stop" \notin Faults =>
      /\ \A r \in Runs : run # r => Covered(r)
      /\ \A r \in Runs, a \in Actors :
           fin[r][a] \in StopDone \/ (fin[r][a] \in Finishing /\ ~stopIt[r]) => Covered(r)

(* ended_at is set only by the finaliser and before its first write, so what is
   written from then on is the closed summary. *)
EndedInv ==
    /\ \A r \in Runs, a \in Actors : fin[r][a] \in {"file", "mcap", "release", "done"} => ended[r]
    /\ \A r \in Runs : ended[r] => run # r \/ state = "stopping"
    /\ \A r \in Runs : disk[r] = "closed" => ended[r]

(* Only a claimed run is ended. *)
OnlyClaimedEnd == \A r \in Runs : ended[r] => Claimed(r)

FiledInv ==
    "disk" \notin Faults =>
      /\ \A r \in Runs, a \in Actors : fin[r][a] \in {"mcap", "release", "done"} => disk[r] = "closed"
      /\ \A r \in Runs : Released(r) => ended[r] /\ disk[r] = "closed"

SeededInv ==
    /\ \A r \in Runs : bring[r] \in {"recCheck", "record", "last", "file", "flip"} => seeded[r]
    /\ "disk" \notin Faults =>
         /\ \A r \in Runs : bring[r] = "flip" => disk[r] \in {"ready", "closed"}
         /\ state = "running" => seeded[run] /\ disk[run] = "ready"

-----------------------------------------------------------------------------
(* What entering "stopping" and refusing to leave in the lock's variables. *)

FinType == [Runs -> [Actors -> FinPc]]

LEMMA FinExcept ==
    ASSUME fin \in FinType, NEW r \in Runs, NEW a \in Actors, NEW v \in FinPc
    PROVE  [fin EXCEPT ![r][a] = v] \in FinType
  BY DEF FinType

LEMMA ThreadsAreActors == /\ "up" \in Actors /\ "pump" \in Actors
                          /\ "bring" \in Actors /\ "expire" \in Actors
                          /\ Downs \subseteq Actors
  BY DEF Actors, Threads

LEMMA FailTyped ==
    ASSUME TypeOK, NEW r \in Runs, NEW a \in Actors, Fail(r, a)
    PROVE  /\ run' \in Runs \cup {NoRun} /\ state' \in States
           /\ fin' \in FinType /\ stopIt' \in [Runs -> BOOLEAN]
<1>1. AfterOutcome(r) \in FinPc
  BY DEF AfterOutcome, FinPc
<1>2. CASE run # r \/ state = "stopping"
  BY <1>2 DEF TypeOK, FinType, Fail, lockVars, finVars
<1>3. CASE ~(run # r \/ state = "stopping")
  <2>1. EnterStopping(r, a, AfterOutcome(r), TRUE)
    BY <1>3 DEF Fail
  <2> QED
    BY <1>1, <2>1, FinExcept DEF TypeOK, FinType, EnterStopping, States
<1> QED
  BY <1>2, <1>3

LEMMA DownTyped ==
    ASSUME TypeOK, NEW r \in Runs, NEW a \in Actors, Down(r, a)
    PROVE  /\ run' \in Runs \cup {NoRun} /\ state' \in States
           /\ fin' \in FinType /\ stopIt' \in [Runs -> BOOLEAN]
<1>1. "outcome" \in FinPc
  BY DEF FinPc
<1> QED
  BY <1>1, FinExcept DEF TypeOK, FinType, Down, EnterStopping, States

WorldType == /\ container \in [Runs -> {"none", "up", "exited", "removed"}]
             /\ recorder \in [Runs -> {"off", "on", "closed", "cut"}]

LEMMA RunnerStopTyped ==
    ASSUME WorldType, NEW r \in Runs, RunnerStop(r)
    PROVE  WorldType'
  BY DEF WorldType, RunnerStop, Gone, worldVars

LEMMA TypeInit == Init => TypeOK
  BY RunsAssumption DEF Init, TypeOK, UpPc, PumpPc, BringPc, ExpirePc, FinPc, States, Unclaimed

LEMMA TypeStep == TypeOK /\ [Next]_vars => TypeOK'
<1> USE DEF TypeOK, UpPc, PumpPc, BringPc, ExpirePc, FinPc, States, Unclaimed, Launching,
            lockVars, upVars, threadVars, finVars, memVars, worldVars
<1> SUFFICES ASSUME TypeOK, [Next]_vars PROVE TypeOK'
  OBVIOUS
<1>1. CASE UNCHANGED vars
  BY <1>1 DEF vars
<1>2. ASSUME NEW r \in Runs, UpDrive(r) PROVE TypeOK'
  <2>1. CASE UpFile(r)          BY <2>1 DEF UpFile, Filed, Unfiled, View
  <2>2. CASE UpEnterDocker(r)   BY <2>2 DEF UpEnterDocker
  <2>3. CASE DockerCreates(r)   BY <2>3 DEF DockerCreates
  <2>4. CASE DockerReturns(r)   BY <2>4 DEF DockerReturns
  <2>5. CASE UpLeaveDocker(r)   BY <2>5 DEF UpLeaveDocker
  <2>6. CASE UpLateStop(r)      BY <2>6, RunnerStopTyped DEF UpLateStop, WorldType
  <2>7. CASE UpLateMark(r)      BY <2>7 DEF UpLateMark, AfterDocker
  <2>8. CASE UpThreads(r)       BY <2>8 DEF UpThreads
  <2>9. CASE UpFail(r)          BY <2>9, FailTyped, ThreadsAreActors DEF UpFail, FinType
  <2> QED  BY <1>2, <2>1, <2>2, <2>3, <2>4, <2>5, <2>6, <2>7, <2>8, <2>9 DEF UpDrive
<1>3. ASSUME NEW r \in Runs, BringStep(r) PROVE TypeOK'
  <2> USE DEF BringTo
  <2>1. CASE BringPoll(r)    BY <2>1, FailTyped, ThreadsAreActors DEF BringPoll, FinType
  <2>2. CASE BringCheck(r)   BY <2>2 DEF BringCheck
  <2>3. CASE BringReset(r)   BY <2>3 DEF BringReset
  <2>4. CASE BringRecord(r)  BY <2>4 DEF BringRecord
  <2>5. CASE BringFail(r)    BY <2>5, FailTyped, ThreadsAreActors DEF BringFail, FinType
  <2>6. CASE BringFile(r)    BY <2>6 DEF BringFile, Filed, Unfiled, View
  <2>7. CASE BringFlip(r)    BY <2>7 DEF BringFlip
  <2> QED  BY <1>3, <2>1, <2>2, <2>3, <2>4, <2>5, <2>6, <2>7 DEF BringStep
<1>4. ASSUME NEW r \in Runs, PumpEnd(r) PROVE TypeOK'
  BY <1>4, FailTyped, ThreadsAreActors DEF PumpEnd, FinType
<1>5. ASSUME NEW r \in Runs, ExpireEnd(r) PROVE TypeOK'
  BY <1>5, DownTyped, ThreadsAreActors DEF ExpireEnd, FinType
<1>6. ASSUME NEW r \in Runs, ContainerExits(r) PROVE TypeOK'
  BY <1>6 DEF ContainerExits, Gone
<1>7. ASSUME NEW r \in Runs, NEW a \in Actors, FinishStep(r, a) PROVE TypeOK'
  <2> USE DEF FinTo
  <2>1. CASE FinishOutcome(r, a)   BY <2>1 DEF FinishOutcome, AfterOutcome
  <2>2. CASE FinishRecorder(r, a)  BY <2>2 DEF FinishRecorder
  <2>3. CASE FinishStop(r, a)
    <3>1. WorldType'
      BY <2>3, RunnerStopTyped DEF FinishStop, WorldType
    <3> QED  BY <2>3, <3>1 DEF FinishStop, WorldType
  <2>4. CASE FinishMark(r, a)      BY <2>4 DEF FinishMark
  <2>5. CASE FinishEnd(r, a)       BY <2>5 DEF FinishEnd
  <2>6. CASE FinishFile(r, a)
    <3>1. fin' = [fin EXCEPT ![r][a] = "release"] \/ fin' = [fin EXCEPT ![r][a] = "mcap"]
      BY <2>6 DEF FinishFile
    <3>2. fin \in FinType /\ "release" \in FinPc /\ "mcap" \in FinPc
      BY DEF FinType
    <3>3. fin' \in FinType
      BY ONLY <3>1, <3>2, FinExcept
    <3>4. Filed(r) \/ Unfiled(r)
      BY <2>6 DEF FinishFile
    <3>5. disk' \in [Runs -> {"none", "open", "ready", "closed"}]
      BY <3>4 DEF Filed, Unfiled, View
    <3> QED  BY <2>6, <3>3, <3>5 DEF FinishFile, FinType
  <2>7. CASE FinishRelease(r, a)   BY <2>7 DEF FinishRelease
  <2> QED  BY <1>7, <2>1, <2>2, <2>3, <2>4, <2>5, <2>6, <2>7 DEF FinishStep
<1>8. ASSUME NEW d \in Downs, CallerDown(d) PROVE TypeOK'
  BY <1>8, DownTyped, ThreadsAreActors DEF CallerDown, FinType
<1>9. ASSUME NEW r \in Runs, UpRefuse(r) \/ UpClaim(r) PROVE TypeOK'
  BY <1>9 DEF UpRefuse, UpClaim
<1> QED
  BY <1>1, <1>2, <1>3, <1>4, <1>5, <1>6, <1>7, <1>8, <1>9 DEF Next, DriveNext

(* Every variable keeps its type, whatever the sets of runs and callers. *)
THEOREM TypeCorrect == Spec => []TypeOK
  BY TypeInit, TypeStep, PTL DEF Spec

-----------------------------------------------------------------------------
(* One finaliser per run, and a thread to end every claimed run. *)

Inv == TypeOK /\ OneFinaliser /\ Driven /\ Control

LEMMA InvInit == Init => Inv
<1> SUFFICES ASSUME Init PROVE Inv
  OBVIOUS
<1>1. TypeOK
  BY TypeInit
<1>2. OneFinaliser /\ Driven /\ Control
  BY RunsAssumption DEF Init, OneFinaliser, Driven, Control, Finishing, Unclaimed, Launching
<1> QED  BY <1>1, <1>2 DEF Inv

(* _fail does nothing, or enters "stopping" for the active run. *)
LEMMA FailCases ==
    ASSUME NEW r, NEW a, Fail(r, a)
    PROVE  \/ (run # r \/ state = "stopping") /\ UNCHANGED <<run, state, fin, stopIt>>
           \/ run = r /\ state # "stopping" /\ EnterStopping(r, a, AfterOutcome(r), TRUE)
  BY DEF Fail, lockVars, finVars

(* Who enters "stopping" is the first thread in the run's _finish. *)
LEMMA Entering ==
    ASSUME Inv, NEW r \in Runs, NEW a \in Actors, NEW step \in {"outcome", "recorder", "stop"},
           NEW stop, run = r, state # "stopping", EnterStopping(r, a, step, stop)
    PROVE  /\ run' = r /\ state' = "stopping"
           /\ \A b \in Actors : fin[r][b] = "no"
           /\ fin'[r][a] = step
           /\ \A q \in Runs, b \in Actors : q # r \/ b # a => fin'[q][b] = fin[q][b]
           /\ up[r] \notin Unclaimed
           /\ OneFinaliser'
<1>1. \A b \in Actors : fin[r][b] = "no"
  BY DEF Inv, TypeOK, OneFinaliser, Control, Finishing
<1>2. up[r] \notin Unclaimed
  BY DEF Inv, Control
<1>3. /\ fin'[r][a] = step
      /\ \A q \in Runs, b \in Actors : q # r \/ b # a => fin'[q][b] = fin[q][b]
  BY DEF EnterStopping, Inv, TypeOK
<1>4. run' = r /\ state' = "stopping"
  BY DEF EnterStopping
<1>5. OneFinaliser'
  <2>1. \A q \in Runs, b \in Actors : fin[q][b] \notin Finishing
    BY DEF Inv, OneFinaliser
  <2> QED  BY <1>1, <1>3, <1>4, <2>1 DEF Inv, OneFinaliser
<1> QED  BY <1>1, <1>2, <1>3, <1>4, <1>5

LEMMA AfterOutcomeStep == \A r : AfterOutcome(r) \in {"outcome", "recorder", "stop"}
  BY DEF AfterOutcome

(* A step that enters "stopping", or changes nothing of the lock's, keeps Inv
   when all else it does is to end threads. *)
Live(q) == run = q /\ state \in {"starting", "running"}

EndsThreads ==
    /\ inDocker' = inDocker
    /\ \A q \in Runs :
         /\ up'[q] = up[q] \/ (up[q] = "failing" /\ up'[q] = "done" /\ ~Live(q)')
         /\ pump'[q] = pump[q] \/ (pump[q] # "off" /\ ~Live(q)')
         /\ expire'[q] = expire[q] \/ (expire[q] # "off" /\ ~Live(q)')
         /\ bring'[q] = bring[q] \/ bring[q] # "off"

LEMMA EnterKeeps ==
    ASSUME Inv, TypeOK', NEW r \in Runs, NEW a \in Actors,
           NEW step \in {"outcome", "recorder", "stop"}, NEW stop,
           run = r, state # "stopping", EnterStopping(r, a, step, stop), EndsThreads
    PROVE  Inv'
<1>1. /\ run' = r /\ state' = "stopping"
      /\ \A b \in Actors : fin[r][b] = "no"
      /\ fin'[r][a] = step
      /\ \A q \in Runs, b \in Actors : q # r \/ b # a => fin'[q][b] = fin[q][b]
      /\ up[r] \notin Unclaimed
      /\ OneFinaliser'
  BY Entering
<1>2. Driven'
  <2>1. step \in Finishing
    BY DEF Finishing, FinPc
  <2>2. run' # NoRun
    BY <1>1, RunsAssumption
  <2> QED  BY <1>1, <2>1, <2>2 DEF Driven
<1>3. Control'
  <2>1. \A q \in Runs : up'[q] \in Unclaimed => run' # q /\ \A b \in Actors : fin'[q][b] = "no"
    BY <1>1 DEF Inv, Control, EndsThreads, Unclaimed
  <2>2. \A q \in Runs, b \in Actors : fin'[q][b] = "done" => run' # q
    BY <1>1 DEF Inv, Control
  <2>3. \A q \in Runs : up'[q] \in {"lateStop", "lateMark"} => ~Starting(q)'
    BY <1>1 DEF Starting
  <2>4. \A q \in Runs : inDocker'[q] <=> up'[q] \in {"docker", "leaving"}
    BY DEF Inv, Control, EndsThreads
  <2>5. \A q \in Runs :
          up'[q] \in Unclaimed \cup Launching \cup {"lateStop", "lateMark", "threading"}
            => pump'[q] = "off" /\ bring'[q] = "off" /\ expire'[q] = "off"
    BY DEF Inv, Control, EndsThreads, Unclaimed, Launching
  <2> QED  BY <1>1, <2>1, <2>2, <2>3, <2>4, <2>5 DEF Control
<1> QED  BY <1>1, <1>2, <1>3 DEF Inv

(* A worker moves on without touching the lock's variables or its threads. *)
Threadless == Unclaimed \cup Launching \cup {"lateStop", "lateMark", "threading"}

LEMMA WorkerMoves ==
    ASSUME Inv, TypeOK', NEW r \in Runs,
           UNCHANGED <<run, state, fin, inDocker, pump, bring, expire>>,
           \A q \in Runs : q # r => up'[q] = up[q],
           up[r] \in {"new", "filing"},
           up'[r] \in {"refused", "entering", "failing"},
           up'[r] = "refused" <=> up[r] = "new"
    PROVE  Inv'
<1>1. OneFinaliser'
  BY DEF Inv, OneFinaliser
<1>2. state = "running" => run # r
  BY RunsAssumption DEF Inv, Control
<1>3. up[r] = "new" => run # r
  BY DEF Inv, Control, Unclaimed
<1>4. Driven'
  <2>1. state \in {"starting", "running"} => run \in Runs
    BY DEF Inv, TypeOK, Driven
  <2> QED  BY <1>2, <1>3, <2>1 DEF Inv, Driven, Launching
<1>5. Control'
  <2>1. \A q \in Runs : up'[q] \in Unclaimed => run' # q /\ \A a \in Actors : fin'[q][a] = "no"
    BY DEF Inv, Control, Unclaimed
  <2>2. \A q \in Runs : up'[q] \in Threadless => up[q] \in Threadless
    BY DEF Threadless, Unclaimed, Launching
  <2>3. \A q \in Runs : up'[q] \in Threadless => pump'[q] = "off" /\ bring'[q] = "off" /\ expire'[q] = "off"
    BY <2>2 DEF Inv, Control, Threadless
  <2>4. \A q \in Runs : up'[q] \in {"lateStop", "lateMark"} => ~Starting(q)'
    BY DEF Inv, Control, Starting
  <2>5. \A q \in Runs : inDocker'[q] <=> up'[q] \in {"docker", "leaving"}
    BY DEF Inv, Control
  <2>6. \A q \in Runs, a \in Actors : fin'[q][a] = "done" => run' # q
    BY DEF Inv, Control
  <2>7. state' = "running" => up'[run'] \in {"failing", "done"}
    BY <1>2 DEF Inv, TypeOK, Control, Driven
  <2> QED  BY <2>1, <2>3, <2>4, <2>5, <2>6, <2>7 DEF Control, Threadless
<1> QED  BY <1>1, <1>4, <1>5 DEF Inv

LEMMA LockKept ==
    ASSUME Inv, TypeOK', UNCHANGED <<run, state, fin>>, EndsThreads
    PROVE  Inv'
<1>1. OneFinaliser'
  BY DEF Inv, OneFinaliser
<1>2. Driven'
  BY RunsAssumption DEF Inv, TypeOK, Driven, EndsThreads, Live, Launching
<1>3. Control'
  <2>1. \A q \in Runs : up'[q] \in Unclaimed => up[q] \in Unclaimed
    BY DEF EndsThreads, Unclaimed
  <2>2. \A q \in Runs :
          up'[q] \in Unclaimed \cup Launching \cup {"lateStop", "lateMark", "threading"}
            => pump'[q] = "off" /\ bring'[q] = "off" /\ expire'[q] = "off"
    BY DEF Inv, Control, EndsThreads, Unclaimed, Launching
  <2>3. \A q \in Runs : up'[q] \in {"lateStop", "lateMark"} => ~Starting(q)'
    BY DEF Inv, Control, EndsThreads, Starting
  <2>4. \A q \in Runs : inDocker'[q] <=> up'[q] \in {"docker", "leaving"}
    BY DEF Inv, Control, EndsThreads
  <2>5. state' = "running" => up'[run'] \in {"failing", "done"}
    BY RunsAssumption DEF Inv, TypeOK, Control, Driven, EndsThreads
  <2> QED  BY <2>1, <2>2, <2>3, <2>4, <2>5 DEF Inv, Control
<1> QED  BY <1>1, <1>2, <1>3 DEF Inv

LEMMA FailKeeps ==
    ASSUME Inv, TypeOK', NEW r \in Runs, NEW a \in Actors, Fail(r, a),
           (run' # r \/ state' = "stopping") => EndsThreads
    PROVE  Inv'
<1>1. CASE (run # r \/ state = "stopping") /\ UNCHANGED <<run, state, fin, stopIt>>
  BY <1>1, LockKept
<1>2. CASE run = r /\ state # "stopping" /\ EnterStopping(r, a, AfterOutcome(r), TRUE)
  <2>1. EndsThreads
    BY <1>2 DEF EnterStopping
  <2> QED  BY <1>2, <2>1, EnterKeeps, AfterOutcomeStep
<1> QED  BY <1>1, <1>2, FailCases

LEMMA InvStep == Inv /\ [Next]_vars => Inv'
<1> SUFFICES ASSUME Inv, [Next]_vars PROVE Inv'
  OBVIOUS
<1>0. TypeOK /\ TypeOK'
  BY TypeStep DEF Inv
<1>1. CASE UNCHANGED vars
  BY <1>0, <1>1 DEF Inv, OneFinaliser, Driven, Control, Starting, vars, lockVars, upVars,
                    threadVars, finVars
<1> USE DEF Unclaimed, Launching
<1>10. ASSUME NEW r \in Runs, UpFail(r) PROVE Inv'
  <2>1. Fail(r, "up") /\ UNCHANGED <<inDocker, pump, bring, expire>>
    BY <1>10 DEF UpFail, threadVars
  <2>2. (run' # r \/ state' = "stopping") => EndsThreads
    BY <1>0, <1>10, <2>1 DEF UpFail, TypeOK, EndsThreads, Live
  <2> QED  BY <1>0, <2>1, <2>2, FailKeeps, ThreadsAreActors
<1>2. ASSUME NEW r \in Runs, UpDrive(r) PROVE Inv'
  <2> USE DEF lockVars, threadVars, finVars, TypeOK, OneFinaliser, Driven, Control, Starting
  <2>1. CASE UpFile(r)
    <3>1. /\ up[r] = "filing"
          /\ up' = [up EXCEPT ![r] = "entering"] \/ up' = [up EXCEPT ![r] = "failing"]
          /\ UNCHANGED <<run, state, inDocker, pump, bring, expire, fin>>
      BY <2>1 DEF UpFile
    <3>2. inDocker' = inDocker /\ \A q \in Runs : q # r => up'[q] = up[q]
      BY <1>0, <3>1
    <3>3. up'[r] \in {"entering", "failing"}
      BY <1>0, <3>1
    <3> QED  BY <1>0, <3>1, <3>2, <3>3, WorkerMoves
  <2>2. CASE UpEnterDocker(r)
    BY <1>0, <2>2 DEF UpEnterDocker, Inv
  <2>3. CASE DockerCreates(r)
    BY <1>0, <2>3 DEF DockerCreates, upVars, Inv
  <2>4. CASE DockerReturns(r)
    BY <1>0, <2>4 DEF DockerReturns, Inv
  <2>5. CASE UpLeaveDocker(r)
    BY <1>0, <2>5 DEF UpLeaveDocker, Inv
  <2>6. CASE UpLateStop(r)
    BY <1>0, <2>6 DEF UpLateStop, Inv
  <2>7. CASE UpLateMark(r)
    BY <1>0, <2>7 DEF UpLateMark, AfterDocker, Inv
  <2>8. CASE UpThreads(r)
    BY <1>0, <2>8 DEF UpThreads, Inv
  <2> QED  BY <1>2, <2>1, <2>2, <2>3, <2>4, <2>5, <2>6, <2>7, <2>8, <1>10 DEF UpDrive
<1>3. ASSUME NEW r \in Runs, BringStep(r) PROVE Inv'
  <2> DEFINE OnlyBring == /\ bring[r] # "off"
                          /\ \A q \in Runs : q # r => bring'[q] = bring[q]
                          /\ UNCHANGED <<up, inDocker, pump, expire>>
  <2>1. OnlyBring => EndsThreads
    BY DEF EndsThreads
  <2>2. CASE BringPoll(r)
    <3>1. OnlyBring
      BY <1>0, <2>2 DEF BringPoll, BringTo, upVars, TypeOK
    <3>2. UNCHANGED <<run, state, fin>> \/ Fail(r, "bring")
      BY <2>2 DEF BringPoll, lockVars, finVars
    <3> QED  BY <1>0, <2>1, <3>1, <3>2, LockKept, FailKeeps, ThreadsAreActors
  <2>3. CASE BringCheck(r) \/ BringReset(r) \/ BringRecord(r) \/ BringFile(r)
    <3>1. OnlyBring
      BY <1>0, <2>3 DEF BringCheck, BringReset, BringRecord, BringFile, BringTo, upVars, TypeOK
    <3>2. UNCHANGED <<run, state, fin>>
      BY <2>3 DEF BringCheck, BringReset, BringRecord, BringFile, lockVars, finVars
    <3> QED  BY <1>0, <2>1, <3>1, <3>2, LockKept
  <2>4. CASE BringFail(r)
    <3>1. OnlyBring
      BY <1>0, <2>4 DEF BringFail, BringTo, upVars, TypeOK
    <3>2. Fail(r, "bring")
      BY <2>4 DEF BringFail
    <3> QED  BY <1>0, <2>1, <3>1, <3>2, FailKeeps, ThreadsAreActors
  <2>5. CASE BringFlip(r)
    <3>1. /\ OnlyBring /\ UNCHANGED <<run, fin>>
          /\ state' = IF Starting(r) THEN "running" ELSE state
      BY <1>0, <2>5 DEF BringFlip, BringTo, upVars, finVars, TypeOK
    <3>2. CASE ~Starting(r)
      BY <1>0, <2>1, <3>1, <3>2, LockKept
    <3>3. CASE Starting(r)
      <4>1. up[r] \in {"failing", "done"}
        BY <1>0, <3>1 DEF Inv, Control, TypeOK, UpPc
      <4>2. run' = r /\ run = r /\ state = "starting" /\ state' = "running" /\ r # NoRun
        BY <3>1, <3>3, RunsAssumption DEF Starting
      <4>3. OneFinaliser'
        BY <3>1, <4>2 DEF Inv, OneFinaliser
      <4>4. Driven'
        BY <3>1, <4>1, <4>2 DEF Inv, Driven
      <4>5. Control'
        BY <3>1, <4>1, <4>2 DEF Inv, Control, Starting
      <4> QED  BY <1>0, <4>3, <4>4, <4>5 DEF Inv
    <3> QED  BY <3>2, <3>3
  <2> QED  BY <1>3, <2>2, <2>3, <2>4, <2>5 DEF BringStep
<1>4. ASSUME NEW r \in Runs, PumpEnd(r) PROVE Inv'
  <2>1. Fail(r, "pump")
    BY <1>4 DEF PumpEnd
  <2>2. (run' # r \/ state' = "stopping") => EndsThreads
    BY <1>0, <1>4 DEF PumpEnd, EndsThreads, Live, TypeOK, upVars
  <2> QED  BY <1>0, <2>1, <2>2, FailKeeps, ThreadsAreActors
<1>5. ASSUME NEW r \in Runs, ExpireEnd(r) PROVE Inv'
  <2>1. (run' # r \/ state' = "stopping") => EndsThreads
    BY <1>0, <1>5 DEF ExpireEnd, EndsThreads, Live, TypeOK, upVars
  <2>2. CASE Down(r, "expire")
    BY <1>0, <2>1, <2>2, EnterKeeps, ThreadsAreActors DEF Down, EnterStopping
  <2>3. CASE (run # r \/ state = "stopping") /\ UNCHANGED <<lockVars, finVars>>
    BY <1>0, <2>1, <2>3, LockKept DEF lockVars, finVars
  <2> QED  BY <1>5, <2>2, <2>3 DEF ExpireEnd
<1>6. ASSUME NEW r \in Runs, ContainerExits(r) PROVE Inv'
  BY <1>0, <1>6, LockKept DEF ContainerExits, EndsThreads, lockVars, upVars, threadVars, finVars
<1>7. ASSUME NEW r \in Runs, NEW a \in Actors, FinishStep(r, a) PROVE Inv'
  <2>1. CASE UNCHANGED lockVars /\ \E pc \in Finishing : FinTo(r, a, pc) /\ fin[r][a] \in Finishing
                 /\ UNCHANGED <<upVars, threadVars>>
    BY <1>0, <2>1 DEF FinTo, TypeOK, Inv, OneFinaliser, Driven, Control, Starting, Finishing,
                      lockVars, upVars, threadVars
  <2>2. CASE FinishRelease(r, a)
    <3>1. /\ run = r /\ state = "stopping" /\ r # NoRun
          /\ run' = NoRun /\ state' \in {"idle", "error"}
          /\ UNCHANGED <<up, inDocker, pump, bring, expire>>
      BY <2>2, RunsAssumption DEF FinishRelease, Inv, OneFinaliser, Finishing, FinPc, upVars, threadVars
    <3>2. /\ fin'[r][a] = "done"
          /\ \A q \in Runs, b \in Actors : q # r \/ b # a => fin'[q][b] = fin[q][b]
      BY <1>0, <2>2 DEF FinishRelease, FinTo, TypeOK
    <3>3. \A q \in Runs, b \in Actors : q # r \/ b # a => fin[q][b] \notin Finishing
      BY <2>2, <3>1 DEF FinishRelease, Inv, OneFinaliser, Finishing, FinPc
    <3>4. OneFinaliser'
      BY <2>2, <3>2, <3>3 DEF FinishRelease, Inv, OneFinaliser, Finishing
    <3>5. Driven'
      BY <3>1 DEF Driven
    <3>6. Control'
      BY <2>2, <3>1, <3>2, RunsAssumption DEF FinishRelease, Inv, Control, Starting
    <3> QED  BY <1>0, <3>4, <3>5, <3>6 DEF Inv
  <2> QED
    BY <1>7, <2>1, <2>2, AfterOutcomeStep
       DEF FinishStep, FinishOutcome, FinishRecorder, FinishStop, FinishMark, FinishEnd, FinishFile,
           Finishing, FinPc
<1>8. ASSUME NEW d \in Downs, CallerDown(d) PROVE Inv'
  <2>1. PICK r \in Runs : Down(r, d)
    BY <1>8 DEF CallerDown
  <2>2. EndsThreads
    BY <1>8 DEF CallerDown, EndsThreads, upVars, threadVars
  <2> QED  BY <1>0, <2>1, <2>2, EnterKeeps, ThreadsAreActors DEF Down
<1>9. ASSUME NEW r \in Runs, UpRefuse(r) \/ UpClaim(r) PROVE Inv'
  <2>1. /\ up[r] = "new" /\ UNCHANGED <<inDocker, pump, bring, expire, fin>>
        /\ \A q \in Runs : q # r => up'[q] = up[q]
    BY <1>0, <1>9 DEF UpRefuse, UpClaim, threadVars, finVars, TypeOK
  <2>2. CASE up'[r] = "refused" /\ UNCHANGED <<run, state>>
    BY <1>0, <2>1, <2>2, WorkerMoves
  <2>3. CASE up'[r] = "filing" /\ run = NoRun /\ run' = r /\ state' = "starting"
    <3>1. \A q \in Runs, a \in Actors : fin[q][a] \notin Finishing
      BY <2>3, RunsAssumption DEF Inv, OneFinaliser
    <3>2. OneFinaliser'
      BY <2>1, <2>3, <3>1 DEF Inv, OneFinaliser
    <3>3. Driven'
      BY <2>1, <2>3, RunsAssumption DEF Driven
    <3>4. Control'
      BY <1>0, <2>1, <2>3, RunsAssumption DEF Inv, Control, Starting
    <3> QED  BY <1>0, <3>2, <3>3, <3>4 DEF Inv
  <2> QED
    BY <1>0, <1>9, <2>2, <2>3 DEF UpRefuse, UpClaim, lockVars, TypeOK
<1> QED
  BY <1>1, <1>2, <1>3, <1>4, <1>5, <1>6, <1>7, <1>8, <1>9 DEF Next, DriveNext

(* Spec keeps Inv: one thread finalises each run, and every claimed run has a
   thread that will. *)
THEOREM InvHolds == Spec => []Inv
  BY InvInit, InvStep, PTL DEF Spec

(* Whatever ends a run first, only one thread runs its _finish. *)
THEOREM OneFinaliserHolds == Spec => []OneFinaliser
  BY InvHolds, PTL DEF Inv

(* The host is never left busy with a run nobody drives. *)
THEOREM DrivenHolds == Spec => []Driven
  BY InvHolds, PTL DEF Inv

-----------------------------------------------------------------------------
(* The documented lifecycle. *)

LEMMA ReleasedStep ==
    ASSUME Inv, Inv', UNCHANGED run, \A q \in Runs : Claimed(q)' = Claimed(q)
    PROVE  {q \in Runs : Released(q)}' = {q \in Runs : Released(q)}
  BY DEF Released

LEMMA LifecycleInit == Init => Lifecycle!Init
  BY DEF Init, Lifecycle!Init, Released, Claimed, Unclaimed

(* Each step of the agent is a step of the lifecycle or leaves it as it was. *)
LEMMA LifecycleStep == Inv /\ Inv' /\ [Next]_vars => [Lifecycle!Next]_Lifecycle!vars
<1> SUFFICES ASSUME Inv, Inv', [Next]_vars PROVE [Lifecycle!Next]_Lifecycle!vars
  OBVIOUS
<1> DEFINE Past == {q \in Runs : Released(q)}
<1>1. ASSUME UNCHANGED <<run, state>>, \A q \in Runs : Claimed(q)' = Claimed(q)
      PROVE  UNCHANGED Lifecycle!vars
  BY <1>1, ReleasedStep DEF Lifecycle!vars
<1>2. ASSUME NEW r \in Runs, NEW a, NEW step, NEW stop, run = r, state # "stopping",
             EnterStopping(r, a, step, stop), \A q \in Runs : Claimed(q)' = Claimed(q)
      PROVE  Lifecycle!Next
  <2>1. Past' = Past
    BY <1>2, ReleasedStep DEF EnterStopping
  <2>2. state \in {"starting", "running"}
    BY <1>2, RunsAssumption DEF Inv, TypeOK, Driven, States
  <2> QED  BY <1>2, <2>1, <2>2 DEF EnterStopping, Lifecycle!Next, Lifecycle!Stop
<1>3. ASSUME NEW r \in Runs, NEW a, Fail(r, a), \A q \in Runs : Claimed(q)' = Claimed(q)
      PROVE  [Lifecycle!Next]_Lifecycle!vars
  BY <1>1, <1>2, <1>3, FailCases
<1>4. CASE UNCHANGED vars
  BY <1>1, <1>4 DEF vars, lockVars, upVars, Claimed
<1>5. ASSUME NEW r \in Runs, UpDrive(r) PROVE [Lifecycle!Next]_Lifecycle!vars
  <2>1. \A q \in Runs : Claimed(q)' = Claimed(q)
    <3>1. up' = up \/ \E pc \in UpPc \ Unclaimed : up[r] \notin Unclaimed /\ up' = [up EXCEPT ![r] = pc]
      BY <1>5 DEF UpDrive, UpFile, UpEnterDocker, DockerCreates, DockerReturns, UpLeaveDocker,
                  UpLateStop, UpLateMark, AfterDocker, UpThreads, UpFail, upVars, UpPc, Unclaimed, Launching
    <3>2. up \in [Runs -> UpPc]
      BY DEF Inv, TypeOK
    <3>3. \A q \in Runs : up'[q] = up[q] \/ (up[q] \notin Unclaimed /\ up'[q] \notin Unclaimed)
      BY ONLY <3>1, <3>2
    <3> QED  BY <3>3 DEF Claimed
  <2>2. UNCHANGED <<run, state>> \/ Fail(r, "up")
    BY <1>5 DEF UpDrive, UpFile, UpEnterDocker, DockerCreates, DockerReturns, UpLeaveDocker,
                UpLateStop, UpLateMark, UpThreads, UpFail, lockVars
  <2> QED  BY <1>1, <1>3, <2>1, <2>2
<1>6. ASSUME NEW r \in Runs, BringStep(r) PROVE [Lifecycle!Next]_Lifecycle!vars
  <2>1. \A q \in Runs : Claimed(q)' = Claimed(q)
    BY <1>6 DEF BringStep, BringPoll, BringCheck, BringReset, BringRecord, BringFail, BringFile,
                BringFlip, upVars, Claimed
  <2>2. \/ UNCHANGED <<run, state>> \/ Fail(r, "bring")
        \/ run' = run /\ Starting(r) /\ state' = "running"
    BY <1>6 DEF BringStep, BringPoll, BringCheck, BringReset, BringRecord, BringFail, BringFile,
                BringFlip, lockVars
  <2>3. CASE run' = run /\ Starting(r) /\ state' = "running"
    <3>1. Past' = Past
      BY <2>1, <2>3, ReleasedStep
    <3> QED  BY <2>3, <3>1 DEF Starting, Lifecycle!Next, Lifecycle!Ready
  <2> QED  BY <1>1, <1>3, <2>1, <2>2, <2>3
<1>7. ASSUME NEW r \in Runs, PumpEnd(r) PROVE [Lifecycle!Next]_Lifecycle!vars
  BY <1>3, <1>7 DEF PumpEnd, upVars, Claimed
<1>8. ASSUME NEW r \in Runs, ExpireEnd(r) PROVE [Lifecycle!Next]_Lifecycle!vars
  <2>1. \A q \in Runs : Claimed(q)' = Claimed(q)
    BY <1>8 DEF ExpireEnd, upVars, Claimed
  <2> QED  BY <1>1, <1>2, <1>8, <2>1 DEF ExpireEnd, Down, lockVars
<1>9. ASSUME NEW r \in Runs, ContainerExits(r) PROVE [Lifecycle!Next]_Lifecycle!vars
  BY <1>1, <1>9 DEF ContainerExits, lockVars, upVars, Claimed
<1>10. ASSUME NEW r \in Runs, NEW a \in Actors, FinishStep(r, a)
       PROVE  [Lifecycle!Next]_Lifecycle!vars
  <2>1. \A q \in Runs : Claimed(q)' = Claimed(q)
    BY <1>10 DEF FinishStep, FinishOutcome, FinishRecorder, FinishStop, FinishMark, FinishEnd,
                 FinishFile, FinishRelease, upVars, Claimed
  <2>2. UNCHANGED <<run, state>> \/ FinishRelease(r, a)
    BY <1>10 DEF FinishStep, FinishOutcome, FinishRecorder, FinishStop, FinishMark, FinishEnd,
                 FinishFile, lockVars
  <2>3. CASE FinishRelease(r, a)
    <3>1. run = r /\ state = "stopping" /\ run' = NoRun /\ state' \in {"idle", "error"}
      BY <2>3 DEF FinishRelease, Inv, OneFinaliser, Finishing, FinPc
    <3>2. Claimed(r)
      BY <3>1, RunsAssumption DEF Inv, Control, Claimed
    <3>3. Past' = Past \cup {run}
      BY <2>1, <3>1, <3>2, RunsAssumption DEF Released
    <3> QED  BY <3>1, <3>3 DEF Lifecycle!Next, Lifecycle!LetGo
  <2> QED  BY <1>1, <2>1, <2>2, <2>3
<1>11. ASSUME NEW d \in Downs, CallerDown(d) PROVE [Lifecycle!Next]_Lifecycle!vars
  <2>1. \A q \in Runs : Claimed(q)' = Claimed(q)
    BY <1>11 DEF CallerDown, upVars, Claimed
  <2> QED  BY <1>2, <1>11, <2>1 DEF CallerDown, Down
<1>12. ASSUME NEW r \in Runs, UpRefuse(r) PROVE [Lifecycle!Next]_Lifecycle!vars
  <2>1. \A q \in Runs : Claimed(q)' = Claimed(q)
    BY <1>12 DEF UpRefuse, Claimed, Unclaimed, Inv, TypeOK
  <2> QED  BY <1>1, <1>12, <2>1 DEF UpRefuse, lockVars
<1>13. ASSUME NEW r \in Runs, UpClaim(r) PROVE [Lifecycle!Next]_Lifecycle!vars
  <2>1. CASE run # NoRun
    <3>1. \A q \in Runs : Claimed(q)' = Claimed(q)
      BY <1>13, <2>1 DEF UpClaim, Claimed, Unclaimed, Inv, TypeOK
    <3> QED  BY <1>1, <1>13, <2>1, <3>1 DEF UpClaim, lockVars
  <2>2. CASE run = NoRun
    <3>1. /\ up[r] = "new" /\ up' = [up EXCEPT ![r] = "filing"]
          /\ run' = r /\ state' = "starting"
      BY <1>13, <2>2 DEF UpClaim
    <3>2. state \in {"idle", "error"}
      BY <2>2 DEF Inv, Driven
    <3>3. Past' = Past
      BY <2>2, <3>1, RunsAssumption DEF Released, Claimed, Unclaimed, Inv, TypeOK
    <3>4. r \notin Past
      BY <3>1 DEF Released, Claimed, Unclaimed
    <3>5. Lifecycle!Claim(r)
      BY <3>1, <3>2, <3>3, <3>4 DEF Lifecycle!Claim
    <3> QED  BY <3>5 DEF Lifecycle!Next
  <2> QED  BY <2>1, <2>2
<1> QED
  BY <1>4, <1>5, <1>6, <1>7, <1>8, <1>9, <1>10, <1>11, <1>12, <1>13 DEF Next, DriveNext

(* The agent implements the lifecycle its documentation draws: one run at a
   time, each ended once through "stopping" and never active again. *)
THEOREM LifecycleImplemented == Spec => ImplementsLifecycle
  BY LifecycleInit, LifecycleStep, InvHolds, PTL DEF Spec, ImplementsLifecycle, Lifecycle!Spec

-----------------------------------------------------------------------------
(* No container is left with nobody to stop it. *)

LEMMA LeakInit == Init => LeakInv
  BY DEF Init, LeakInv, Covered, Present, StopDone, Finishing

(* A removal that cannot fail leaves no container. *)
LEMMA Removed ==
    ASSUME TypeOK, "stop" \notin Faults, NEW r \in Runs, RunnerStop(r)
    PROVE  ~Present(r)' /\ \A q \in Runs : q # r => container'[q] = container[q]
  BY DEF TypeOK, RunnerStop, Gone, Present, worldVars

LEMMA LeakStep == Inv /\ Inv' /\ LeakInv /\ [Next]_vars => LeakInv'
<1> SUFFICES ASSUME Inv, Inv', LeakInv, [Next]_vars, "stop" \notin Faults PROVE LeakInv'
  BY DEF LeakInv
<1>0. TypeOK /\ TypeOK'
  BY DEF Inv
<1> USE DEF LeakInv, Covered, StopDone, Finishing
\* Where the finalisers and the active run stay, cover must stay for the runs
\* that are not starting or running.
<1>1. ASSUME UNCHANGED <<run, fin, stopIt>>,
             \A q \in Runs : (run # q \/ state = "stopping") /\ Covered(q) => Covered(q)'
      PROVE  LeakInv'
  <2>1. \A q \in Runs, a \in Actors : fin[q][a] \in Finishing => state = "stopping"
    BY DEF Inv, OneFinaliser
  <2>2. StopDone \subseteq Finishing
    BY DEF FinPc
  <2> QED  BY <1>1, <2>1, <2>2
<1>2. ASSUME NEW r \in Runs, NEW a \in Actors, NEW step \in {"outcome", "recorder", "stop"}, NEW stop \in BOOLEAN,
             EnterStopping(r, a, step, stop), run = r, state # "stopping",
             stop \/ inDocker[r], container' = container,
             \A q \in Runs : up'[q] = up[q] \/ up[q] = "failing"
      PROVE  LeakInv'
  <2>1. /\ run' = r /\ fin'[r][a] = step
        /\ \A b \in Actors : fin[r][b] = "no"
        /\ \A q \in Runs, b \in Actors : q # r \/ b # a => fin'[q][b] = fin[q][b]
    BY <1>2, Entering
  <2>2. stopIt'[r] = stop /\ \A q \in Runs : q # r => stopIt'[q] = stopIt[q]
    BY <1>0, <1>2 DEF EnterStopping, TypeOK
  <2>3. \A q \in Runs : Covered(q) => Covered(q)'
    BY <1>2 DEF Present
  <2>4. ~stop => Covered(r)'
    BY <1>2 DEF Inv, Control
  <2> QED  BY <1>2, <2>1, <2>2, <2>3, <2>4
<1>3. ASSUME NEW r \in Runs, NEW a \in Actors, Fail(r, a), container' = container,
             \A q \in Runs : up'[q] = up[q] \/ up[q] = "failing"
      PROVE  LeakInv'
  <2>1. CASE UNCHANGED <<run, state, fin, stopIt>>
    BY <1>1, <1>3, <2>1 DEF Present
  <2> QED  BY <1>2, <1>3, <2>1, FailCases, AfterOutcomeStep
<1>4. CASE UNCHANGED vars
  BY <1>1, <1>4 DEF vars, lockVars, upVars, finVars, worldVars, Present
<1>5. ASSUME NEW r \in Runs, UpDrive(r) PROVE LeakInv'
  <2> USE DEF lockVars, upVars, finVars, worldVars, Present
  <2>1. CASE UpFile(r)
    BY <1>0, <1>1, <2>1 DEF UpFile, TypeOK
  <2>2. CASE UpEnterDocker(r)
    BY <1>0, <1>1, <2>2 DEF UpEnterDocker, TypeOK
  <2>3. CASE DockerCreates(r)
    BY <1>0, <1>1, <2>3 DEF DockerCreates, TypeOK
  <2>4. CASE DockerReturns(r)
    BY <1>0, <1>1, <2>4 DEF DockerReturns, TypeOK
  <2>5. CASE UpLeaveDocker(r)
    BY <1>0, <1>1, <2>5 DEF UpLeaveDocker, TypeOK, Starting
  <2>6. CASE UpLateStop(r)
    BY <1>0, <1>1, <2>6, Removed DEF UpLateStop, TypeOK
  <2>7. CASE UpLateMark(r)
    BY <1>0, <1>1, <2>7 DEF UpLateMark, AfterDocker, TypeOK
  <2>8. CASE UpThreads(r)
    BY <1>0, <1>1, <2>8 DEF UpThreads, TypeOK
  <2>9. CASE UpFail(r)
    BY <1>0, <1>3, <2>9, ThreadsAreActors DEF UpFail, TypeOK
  <2> QED  BY <1>5, <2>1, <2>2, <2>3, <2>4, <2>5, <2>6, <2>7, <2>8, <2>9 DEF UpDrive
<1>6. ASSUME NEW r \in Runs, BringStep(r) PROVE LeakInv'
  <2>1. up' = up /\ container' = container
    BY <1>6 DEF BringStep, BringPoll, BringCheck, BringReset, BringRecord, BringFail, BringFile,
                BringFlip, upVars, worldVars
  <2>2. UNCHANGED <<run, fin, stopIt>> \/ Fail(r, "bring")
    BY <1>6 DEF BringStep, BringPoll, BringCheck, BringReset, BringRecord, BringFail, BringFile,
                BringFlip, lockVars, finVars
  <2> QED  BY <1>1, <1>3, <2>1, <2>2, ThreadsAreActors DEF Present
<1>7. ASSUME NEW r \in Runs, PumpEnd(r) PROVE LeakInv'
  BY <1>3, <1>7, ThreadsAreActors DEF PumpEnd, upVars, worldVars
<1>8. ASSUME NEW r \in Runs, ExpireEnd(r) PROVE LeakInv'
  <2>1. up' = up /\ container' = container
    BY <1>8 DEF ExpireEnd, upVars, worldVars
  <2>2. CASE Down(r, "expire")
    BY <1>0, <1>2, <2>1, <2>2, ThreadsAreActors DEF Down, TypeOK
  <2> QED  BY <1>1, <1>8, <2>1, <2>2 DEF ExpireEnd, lockVars, finVars, Present
<1>9. ASSUME NEW r \in Runs, ContainerExits(r) PROVE LeakInv'
  BY <1>0, <1>1, <1>9 DEF ContainerExits, Gone, Present, TypeOK, lockVars, upVars, finVars
<1>10. ASSUME NEW r \in Runs, NEW a \in Actors, FinishStep(r, a) PROVE LeakInv'
  <2>1. /\ run = r /\ state = "stopping"
        /\ \A q \in Runs, b \in Actors : q # r \/ b # a => fin'[q][b] = fin[q][b]
        /\ \A q \in Runs, b \in Actors : q # r \/ b # a => fin[q][b] \notin Finishing
        /\ UNCHANGED <<up, stopIt>>
    <3>1. fin[r][a] \in Finishing
      BY <1>10 DEF FinishStep, FinishOutcome, FinishRecorder, FinishStop, FinishMark, FinishEnd,
                   FinishFile, FinishRelease, FinPc
    <3>2. \E pc : FinTo(r, a, pc)
      BY <1>10 DEF FinishStep, FinishOutcome, FinishRecorder, FinishStop, FinishMark, FinishEnd,
                   FinishFile, FinishRelease
    <3>3. UNCHANGED <<up, stopIt>>
      BY <1>10 DEF FinishStep, FinishOutcome, FinishRecorder, FinishStop, FinishMark, FinishEnd,
                   FinishFile, FinishRelease, upVars
    <3> QED  BY <1>0, <3>1, <3>2, <3>3 DEF Inv, OneFinaliser, FinTo, TypeOK
  <2>2. StopDone \subseteq Finishing
    BY DEF FinPc
  <2>3. ASSUME container' = container, run' = run,
               fin'[r][a] \in StopDone => fin[r][a] \in StopDone,
               fin[r][a] \in Finishing
        PROVE  LeakInv'
    BY <2>1, <2>2, <2>3 DEF Present
  <2>4. CASE FinishOutcome(r, a) \/ FinishRecorder(r, a)
    BY <1>0, <2>3, <2>4, AfterOutcomeStep DEF FinishOutcome, FinishRecorder, FinTo, TypeOK, AfterOutcome,
                                    FinPc, lockVars, worldVars
  <2>5. CASE FinishMark(r, a) \/ FinishEnd(r, a) \/ FinishFile(r, a)
    BY <1>0, <2>3, <2>5, <2>2 DEF FinishMark, FinishEnd, FinishFile, FinTo, TypeOK, lockVars, worldVars
  <2>6. CASE FinishStop(r, a)
    <3>1. Covered(r)'
      <4>1. CASE stopIt[r]
        BY <1>0, <2>6, <4>1, Removed DEF FinishStop
      <4>2. CASE ~stopIt[r]
        BY <2>1, <2>6, <4>2 DEF FinishStop, FinPc, worldVars, Present
      <4> QED  BY <4>1, <4>2
    <3>2. \A q \in Runs : q # r => container'[q] = container[q]
      BY <1>0, <2>6, Removed DEF FinishStop, worldVars
    <3>3. run' = run
      BY <2>6 DEF FinishStop, lockVars
    <3> QED  BY <2>1, <2>2, <3>1, <3>2, <3>3 DEF Present
  <2>7. CASE FinishRelease(r, a)
    <3>1. Covered(r)
      BY <2>7 DEF FinishRelease
    <3>2. container' = container /\ fin'[r][a] = "done"
      BY <1>0, <2>7 DEF FinishRelease, FinTo, TypeOK, worldVars
    <3> QED  BY <2>1, <2>2, <3>1, <3>2 DEF Present
  <2> QED  BY <1>10, <2>4, <2>5, <2>6, <2>7 DEF FinishStep
<1>11. ASSUME NEW d \in Downs, CallerDown(d) PROVE LeakInv'
  <2>1. PICK r \in Runs : Down(r, d)
    BY <1>11 DEF CallerDown
  <2> QED  BY <1>0, <1>2, <1>11, <2>1, ThreadsAreActors DEF CallerDown, Down, TypeOK, upVars, worldVars
<1>12. ASSUME NEW r \in Runs, UpRefuse(r) \/ UpClaim(r) PROVE LeakInv'
  <2>1. /\ UNCHANGED <<fin, stopIt, container>>
        /\ run' = run \/ run = NoRun
        /\ \A q \in Runs : up'[q] = up[q] \/ up[q] = "new"
    BY <1>0, <1>12 DEF UpRefuse, UpClaim, lockVars, finVars, worldVars, TypeOK
  <2> QED  BY <2>1, RunsAssumption DEF Present
<1> QED
  BY <1>4, <1>5, <1>6, <1>7, <1>8, <1>9, <1>10, <1>11, <1>12 DEF Next, DriveNext

(* As long as Docker removes what it is asked to, a container outlives its run
   only while the worker that started it is still there to stop it. *)
THEOREM NoLeakHolds == Spec => []NoLeak
<1>1. Inv /\ LeakInv => NoLeak
  BY DEF LeakInv, Covered, NoLeak
<1> QED  BY <1>1, LeakInit, LeakStep, InvHolds, PTL DEF Spec

-----------------------------------------------------------------------------
(* The record a run leaves. *)

RecordInv == EndedInv /\ FiledInv /\ SeededInv

LEMMA RecordInit == Init => RecordInv
  BY RunsAssumption DEF Init, RecordInv, EndedInv, FiledInv, SeededInv, Released, Claimed, Unclaimed

(* A step that leaves the finalisers, the record and what it is made of. *)
RecordKept ==
    /\ UNCHANGED <<fin, ended, disk, seeded, run>>
    /\ state' = state
    /\ \A q \in Runs : /\ Claimed(q)' = Claimed(q)
                       /\ \/ bring'[q] = bring[q]
                          \/ bring'[q] \in {"off", "done", "poll", "seed", "reset"}
                          \/ /\ bring[q] \in {"recCheck", "record", "last"}
                             /\ bring'[q] \in {"record", "last", "file"}

LEMMA RecordKeeps ==
    ASSUME Inv, RecordInv, RecordKept
    PROVE  RecordInv'
<1>1. EndedInv'
  BY DEF RecordInv, EndedInv, RecordKept
<1>2. FiledInv'
  BY DEF RecordInv, FiledInv, RecordKept, Released
<1>3. SeededInv'
  <2>1. \A q \in Runs : bring'[q] \in {"recCheck", "record", "last", "file", "flip"} => seeded'[q]
    BY DEF RecordInv, SeededInv, RecordKept
  <2>2. \A q \in Runs : bring'[q] = "flip" => bring[q] = "flip"
    BY DEF RecordKept
  <2> QED  BY <2>1, <2>2 DEF RecordInv, SeededInv, RecordKept
<1> QED  BY <1>1, <1>2, <1>3 DEF RecordInv

(* Entering "stopping": nothing of the record changes, and nothing is running. *)
LEMMA RecordEnter ==
    ASSUME Inv, RecordInv, NEW r \in Runs, NEW a \in Actors,
           NEW step \in {"outcome", "recorder", "stop"}, NEW stop,
           run = r, state # "stopping", EnterStopping(r, a, step, stop),
           UNCHANGED <<ended, disk, seeded>>,
           \A q \in Runs : Claimed(q)' = Claimed(q),
           \A q \in Runs : bring'[q] = bring[q] \/ bring'[q] = "done"
    PROVE  RecordInv'
<1>1. /\ run' = r /\ state' = "stopping" /\ fin'[r][a] = step
      /\ \A q \in Runs, b \in Actors : q # r \/ b # a => fin'[q][b] = fin[q][b]
  BY Entering
<1>2. EndedInv'
  BY <1>1 DEF RecordInv, EndedInv
<1>3. FiledInv'
  BY <1>1 DEF RecordInv, FiledInv, Released
<1>4. SeededInv'
  BY <1>1 DEF RecordInv, SeededInv
<1> QED  BY <1>2, <1>3, <1>4 DEF RecordInv

LEMMA RecordFail ==
    ASSUME Inv, RecordInv, NEW r \in Runs, NEW a \in Actors, Fail(r, a),
           UNCHANGED <<ended, disk, seeded>>,
           \A q \in Runs : Claimed(q)' = Claimed(q),
           \A q \in Runs : bring'[q] = bring[q] \/ bring'[q] = "done"
    PROVE  RecordInv'
<1>1. CASE UNCHANGED <<run, state, fin, stopIt>>
  BY <1>1, RecordKeeps DEF RecordKept
<1> QED  BY <1>1, FailCases, RecordEnter, AfterOutcomeStep

(* The ways a summary is written. *)
LEMMA Writes ==
    ASSUME TypeOK, EndedInv, NEW r \in Runs, Filed(r) \/ Unfiled(r)
    PROVE  /\ \A q \in Runs : q # r => disk'[q] = disk[q]
           /\ ended[r] /\ "disk" \notin Faults => disk'[r] = "closed"
           /\ seeded[r] /\ ~ended[r] /\ "disk" \notin Faults => disk'[r] = "ready"
           /\ disk'[r] = "closed" => ended[r]
           /\ disk[r] = "closed" => disk'[r] = "closed"
  BY DEF TypeOK, EndedInv, Filed, Unfiled, View

LEMMA ClaimedEndInit == Init => OnlyClaimedEnd
  BY DEF Init, OnlyClaimedEnd

LEMMA ClaimedEndStep == Inv /\ OnlyClaimedEnd /\ [Next]_vars => OnlyClaimedEnd'
<1> SUFFICES ASSUME Inv, OnlyClaimedEnd, [Next]_vars PROVE OnlyClaimedEnd'
  OBVIOUS
<1>0. TypeOK
  BY DEF Inv
<1> DEFINE Stay == UNCHANGED <<up, ended>>
           Kept(r) == /\ \E pc \in UpPc : /\ up' = [up EXCEPT ![r] = pc]
                                          /\ up[r] \in Unclaimed \/ pc \notin Unclaimed
                      /\ UNCHANGED ended
<1>1. CASE UNCHANGED vars
  BY <1>1 DEF vars, upVars, memVars, OnlyClaimedEnd, Claimed
<1>2. ASSUME NEW r \in Runs, Kept(r) PROVE OnlyClaimedEnd'
  <2>1. PICK pc \in UpPc : /\ up' = [up EXCEPT ![r] = pc]
                           /\ up[r] \in Unclaimed \/ pc \notin Unclaimed
    BY <1>2
  <2>2. \A q \in Runs : up[q] \notin Unclaimed => up'[q] \notin Unclaimed
    BY <1>0, <2>1 DEF TypeOK
  <2> QED  BY <1>2, <2>2 DEF OnlyClaimedEnd, Claimed
<1>3. ASSUME Stay PROVE OnlyClaimedEnd'
  BY <1>3 DEF OnlyClaimedEnd, Claimed
<1>4. ASSUME NEW r \in Runs, UpDrive(r) PROVE OnlyClaimedEnd'
  <2>1. Stay \/ Kept(r)
    BY <1>4 DEF UpDrive, UpFile, UpEnterDocker, DockerCreates, DockerReturns, UpLeaveDocker,
                UpLateStop, UpLateMark, AfterDocker, UpThreads, UpFail, upVars, memVars, UpPc,
                Unclaimed, Launching
  <2> QED  BY <1>2, <1>3, <2>1
<1>5. ASSUME NEW r \in Runs, UpRefuse(r) \/ UpClaim(r) PROVE OnlyClaimedEnd'
  <2>1. Kept(r)
    BY <1>5 DEF UpRefuse, UpClaim, memVars, UpPc, Unclaimed, Launching
  <2> QED  BY <1>2, <2>1
<1>6. ASSUME NEW r \in Runs, BringStep(r) \/ PumpEnd(r) \/ ExpireEnd(r) \/ ContainerExits(r)
      PROVE  OnlyClaimedEnd'
  <2>1. Stay
    BY <1>6 DEF BringStep, BringPoll, BringCheck, BringReset, BringRecord, BringFail, BringFile,
                BringFlip, PumpEnd, ExpireEnd, ContainerExits, upVars, memVars
  <2> QED  BY <1>3, <2>1
<1>7. ASSUME NEW r \in Runs, NEW a \in Actors, FinishStep(r, a) PROVE OnlyClaimedEnd'
  <2>1. Stay \/ FinishEnd(r, a)
    BY <1>7 DEF FinishStep, FinishOutcome, FinishRecorder, FinishStop, FinishMark, FinishFile,
                FinishRelease, upVars, memVars
  <2>2. CASE FinishEnd(r, a)
    <3>1. up[r] \notin Unclaimed
      BY <2>2 DEF FinishEnd, Inv, Control
    <3> QED  BY <1>0, <2>2, <3>1 DEF FinishEnd, upVars, OnlyClaimedEnd, Claimed, TypeOK
  <2> QED  BY <1>3, <2>1, <2>2
<1>8. ASSUME NEW d \in Downs, CallerDown(d) PROVE OnlyClaimedEnd'
  BY <1>3, <1>8 DEF CallerDown, upVars, memVars
<1> QED  BY <1>1, <1>4, <1>5, <1>6, <1>7, <1>8 DEF Next, DriveNext

LEMMA RecordStep == Inv /\ Inv' /\ OnlyClaimedEnd /\ RecordInv /\ [Next]_vars => RecordInv'
<1> SUFFICES ASSUME Inv, Inv', OnlyClaimedEnd, RecordInv, [Next]_vars PROVE RecordInv'
  OBVIOUS
<1>0. TypeOK /\ TypeOK' /\ EndedInv /\ FiledInv /\ SeededInv
  BY DEF Inv, RecordInv
<1>1. CASE UNCHANGED vars
  BY <1>1, RecordKeeps DEF RecordKept, vars, lockVars, upVars, threadVars, finVars, memVars, Claimed
<1>2. ASSUME NEW r \in Runs, UpDrive(r) PROVE RecordInv'
  <2>1. \A q \in Runs : Claimed(q)' = Claimed(q)
    <3>1. up' = up \/ \E pc \in UpPc \ Unclaimed : up[r] \notin Unclaimed /\ up' = [up EXCEPT ![r] = pc]
      BY <1>2 DEF UpDrive, UpFile, UpEnterDocker, DockerCreates, DockerReturns, UpLeaveDocker,
                  UpLateStop, UpLateMark, AfterDocker, UpThreads, UpFail, upVars, UpPc, Unclaimed, Launching
    <3>2. \A q \in Runs : up'[q] \in Unclaimed <=> up[q] \in Unclaimed
      <4>1. CASE up' = up
        BY <4>1
      <4>2. ASSUME NEW pc \in UpPc \ Unclaimed, up[r] \notin Unclaimed, up' = [up EXCEPT ![r] = pc]
            PROVE  \A q \in Runs : up'[q] \in Unclaimed <=> up[q] \in Unclaimed
        BY <1>0, <4>2 DEF TypeOK
      <4> QED  BY <3>1, <4>1, <4>2
    <3> QED  BY <3>2 DEF Claimed
  <2>2. CASE UpFile(r)
    <3>1. Filed(r) \/ Unfiled(r)
      BY <2>2 DEF UpFile
    <3>2. UNCHANGED <<run, state, fin, bring, ended, seeded>>
      BY <2>2 DEF UpFile, lockVars, threadVars, finVars, memVars
    <3>3. /\ \A q \in Runs : q # r => disk'[q] = disk[q]
          /\ ended[r] /\ "disk" \notin Faults => disk'[r] = "closed"
          /\ disk'[r] = "closed" => ended[r]
      BY <1>0, <3>1, Writes
    <3>4. up[r] = "filing" /\ bring[r] = "off" /\ ~(run = r /\ state = "running")
      BY <2>2 DEF UpFile, Inv, Control, Launching
    <3>5. EndedInv'
      BY <1>0, <3>2, <3>3 DEF EndedInv
    <3>6. FiledInv'
      BY <1>0, <2>1, <3>2, <3>3 DEF FiledInv, EndedInv, Released
    <3>7. state = "running" => run \in Runs
      BY DEF Inv, Driven, TypeOK
    <3>8. SeededInv'
      BY <1>0, <3>2, <3>3, <3>4, <3>7 DEF SeededInv
    <3> QED  BY <3>5, <3>6, <3>8 DEF RecordInv
  <2>3. CASE UpEnterDocker(r) \/ DockerCreates(r) \/ DockerReturns(r) \/ UpLeaveDocker(r)
             \/ UpLateStop(r) \/ UpLateMark(r)
    BY <2>1, <2>3, RecordKeeps
       DEF RecordKept, UpEnterDocker, DockerCreates, DockerReturns, UpLeaveDocker, UpLateStop,
           UpLateMark, lockVars, threadVars, finVars, memVars
  <2>4. CASE UpThreads(r)
    <3>1. \A q \in Runs : bring'[q] = bring[q] \/ bring'[q] = "poll"
      BY <1>0, <2>4 DEF UpThreads, TypeOK
    <3>2. UNCHANGED <<fin, ended, disk, seeded, run, state>>
      BY <2>4 DEF UpThreads, lockVars, finVars, memVars
    <3> QED  BY <2>1, <3>1, <3>2, RecordKeeps DEF RecordKept
  <2>5. CASE UpFail(r)
    BY <2>1, <2>5, RecordFail, ThreadsAreActors DEF UpFail, threadVars, memVars
  <2> QED  BY <1>2, <2>2, <2>3, <2>4, <2>5 DEF UpDrive
<1>3. ASSUME NEW r \in Runs, BringStep(r) PROVE RecordInv'
  <2>1. \A q \in Runs : Claimed(q)' = Claimed(q)
    BY <1>3 DEF BringStep, BringPoll, BringCheck, BringReset, BringRecord, BringFail, BringFile,
                BringFlip, upVars, Claimed
  <2>2. CASE BringPoll(r) \/ BringFail(r)
    <3>1. \A q \in Runs : bring'[q] = bring[q] \/ bring'[q] \in {"done", "seed"}
      BY <1>0, <2>2 DEF BringPoll, BringFail, BringTo, TypeOK
    <3>2. UNCHANGED <<ended, disk, seeded>>
      BY <2>2 DEF BringPoll, BringFail, memVars
    <3>3. CASE UNCHANGED <<lockVars, finVars>>
      BY <2>1, <3>1, <3>2, <3>3, RecordKeeps DEF RecordKept, lockVars, finVars
    <3>4. CASE bring'[r] = "done" /\ Fail(r, "bring")
      <4>1. \A q \in Runs : bring'[q] = bring[q] \/ bring'[q] = "done"
        BY <1>0, <2>2, <3>4 DEF BringPoll, BringFail, BringTo, TypeOK
      <4> QED  BY <2>1, <3>2, <3>4, <4>1, RecordFail, ThreadsAreActors
    <3> QED  BY <1>0, <2>2, <3>3, <3>4 DEF BringPoll, BringFail, BringTo, TypeOK
  <2>3. CASE BringCheck(r) \/ BringRecord(r)
    <3>1. \A q \in Runs : \/ bring'[q] = bring[q] \/ bring'[q] \in {"done", "reset"}
                          \/ bring[q] \in {"recCheck", "record", "last"} /\ bring'[q] \in {"record", "last", "file"}
      BY <1>0, <2>3 DEF BringCheck, BringRecord, BringTo, TypeOK
    <3>2. UNCHANGED <<fin, ended, disk, seeded, run, state>>
      BY <2>3 DEF BringCheck, BringRecord, lockVars, finVars, memVars
    <3> QED  BY <2>1, <3>1, <3>2, RecordKeeps DEF RecordKept
  <2>4. CASE BringReset(r)
    <3>1. /\ \A q \in Runs : q # r => bring'[q] = bring[q] /\ seeded'[q] = seeded[q]
          /\ seeded'[r] = TRUE /\ bring'[r] \in {"recCheck", "last"}
          /\ UNCHANGED <<run, state, fin, ended, disk>>
      BY <1>0, <2>4 DEF BringReset, BringTo, TypeOK, lockVars, finVars
    <3>2. EndedInv'
      BY <1>0, <3>1 DEF EndedInv
    <3>3. FiledInv'
      BY <1>0, <2>1, <3>1 DEF FiledInv, Released
    <3>4. state = "running" => run \in Runs
      BY DEF Inv, Driven, TypeOK
    <3>5. SeededInv'
      BY <1>0, <3>1, <3>4 DEF SeededInv
    <3> QED  BY <3>2, <3>3, <3>5 DEF RecordInv
  <2>5. CASE BringFile(r)
    <3>1. /\ \A q \in Runs : q # r => bring'[q] = bring[q]
          /\ bring[r] = "file" /\ bring'[r] = "flip"
          /\ UNCHANGED <<run, state, fin, ended, seeded>>
      BY <1>0, <2>5 DEF BringFile, BringTo, TypeOK, lockVars, finVars, memVars
    <3>2. Filed(r) \/ Unfiled(r)
      BY <2>5 DEF BringFile
    <3>3. /\ \A q \in Runs : q # r => disk'[q] = disk[q]
          /\ ended[r] /\ "disk" \notin Faults => disk'[r] = "closed"
          /\ seeded[r] /\ ~ended[r] /\ "disk" \notin Faults => disk'[r] = "ready"
          /\ disk'[r] = "closed" => ended[r]
      BY <1>0, <3>2, Writes
    <3>4. seeded[r] /\ (run = r /\ state = "running" => ~ended[r])
      BY <1>0, <3>1 DEF SeededInv, EndedInv
    <3>5. EndedInv'
      BY <1>0, <3>1, <3>3 DEF EndedInv
    <3>6. FiledInv'
      BY <1>0, <2>1, <3>1, <3>3 DEF FiledInv, EndedInv, Released
    <3>7. state = "running" => run \in Runs
      BY DEF Inv, Driven, TypeOK
    <3>8. SeededInv'
      BY <1>0, <3>1, <3>3, <3>4, <3>7 DEF SeededInv, TypeOK
    <3> QED  BY <3>5, <3>6, <3>8 DEF RecordInv
  <2>6. CASE BringFlip(r)
    <3>1. /\ \A q \in Runs : q # r => bring'[q] = bring[q]
          /\ bring[r] = "flip" /\ bring'[r] = "done"
          /\ UNCHANGED <<run, fin, ended, seeded, disk>>
          /\ state' = IF Starting(r) THEN "running" ELSE state
      BY <1>0, <2>6 DEF BringFlip, BringTo, TypeOK, finVars, memVars
    <3>2. Starting(r) => run = r /\ state = "starting" /\ ~ended[r]
      BY <1>0 DEF Starting, EndedInv
    <3>3. EndedInv'
      BY <1>0, <3>1, <3>2 DEF EndedInv
    <3>4. FiledInv'
      BY <1>0, <2>1, <3>1 DEF FiledInv, Released
    <3>5. SeededInv'
      BY <1>0, <3>1, <3>2 DEF SeededInv, EndedInv
    <3> QED  BY <3>3, <3>4, <3>5 DEF RecordInv
  <2> QED  BY <1>3, <2>2, <2>3, <2>4, <2>5, <2>6 DEF BringStep
<1>4. ASSUME NEW r \in Runs, PumpEnd(r) PROVE RecordInv'
  BY <1>4, RecordFail, ThreadsAreActors DEF PumpEnd, upVars, memVars, Claimed
<1>5. ASSUME NEW r \in Runs, ExpireEnd(r) PROVE RecordInv'
  <2>1. UNCHANGED <<up, bring, ended, seeded, disk>>
    BY <1>5 DEF ExpireEnd, upVars, memVars
  <2>2. CASE Down(r, "expire")
    BY <2>1, <2>2, RecordEnter, ThreadsAreActors DEF Down, Claimed
  <2>3. CASE UNCHANGED <<lockVars, finVars>>
    BY <2>1, <2>3, RecordKeeps DEF RecordKept, lockVars, finVars, Claimed
  <2> QED  BY <1>5, <2>2, <2>3 DEF ExpireEnd
<1>6. ASSUME NEW r \in Runs, ContainerExits(r) PROVE RecordInv'
  BY <1>6, RecordKeeps DEF RecordKept, ContainerExits, lockVars, upVars, threadVars, finVars, memVars, Claimed
<1>7. ASSUME NEW r \in Runs, NEW a \in Actors, FinishStep(r, a) PROVE RecordInv'
  <2>1. /\ run = r /\ state = "stopping"
        /\ \A q \in Runs, b \in Actors : q # r \/ b # a => fin'[q][b] = fin[q][b]
        /\ UNCHANGED <<up, bring, seeded>>
    <3>1. fin[r][a] \in Finishing
      BY <1>7 DEF FinishStep, FinishOutcome, FinishRecorder, FinishStop, FinishMark, FinishEnd,
                  FinishFile, FinishRelease, FinPc, Finishing
    <3>2. \E pc : FinTo(r, a, pc)
      BY <1>7 DEF FinishStep, FinishOutcome, FinishRecorder, FinishStop, FinishMark, FinishEnd,
                  FinishFile, FinishRelease
    <3>3. UNCHANGED <<up, bring, seeded>>
      BY <1>7 DEF FinishStep, FinishOutcome, FinishRecorder, FinishStop, FinishMark, FinishEnd,
                  FinishFile, FinishRelease, upVars, threadVars, memVars
    <3> QED  BY <1>0, <3>1, <3>2, <3>3 DEF Inv, OneFinaliser, FinTo, TypeOK
  <2>2. CASE FinishOutcome(r, a) \/ FinishRecorder(r, a) \/ FinishStop(r, a) \/ FinishMark(r, a)
    <3>1. /\ UNCHANGED <<run, state, ended, disk>>
          /\ fin'[r][a] \in {"recorder", "stop", "mark", "end"}
      BY <1>0, <2>2 DEF FinishOutcome, FinishRecorder, FinishStop, FinishMark, FinTo, AfterOutcome,
                        lockVars, memVars, TypeOK
    <3>2. EndedInv' /\ FiledInv' /\ SeededInv'
      BY <1>0, <2>1, <3>1 DEF EndedInv, FiledInv, SeededInv, Released, Claimed
    <3> QED  BY <3>2 DEF RecordInv
  <2>3. CASE FinishEnd(r, a)
    <3>1. /\ UNCHANGED <<run, state, disk>> /\ fin'[r][a] = "file"
          /\ ended'[r] = TRUE /\ \A q \in Runs : q # r => ended'[q] = ended[q]
      BY <1>0, <2>3 DEF FinishEnd, FinTo, lockVars, TypeOK
    <3>2. EndedInv' /\ FiledInv' /\ SeededInv'
      BY <1>0, <2>1, <3>1 DEF EndedInv, FiledInv, SeededInv, Released, Claimed
    <3> QED  BY <3>2 DEF RecordInv
  <2>4. CASE FinishFile(r, a)
    <3>1. /\ UNCHANGED <<run, state, ended>> /\ fin'[r][a] \in {"mcap", "release"}
          /\ fin[r][a] \in {"file", "mcap"}
      BY <1>0, <2>4 DEF FinishFile, FinTo, lockVars, memVars, TypeOK
    <3>2. Filed(r) \/ Unfiled(r)
      BY <2>4 DEF FinishFile
    <3>3. ended[r]
      BY <1>0, <3>1 DEF EndedInv
    <3>4. /\ \A q \in Runs : q # r => disk'[q] = disk[q]
          /\ "disk" \notin Faults => disk'[r] = "closed"
      BY <1>0, <3>2, <3>3, Writes
    <3>5. EndedInv' /\ FiledInv' /\ SeededInv'
      BY <1>0, <2>1, <3>1, <3>3, <3>4 DEF EndedInv, FiledInv, SeededInv, Released, Claimed
    <3> QED  BY <3>5 DEF RecordInv
  <2>5. CASE FinishRelease(r, a)
    <3>1. /\ UNCHANGED <<ended, disk>> /\ fin[r][a] = "release" /\ fin'[r][a] = "done"
          /\ run' = NoRun /\ state' \in {"idle", "error"}
      BY <1>0, <2>1, <2>5 DEF FinishRelease, FinTo, memVars, TypeOK
    <3>2. ended[r] /\ ("disk" \notin Faults => disk[r] = "closed")
      BY <1>0, <3>1 DEF EndedInv, FiledInv
    <3>3. EndedInv' /\ FiledInv' /\ SeededInv'
      BY <1>0, <2>1, <3>1, <3>2, RunsAssumption DEF EndedInv, FiledInv, SeededInv, Released, Claimed
    <3> QED  BY <3>3 DEF RecordInv
  <2> QED  BY <1>7, <2>2, <2>3, <2>4, <2>5 DEF FinishStep
<1>8. ASSUME NEW d \in Downs, CallerDown(d) PROVE RecordInv'
  <2>1. PICK r \in Runs : Down(r, d)
    BY <1>8 DEF CallerDown
  <2> QED  BY <1>8, <2>1, RecordEnter, ThreadsAreActors DEF CallerDown, Down, upVars, threadVars, memVars, Claimed
<1>9. ASSUME NEW r \in Runs, UpRefuse(r) PROVE RecordInv'
  <2>1. \A q \in Runs : Claimed(q)' = Claimed(q)
    BY <1>0, <1>9 DEF UpRefuse, Claimed, Unclaimed, TypeOK
  <2> QED  BY <1>9, <2>1, RecordKeeps DEF RecordKept, UpRefuse, lockVars, threadVars, finVars, memVars
<1>10. ASSUME NEW r \in Runs, UpClaim(r) PROVE RecordInv'
  <2>1. UNCHANGED <<fin, bring, ended, seeded, disk>>
    BY <1>10 DEF UpClaim, threadVars, finVars, memVars
  <2>2. CASE run # NoRun
    <3>1. \A q \in Runs : Claimed(q)' = Claimed(q)
      BY <1>0, <1>10, <2>2 DEF UpClaim, Claimed, Unclaimed, TypeOK
    <3> QED  BY <1>10, <2>1, <2>2, <3>1, RecordKeeps DEF RecordKept, UpClaim, lockVars
  <2>3. CASE run = NoRun
    <3>1. /\ up[r] = "new" /\ run' = r /\ state' = "starting"
          /\ \A q \in Runs : q # r => up'[q] = up[q]
      BY <1>0, <1>10, <2>3 DEF UpClaim, TypeOK
    <3>2. \A a \in Actors : fin[r][a] = "no"
      BY <3>1 DEF Inv, Control, Unclaimed
    <3>3. ~ended[r]
      BY <1>0, <3>1 DEF OnlyClaimedEnd, Claimed, Unclaimed
    <3> QED  BY <1>0, <2>1, <2>3, <3>1, <3>2, <3>3, RunsAssumption
             DEF RecordInv, EndedInv, FiledInv, SeededInv, Released, Claimed
  <2> QED  BY <2>2, <2>3
<1> QED
  BY <1>1, <1>2, <1>3, <1>4, <1>5, <1>6, <1>7, <1>8, <1>9, <1>10 DEF Next, DriveNext

LEMMA RecordHolds == Spec => [](Inv /\ RecordInv)
<1>1. Inv /\ OnlyClaimedEnd /\ RecordInv /\ [Next]_vars /\ Inv' => OnlyClaimedEnd' /\ RecordInv'
  BY ClaimedEndStep, RecordStep
<1> QED  BY <1>1, RecordInit, ClaimedEndInit, InvHolds, PTL DEF Spec

(* Every run that was claimed and let go has a closed summary, on any host
   whose disk takes the writes, whatever else fails on the way. *)
THEOREM RecordLeftHolds == Spec => []RecordLeft
<1>1. RecordInv => RecordLeft
  BY DEF RecordInv, FiledInv, RecordLeft
<1> QED  BY <1>1, RecordHolds, PTL

(* A caller who sees "running" finds the run's metrics in its summary. *)
THEOREM RunningIsFiledHolds == Spec => []RunningIsFiled
<1>1. RecordInv => RunningIsFiled
  BY DEF RecordInv, SeededInv, RunningIsFiled
<1> QED  BY <1>1, RecordHolds, PTL

(* No step takes a closed summary back, even on a disk that refuses writes. *)
LEMMA ClosedStep ==
    Inv /\ RecordInv /\ [Next]_vars
      => [\A r \in Runs : disk[r] = "closed" => disk'[r] = "closed"]_vars
<1> SUFFICES ASSUME Inv, RecordInv, Next
             PROVE  \A q \in Runs : disk[q] = "closed" => disk'[q] = "closed"
  OBVIOUS
<1>0. TypeOK /\ EndedInv
  BY DEF Inv, RecordInv
<1>1. \/ UNCHANGED disk
      \/ \E r \in Runs : Filed(r) \/ Unfiled(r)
  BY DEF Next, DriveNext, UpDrive, UpFile, UpEnterDocker, DockerCreates, DockerReturns,
         UpLeaveDocker, UpLateStop, UpLateMark, UpThreads, UpFail, UpRefuse, UpClaim,
         BringStep, BringPoll, BringCheck, BringReset, BringRecord, BringFail, BringFile,
         BringFlip, PumpEnd, ExpireEnd, ContainerExits, CallerDown, FinishStep,
         FinishOutcome, FinishRecorder, FinishStop, FinishMark, FinishEnd, FinishFile,
         FinishRelease
<1> QED  BY <1>0, <1>1, Writes

(* A writer holding an older view of a run never lands after a newer one. *)
THEOREM ClosedForGoodHolds == Spec => ClosedForGood
  BY ClosedStep, RecordHolds, PTL DEF Spec, ClosedForGood

-----------------------------------------------------------------------------
(* SimAgentSettle, for any faults but a removal that fails.  The inductive
   strengthening: a finaliser past its mark. *)
Marked == {"end", "file", "mcap", "release", "done"}

(* The mark of a run whose container has gone is still to come. *)
Unmarked(q) ==
    \/ InDockerRun(q)
    \/ run = q /\ \A a \in Actors : fin[q][a] \notin Marked

(* Ghosts are those no window has passed for; the latest wait for their mark. *)
GhostInv ==
    \A q \in Runs : /\ ghost[q] = 0 \/ ghost[q] > settled
                    /\ ghost[q] = marks + 1 => Unmarked(q)

(* A request that waited read a stop whose window has passed, and its own stop is a
   later one. *)
SeenInv ==
    \A r \in Runs :
      /\ seen[r] <= marks
      /\ Claimed(r) /\ waited[r] => seen[r] <= settled
      /\ Claimed(r) /\ (run # r \/ \E a \in Actors : fin[r][a] \in Marked) => seen[r] < marks

SettleInv == SettleTypeOK /\ GhostInv /\ SeenInv

-----------------------------------------------------------------------------
LEMMA SettleStarts == SettleInit => Inv /\ LeakInv /\ SettleInv
<1> SUFFICES ASSUME SettleInit PROVE Inv /\ LeakInv /\ SettleInv
  OBVIOUS
<1>1. Inv /\ LeakInv
  BY InvInit, LeakInit DEF SettleInit
<1>2. SettleTypeOK
  <2>1. TypeOK
    BY <1>1 DEF Inv
  <2>2. ghost \in [Runs -> 0..(marks + 1)] /\ marks \in Nat /\ settled \in 0..marks
    BY DEF SettleInit
  <2> QED
    BY <2>1, <2>2 DEF SettleInit, SettleTypeOK, PrePc
<1>3. GhostInv
  BY DEF SettleInit, GhostInv
<1>4. SeenInv
  <2>1. \A r \in Runs : ~Claimed(r) /\ seen[r] = 0
    BY DEF SettleInit, Init, Claimed, Unclaimed
  <2>2. marks = 0
    BY DEF SettleInit
  <2>3. ASSUME NEW r \in Runs PROVE seen[r] <= marks
    <3>1. seen[r] = 0
      BY <2>1
    <3> QED
      BY <2>2, <3>1
  <2> QED
    BY <2>1, <2>3 DEF SeenInv
<1> QED
  BY <1>1, <1>2, <1>3, <1>4 DEF SettleInv

(* What comes before the claim, and the clock, are no steps of the agent's. *)
LEMMA AgentStep == [SettleNext]_settleVars => [Next]_vars
  BY DEF SettleNext, settleVars, ReadOwn, NoForeign, RefuseForeign, ReadStopped, SleepThenClaim,
         Drive, WindowPasses, Next

LEMMA SettleTypeStep == SettleTypeOK /\ [SettleNext]_settleVars => SettleTypeOK'
<1> SUFFICES ASSUME SettleTypeOK, [SettleNext]_settleVars PROVE SettleTypeOK'
  OBVIOUS
<1>1. TypeOK'
  BY AgentStep, TypeStep DEF SettleTypeOK
<1>2. CASE UNCHANGED settleVars
  BY <1>1, <1>2 DEF SettleTypeOK, settleVars, preVars, clockVars
<1>3. ASSUME NEW r \in Runs, ReadOwn(r) \/ NoForeign(r) \/ RefuseForeign(r)
                             \/ ReadStopped(r) \/ SleepThenClaim(r)
      PROVE  SettleTypeOK'
  <2>1. pre' \in [Runs -> PrePc]
    BY <1>3 DEF SettleTypeOK, ReadOwn, NoForeign, RefuseForeign, ReadStopped, SleepThenClaim,
                PrePc, preVars
  <2>5. own' \in [Runs -> Runs \cup {NoRun}]
    <3>1. \/ own' = own
          \/ own' = [own EXCEPT ![r] = run]
          \/ own' = [own EXCEPT ![r] = NoRun]
      BY <1>3 DEF ReadOwn, NoForeign, RefuseForeign, ReadStopped, SleepThenClaim, preVars
    <3>2. run \in Runs \cup {NoRun} /\ own \in [Runs -> Runs \cup {NoRun}]
      BY DEF SettleTypeOK, TypeOK
    <3> QED
      BY <3>1, <3>2
  <2>3. seen' \in [Runs -> Nat]
    BY <1>3 DEF SettleTypeOK, ReadOwn, NoForeign, RefuseForeign, ReadStopped, SleepThenClaim, preVars
  <2>4. waited' \in [Runs -> BOOLEAN]
    BY <1>3 DEF SettleTypeOK, ReadOwn, NoForeign, RefuseForeign, ReadStopped, SleepThenClaim, preVars
  <2>2. UNCHANGED clockVars
    BY <1>3 DEF ReadOwn, NoForeign, RefuseForeign, ReadStopped, SleepThenClaim
  <2> QED
    BY <1>1, <2>1, <2>2, <2>3, <2>4, <2>5 DEF SettleTypeOK, clockVars
<1>4. CASE Drive
  <2>1. marks' \in {marks, marks + 1}
    BY <1>4 DEF Drive
  <2>2. ghost' \in [Runs -> 0..(marks' + 1)] /\ marks' \in Nat /\ settled' \in 0..marks'
    BY <1>4, <2>1 DEF Drive, SettleTypeOK
  <2> QED
    BY <1>1, <1>4, <2>2 DEF Drive, SettleTypeOK, preVars
<1>5. CASE WindowPasses
  <2>1. ghost' \in [Runs -> 0..(marks' + 1)] /\ marks' \in Nat /\ settled' \in 0..marks'
    BY <1>5 DEF WindowPasses, SettleTypeOK
  <2> QED
    BY <1>1, <1>5, <2>1 DEF WindowPasses, SettleTypeOK, preVars
<1> QED
  BY <1>2, <1>3, <1>4, <1>5 DEF SettleNext

-----------------------------------------------------------------------------
(* A step of the agent past the claim. *)

(* What it may do to a run's claim, its finaliser and its worker. *)
Keeps(q) ==
    /\ Claimed(q)' = Claimed(q)
    /\ run = q => run' = q \/ \E a \in Actors : fin[q][a] = "release"
    /\ \A a \in Actors : fin'[q][a] \in Marked => fin[q][a] \in Marked \/ Marking
    /\ InDockerRun(q) => InDockerRun(q)' \/ Starting(q) \/ Marking

(* Entering "stopping" marks nothing. *)
LEMMA EnteringMarks ==
    ASSUME Inv, NEW r \in Runs, NEW a \in Actors, Fail(r, a) \/ Down(r, a)
    PROVE  /\ run' = run
           /\ \A q \in Runs, b \in Actors : fin'[q][b] \in Marked => fin[q][b] \in Marked
<1>1. CASE UNCHANGED <<run, state, fin, stopIt>>
  BY <1>1
<1>2. ASSUME NEW step \in {"outcome", "recorder", "stop"}, NEW stop,
             run = r, state # "stopping", EnterStopping(r, a, step, stop)
      PROVE  /\ run' = run
             /\ \A q \in Runs, b \in Actors : fin'[q][b] \in Marked => fin[q][b] \in Marked
  <2>1. /\ run' = r /\ fin'[r][a] = step
        /\ \A q \in Runs, b \in Actors : q # r \/ b # a => fin'[q][b] = fin[q][b]
    BY <1>2, Entering
  <2> QED
    BY <1>2, <2>1 DEF Marked
<1> QED
  <2>1. CASE Fail(r, a)
    <3>1. \/ UNCHANGED <<run, state, fin, stopIt>>
          \/ run = r /\ state # "stopping" /\ EnterStopping(r, a, AfterOutcome(r), TRUE)
      BY <2>1, FailCases
    <3>2. AfterOutcome(r) \in {"outcome", "recorder", "stop"}
      BY AfterOutcomeStep
    <3> QED
      BY <1>1, <1>2, <3>1, <3>2
  <2>2. CASE Down(r, a)
    <3>1. run = r /\ state # "stopping" /\ EnterStopping(r, a, "outcome", ~inDocker[r])
      BY <2>2 DEF Down
    <3> QED
      BY <1>2, <3>1
  <2> QED
    BY <2>1, <2>2

LEMMA DriveKeeps ==
    ASSUME Inv, DriveNext, NEW q \in Runs
    PROVE  Keeps(q)
<1>0. TypeOK
  BY DEF Inv
<1>1. ASSUME up' = up, run' = run,
             \A a \in Actors : fin'[q][a] \in Marked => fin[q][a] \in Marked
      PROVE  Keeps(q)
  BY <1>1 DEF Keeps, Claimed, InDockerRun
<1>2. ASSUME NEW r \in Runs, UpDrive(r) PROVE Keeps(q)
  <2>1. ASSUME NEW pc, up[r] \notin Unclaimed, pc \notin Unclaimed, up' = [up EXCEPT ![r] = pc],
               run' = run, \A a \in Actors : fin'[q][a] \in Marked => fin[q][a] \in Marked,
               InDockerRun(r) => pc \in {"docker", "leaving", "lateStop", "lateMark"} \/ Starting(r) \/ Marking
        PROVE  Keeps(q)
    BY <1>0, <2>1 DEF TypeOK, Keeps, Claimed, InDockerRun
  <2>2. CASE UpFile(r) \/ UpEnterDocker(r) \/ DockerReturns(r) \/ UpLateStop(r)
    BY <2>1, <2>2 DEF UpFile, UpEnterDocker, DockerReturns, UpLateStop, Unclaimed, lockVars, finVars, InDockerRun
  <2>3. CASE DockerCreates(r)
    BY <1>1, <2>3 DEF DockerCreates, lockVars, upVars, finVars
  <2>4. CASE UpLeaveDocker(r)
    BY <2>1, <2>4 DEF UpLeaveDocker, Unclaimed, lockVars, finVars
  <2>5. CASE UpLateMark(r)
    <3>1. Marking
      BY <1>0, <2>5 DEF TypeOK, UpLateMark, AfterDocker, Marking
    <3> QED
      BY <2>1, <2>5, <3>1 DEF UpLateMark, AfterDocker, Unclaimed, lockVars, finVars
  <2>6. CASE UpThreads(r)
    BY <2>1, <2>6 DEF UpThreads, Unclaimed, lockVars, finVars, InDockerRun
  <2>7. CASE UpFail(r)
    BY <2>1, <2>7, EnteringMarks, ThreadsAreActors DEF UpFail, Unclaimed, InDockerRun
  <2> QED
    BY <1>2, <2>2, <2>3, <2>4, <2>5, <2>6, <2>7 DEF UpDrive
<1>3. ASSUME NEW r \in Runs, BringStep(r) \/ PumpEnd(r) \/ ExpireEnd(r) PROVE Keeps(q)
  <2>1. up' = up
    BY <1>3 DEF BringStep, BringPoll, BringCheck, BringReset, BringRecord, BringFail, BringFile,
                BringFlip, PumpEnd, ExpireEnd, upVars
  <2>2. \/ UNCHANGED <<run, fin>>
        \/ \E a \in Actors : Fail(r, a) \/ Down(r, a)
    BY <1>3, ThreadsAreActors
       DEF BringStep, BringPoll, BringCheck, BringReset, BringRecord, BringFail, BringFile,
           BringFlip, PumpEnd, ExpireEnd, lockVars, finVars
  <2> QED
    BY <1>1, <2>1, <2>2, EnteringMarks
<1>4. ASSUME NEW r \in Runs, ContainerExits(r) PROVE Keeps(q)
  BY <1>1, <1>4 DEF ContainerExits, lockVars, upVars, finVars
<1>5. ASSUME NEW d \in Downs, CallerDown(d) PROVE Keeps(q)
  BY <1>1, <1>5, EnteringMarks, ThreadsAreActors DEF CallerDown, upVars
<1>6. ASSUME NEW r \in Runs, NEW a \in Actors, FinishStep(r, a) PROVE Keeps(q)
  <2>1. PICK pc : FinTo(r, a, pc) /\ (pc \in Marked => fin[r][a] \in Marked \/ fin[r][a] = "mark")
    BY <1>6 DEF FinishStep, FinishOutcome, FinishRecorder, FinishStop, FinishMark, FinishEnd,
                FinishFile, FinishRelease, AfterOutcome, Marked
  <2>2. fin'[r][a] \in Marked => fin[r][a] \in Marked \/ Marking
    BY <1>0, <2>1 DEF TypeOK, FinTo, Marking, Marked
  <2>3. \A b \in Actors : fin'[q][b] \in Marked => fin[q][b] \in Marked \/ Marking
    BY <1>0, <2>1, <2>2 DEF TypeOK, FinTo
  <2>4. up' = up
    BY <1>6 DEF FinishStep, FinishOutcome, FinishRecorder, FinishStop, FinishMark, FinishEnd,
                FinishFile, FinishRelease, upVars
  <2>5. run' = run \/ (run = r /\ fin[r][a] = "release")
    BY <1>6 DEF FinishStep, FinishOutcome, FinishRecorder, FinishStop, FinishMark, FinishEnd,
                FinishFile, FinishRelease, lockVars
  <2> QED
    BY <2>3, <2>4, <2>5 DEF Keeps, Claimed, InDockerRun
<1> QED
  BY <1>2, <1>3, <1>4, <1>5, <1>6 DEF DriveNext

(* As long as removals do not fail, a container still there has its mark to come. *)
LEMMA PresentUnmarked ==
    ASSUME Inv, LeakInv, "stop" \notin Faults, NEW q \in Runs, Present(q)
    PROVE  Unmarked(q)
<1>1. CASE run # q \/ \E a \in Actors : fin[q][a] \in StopDone
  BY <1>1 DEF LeakInv, Covered, Unmarked, InDockerRun
<1>2. CASE run = q /\ \A a \in Actors : fin[q][a] \notin StopDone
  <2>1. \A a \in Actors : fin[q][a] # "done"
    BY <1>2 DEF Inv, Control
  <2> QED
    BY <1>2, <2>1 DEF StopDone, Marked, Unmarked
<1> QED
  BY <1>1, <1>2

LEMMA UnmarkedKept ==
    ASSUME Inv, NEW q \in Runs, Keeps(q), Unmarked(q), ~Marking
    PROVE  Unmarked(q)'
<1>1. CASE InDockerRun(q)'
  BY <1>1 DEF Unmarked
<1>2. CASE ~InDockerRun(q)'
  <2>1. Starting(q) => run = q /\ \A a \in Actors : fin[q][a] \notin Marked
    BY DEF Inv, OneFinaliser, Control, Starting, Finishing, FinPc, Marked
  <2>2. run = q /\ \A a \in Actors : fin[q][a] \notin Marked
    BY <1>2, <2>1 DEF Keeps, Unmarked
  <2> QED
    BY <2>2 DEF Keeps, Unmarked, Marked
<1> QED
  BY <1>1, <1>2

-----------------------------------------------------------------------------
LEMMA DriveSettles ==
    ASSUME Inv, LeakInv, "stop" \notin Faults, SettleInv, Drive
    PROVE  GhostInv' /\ SeenInv'
<1>1. /\ marks \in Nat /\ settled \in 0..marks
      /\ \A q \in Runs : ghost[q] \in 0..(marks + 1) /\ seen[q] \in Nat
  BY DEF SettleInv, SettleTypeOK
<1>2. \A q \in Runs : Keeps(q)
  BY DriveKeeps DEF Drive
<1>3. /\ UNCHANGED <<settled, seen, waited>>
      /\ marks' = IF Marking THEN marks + 1 ELSE marks
      /\ \A q \in Runs : ghost'[q] = IF Leaving(q) THEN marks + 1 ELSE ghost[q]
  BY DEF Drive, preVars
<1>4. ASSUME NEW q \in Runs
      PROVE  /\ ghost'[q] = 0 \/ ghost'[q] > settled'
             /\ ghost'[q] = marks' + 1 => Unmarked(q)'
  <2>1. ghost'[q] = 0 \/ ghost'[q] > settled'
    BY <1>1, <1>3 DEF SettleInv, GhostInv
  <2>2. CASE Marking
    BY <1>1, <1>3, <2>1, <2>2
  <2>3. CASE ~Marking
    <3>1. ghost'[q] = marks' + 1 => Unmarked(q)
      <4>1. Leaving(q) => Present(q)
        BY DEF Leaving, Present
      <4> QED
        BY <1>3, <2>3, <4>1, PresentUnmarked DEF SettleInv, GhostInv
    <3> QED
      BY <1>2, <2>1, <2>3, <3>1, UnmarkedKept
  <2> QED
    BY <2>2, <2>3
<1>5. GhostInv'
  BY <1>4 DEF GhostInv
<1>6. ASSUME NEW r \in Runs
      PROVE  /\ seen'[r] <= marks'
             /\ Claimed(r)' /\ waited'[r] => seen'[r] <= settled'
             /\ Claimed(r)' /\ (run' # r \/ \E a \in Actors : fin'[r][a] \in Marked)
                  => seen'[r] < marks'
  <2>1. /\ seen[r] <= marks
        /\ Claimed(r) /\ waited[r] => seen[r] <= settled
        /\ Claimed(r) /\ (run # r \/ \E a \in Actors : fin[r][a] \in Marked) => seen[r] < marks
    BY DEF SettleInv, SeenInv
  <2>2. /\ Claimed(r)' = Claimed(r)
        /\ run = r => run' = r \/ \E a \in Actors : fin[r][a] = "release"
        /\ \A a \in Actors : fin'[r][a] \in Marked => fin[r][a] \in Marked \/ Marking
    BY <1>2 DEF Keeps
  <2>3. "release" \in Marked
    BY DEF Marked
  <2>4. run' # r \/ (\E a \in Actors : fin'[r][a] \in Marked)
          => run # r \/ (\E a \in Actors : fin[r][a] \in Marked) \/ Marking
    BY <2>2, <2>3
  <2>5. seen'[r] = seen[r] /\ waited'[r] = waited[r] /\ settled' = settled /\ marks' \in {marks, marks + 1}
    BY <1>3
  <2>6. seen'[r] <= marks' /\ (Claimed(r)' /\ waited'[r] => seen'[r] <= settled')
    BY <1>1, <2>1, <2>2, <2>5
  <2>7. ASSUME Claimed(r)', run' # r \/ \E a \in Actors : fin'[r][a] \in Marked
        PROVE  seen'[r] < marks'
    <3>1. CASE Marking
      BY <1>1, <1>3, <2>1, <2>5, <3>1
    <3>2. CASE ~Marking
      <4>1. seen[r] < marks
        BY <2>1, <2>2, <2>4, <2>7, <3>2
      <4> QED
        BY <1>1, <2>5, <4>1
    <3> QED
      BY <3>1, <3>2
  <2> QED
    BY <2>6, <2>7
<1>7. SeenInv'
  BY <1>6 DEF SeenInv
<1> QED
  BY <1>5, <1>7

(* Before the claim a request has no container and no mark. *)
LEMMA AskSettles ==
    ASSUME Inv, SettleInv, NEW r \in Runs,
           ReadOwn(r) \/ NoForeign(r) \/ RefuseForeign(r) \/ ReadStopped(r) \/ SleepThenClaim(r)
    PROVE  GhostInv' /\ SeenInv'
<1>0. TypeOK /\ up[r] = "new" /\ UNCHANGED <<fin, clockVars>>
  BY DEF Inv, ReadOwn, NoForeign, RefuseForeign, ReadStopped, SleepThenClaim, UpRefuse, UpClaim,
         vars, finVars
<1>1. \/ UNCHANGED <<run, up>>
      \/ UNCHANGED run /\ up' = [up EXCEPT ![r] = "refused"]
      \/ run = NoRun /\ run' = r /\ up' = [up EXCEPT ![r] = "filing"]
  BY DEF ReadOwn, NoForeign, RefuseForeign, ReadStopped, SleepThenClaim, UpRefuse, UpClaim,
         vars, lockVars, upVars
<1>2. run # r /\ ~Claimed(r) /\ \A a \in Actors : fin[r][a] \notin Marked
  BY <1>0 DEF Inv, Control, Claimed, Unclaimed, Marked
<1>3. \A q \in Runs : Unmarked(q) => Unmarked(q)'
  <2>1. \A q \in Runs : InDockerRun(q) => InDockerRun(q)'
    BY <1>0, <1>1 DEF TypeOK, InDockerRun
  <2>2. \A q \in Runs : run = q => run' = q
    BY <1>1, RunsAssumption
  <2> QED
    BY <1>0, <2>1, <2>2 DEF Unmarked
<1>4. GhostInv'
  BY <1>0, <1>3 DEF SettleInv, GhostInv, clockVars
<1>5. \A q \in Runs : q # r => Claimed(q)' = Claimed(q) /\ seen'[q] = seen[q] /\ waited'[q] = waited[q]
  <2>1. \A q \in Runs : q # r => up'[q] = up[q]
    BY <1>0, <1>1 DEF TypeOK
  <2>2. \A q \in Runs : q # r => seen'[q] = seen[q] /\ waited'[q] = waited[q]
    BY DEF SettleInv, SettleTypeOK, ReadOwn, NoForeign, RefuseForeign, ReadStopped, SleepThenClaim, preVars
  <2> QED
    BY <2>1, <2>2 DEF Claimed
<1>6. ASSUME NEW q \in Runs, q # r
      PROVE  /\ seen'[q] <= marks'
             /\ Claimed(q)' /\ waited'[q] => seen'[q] <= settled'
             /\ Claimed(q)' /\ (run' # q \/ \E a \in Actors : fin'[q][a] \in Marked) => seen'[q] < marks'
  <2>1. run' # q => run # q
    BY <1>1, <1>6, RunsAssumption
  <2> QED
    BY <1>0, <1>5, <1>6, <2>1 DEF SettleInv, SeenInv, clockVars
<1>7. /\ seen'[r] <= marks'
      /\ Claimed(r)' => run' = r /\ (waited'[r] => seen'[r] <= settled')
  <2>1. marks \in Nat /\ seen[r] <= marks /\ seen \in [Runs -> Nat]
    BY DEF SettleInv, SettleTypeOK, SeenInv
  <2>2. CASE ReadStopped(r)
    <3>1. seen'[r] = marks /\ ~Claimed(r)'
      BY <1>2, <2>1, <2>2 DEF ReadStopped, Claimed, vars, upVars
    <3> QED
      BY <1>0, <2>1, <3>1 DEF clockVars
  <2>3. CASE SleepThenClaim(r)
    <3>1. UNCHANGED <<seen, waited>> /\ (waited[r] => settled >= seen[r])
      BY <2>3 DEF SleepThenClaim, preVars
    <3>2. Claimed(r)' => run' = r
      BY <1>0, <2>3 DEF SleepThenClaim, UpClaim, Claimed, Unclaimed, TypeOK
    <3> QED
      BY <1>0, <2>1, <3>1, <3>2 DEF SettleInv, SettleTypeOK, clockVars
  <2>4. CASE ReadOwn(r) \/ NoForeign(r) \/ RefuseForeign(r)
    <3>1. seen' = seen
      BY <2>4 DEF ReadOwn, NoForeign, RefuseForeign, preVars
    <3>2. ~Claimed(r)'
      BY <1>0, <2>4 DEF ReadOwn, NoForeign, RefuseForeign, UpRefuse, Claimed, Unclaimed, TypeOK, vars, upVars
    <3> QED
      BY <1>0, <2>1, <3>1, <3>2 DEF clockVars
  <2> QED
    BY <2>2, <2>3, <2>4
<1>8. SeenInv'
  BY <1>0, <1>2, <1>6, <1>7 DEF SeenInv
<1> QED
  BY <1>4, <1>8

LEMMA WindowSettles ==
    ASSUME SettleInv, WindowPasses
    PROVE  GhostInv' /\ SeenInv'
<1>1. /\ marks \in Nat /\ settled \in 0..marks
      /\ \A q \in Runs : ghost[q] \in 0..(marks + 1) /\ seen[q] \in Nat
  BY DEF SettleInv, SettleTypeOK
<1>2. /\ settled' = settled + 1
      /\ \A q \in Runs : ghost'[q] = IF ghost[q] <= settled' THEN 0 ELSE ghost[q]
      /\ UNCHANGED <<run, up, fin, seen, waited, marks>>
  BY DEF WindowPasses, vars, lockVars, upVars, finVars, preVars
<1>3. \A q \in Runs : Unmarked(q)' = Unmarked(q) /\ Claimed(q)' = Claimed(q)
  BY <1>2 DEF Unmarked, InDockerRun, Claimed
<1>4. GhostInv'
  BY <1>1, <1>2, <1>3 DEF SettleInv, GhostInv
<1>5. SeenInv'
  BY <1>1, <1>2, <1>3 DEF SettleInv, SeenInv
<1> QED
  BY <1>4, <1>5

LEMMA SettleStep ==
    ASSUME "stop" \notin Faults
    PROVE  Inv /\ LeakInv /\ SettleInv /\ [SettleNext]_settleVars => Inv' /\ LeakInv' /\ SettleInv'
<1> SUFFICES ASSUME Inv, LeakInv, SettleInv, [SettleNext]_settleVars
             PROVE  Inv' /\ LeakInv' /\ SettleInv'
  OBVIOUS
<1>1. Inv' /\ LeakInv'
  BY AgentStep, InvStep, LeakStep
<1>2. SettleTypeOK'
  BY SettleTypeStep DEF SettleInv
<1>3. GhostInv' /\ SeenInv'
  <2>1. CASE UNCHANGED settleVars
    <3>1. UNCHANGED <<run, up, fin, seen, waited, marks, settled, ghost>>
      BY <2>1 DEF settleVars, vars, lockVars, upVars, finVars, preVars, clockVars
    <3> QED
      BY <3>1 DEF SettleInv, GhostInv, SeenInv, Unmarked, InDockerRun, Claimed
  <2> QED
    BY <2>1, DriveSettles, AskSettles, WindowSettles DEF SettleNext
<1> QED
  BY <1>1, <1>2, <1>3 DEF SettleInv

(* A container that is created is the one `docker run` was asked for. *)
LEMMA CreatingStarts ==
    ASSUME Inv, [SettleNext]_settleVars, NEW r \in Runs, Creating(r)
    PROVE  up[r] = "docker"
<1>0. TypeOK /\ container'[r] = "up" /\ container[r] = "none"
  BY DEF Inv, Creating
<1>1. [Next]_vars
  BY AgentStep
<1>2. \A q \in Runs, how \in {"exited", "removed"} : ~Gone(q, how)
  BY <1>0 DEF Gone, TypeOK
<1>3. container' # container
  BY <1>0
<1>4. \E q \in Runs : DockerCreates(q)
  <2>1. \A q \in Runs : RunnerStop(q) => FALSE
    BY <1>2, <1>3 DEF RunnerStop, worldVars
  <2> QED
    BY <1>1, <1>2, <1>3, <2>1
       DEF Next, DriveNext, vars, worldVars, UpRefuse, UpClaim, CallerDown,
           UpDrive, UpFile, UpEnterDocker, DockerReturns, UpLeaveDocker, UpLateStop, UpLateMark,
           UpThreads, UpFail, BringStep, BringPoll, BringCheck, BringReset, BringRecord, BringFail,
           BringFile, BringFlip, PumpEnd, ExpireEnd, ContainerExits, FinishStep, FinishOutcome,
           FinishRecorder, FinishStop, FinishMark, FinishEnd, FinishFile, FinishRelease
<1> QED
  BY <1>0, <1>4 DEF DockerCreates, TypeOK

(* A request that slept the settle window out, with no stop since it read the last
   one, starts its container clear of the participants of every run but one whose
   worker is still in _start_container, as long as removals do not fail
   (agent.py, _wait_for_discovery_settle). *)
THEOREM SettledStartsAreClear == "stop" \notin Faults => (SettleSpec => SettleHolds)
<1> SUFFICES ASSUME "stop" \notin Faults PROVE SettleSpec => SettleHolds
  OBVIOUS
<1> DEFINE Clear == \A r \in Runs : Creating(r) /\ waited[r] /\ seen[r] = marks =>
                      \A q \in Runs : ghost[q] = 0 \/ InDockerRun(q)
<1>1. Inv /\ LeakInv /\ SettleInv /\ [SettleNext]_settleVars => [Clear]_settleVars
  <2> SUFFICES ASSUME Inv, LeakInv, SettleInv, [SettleNext]_settleVars,
                      NEW r \in Runs, Creating(r), waited[r], seen[r] = marks,
                      NEW q \in Runs, ghost[q] # 0
               PROVE  InDockerRun(q)
    OBVIOUS
  <2>1. up[r] = "docker"
    BY CreatingStarts
  <2>2. Claimed(r)
    BY <2>1 DEF Claimed, Unclaimed
  <2>3. marks \in Nat /\ settled \in 0..marks /\ ghost[q] \in 0..(marks + 1)
    BY DEF SettleInv, SettleTypeOK
  <2>4. settled = marks /\ run = r
    BY <2>2, <2>3 DEF SettleInv, SeenInv
  <2>5. Unmarked(q)
    BY <2>3, <2>4 DEF SettleInv, GhostInv
  <2> QED
    BY <2>1, <2>4, <2>5 DEF Unmarked, InDockerRun
<1>2. Inv /\ LeakInv /\ SettleInv /\ [SettleNext]_settleVars => Inv' /\ LeakInv' /\ SettleInv'
  BY SettleStep
<1> QED
  BY <1>1, <1>2, SettleStarts, PTL DEF SettleSpec, SettleHolds
=============================================================================
