-------------------------------- MODULE Nodes --------------------------------
(***************************************************************************)
(* What a run's container starts beside the simulator, one in a behaviour: *)
(* either engine's way to move the objects, the end-effector follower, or a  *)
(* camera.                                                                 *)
(***************************************************************************)
EXTENDS Integers

CONSTANTS
    None,
    \* GazeboObjects and IsaacObjects
    Objects, FirstPlace, Places, Workspace, MaxTime, MaxPushes,
    Pace, Target, Fresh, GazeboMoves, Pushable,
    Free, Assets, QueueDepth, IsaacMoves,
    \* EeFollower
    Bad, Robots, Usable, Joints, FirstJoints, Lower, Upper, Targets,
    MaxStep, MaxJointStateAge, MaxCommandAge, MaxLate, MaxReal, MaxJumps,
    \* SimCamera
    Period, MinGap, StallPeriods, CameraTime

VARIABLES node,
    gTime, gPlace, gQueue, gLoose, gAir, gLatest, gKnown, gIgnoreBefore,
    gMove, gMoves, gPushes, gPut, gThere, gTidy,
    iTime, iHere, iPlace, iStage, iCommands, iAir, iLatest,
    iMove, iMoves, iPushes, iSent, iThere,
    fClock, fReal, fJumps, fDue, fQ, fKinematics, fJointState, fCommand, fLastTick, fSent, fHeard,
    cClock, cEpoch, cSteps, cColour, cDepth, cLastPublished,
    cLastRender, cPendingDepth, cColours, cDepths

gVars == <<gTime, gPlace, gQueue, gLoose, gAir, gLatest, gKnown, gIgnoreBefore, gMove, gMoves, gPushes, gPut, gThere, gTidy>>
iVars == <<iTime, iHere, iPlace, iStage, iCommands, iAir, iLatest, iMove, iMoves, iPushes, iSent, iThere>>

(* On Gazebo every place is one in the workspace. *)
Gazebo == INSTANCE GazeboObjects
    WITH Places <- Workspace, MaxMoves <- GazeboMoves,
        time <- gTime, place <- gPlace, queue <- gQueue, loose <- gLoose, air <- gAir,
        latest <- gLatest, known <- gKnown, ignoreBefore <- gIgnoreBefore, move <- gMove,
        moves <- gMoves, pushes <- gPushes, put <- gPut, there <- gThere, tidy <- gTidy

Isaac == INSTANCE IsaacObjects
    WITH MaxMoves <- IsaacMoves,
        time <- iTime, here <- iHere, place <- iPlace, stage <- iStage,
        commands <- iCommands, air <- iAir, latest <- iLatest, move <- iMove,
        moves <- iMoves, pushes <- iPushes, sent <- iSent, there <- iThere

fVars == <<fClock, fReal, fJumps, fDue, fQ, fKinematics, fJointState, fCommand, fLastTick, fSent, fHeard>>
cVars == <<cClock, cEpoch, cSteps, cColour, cDepth, cLastPublished, cLastRender, cPendingDepth, cColours, cDepths>>

Follower == INSTANCE EeFollower
    WITH clock <- fClock, real <- fReal, jumps <- fJumps,
        due <- fDue, q <- fQ, kinematics <- fKinematics,
        jointState <- fJointState, command <- fCommand, lastTick <- fLastTick,
        sent <- fSent, heard <- fHeard

Camera == INSTANCE SimCamera
    WITH MaxTime <- CameraTime, clock <- cClock, epoch <- cEpoch, steps <- cSteps,
        colour <- cColour, depth <- cDepth, lastPublished <- cLastPublished,
        lastRender <- cLastRender, pendingDepth <- cPendingDepth, colours <- cColours,
        depths <- cDepths

ASSUME NodesAssumption ==
    /\ Gazebo!GazeboAssumption /\ Isaac!IsaacAssumption
    /\ Follower!FollowerAssumption /\ Camera!CameraAssumption

\* The part a behaviour is not about starts in one of its states and stays.
Init ==
    /\ node \in {"gazebo", "isaac", "follower", "camera"}
    /\ Gazebo!Init /\ Isaac!Init /\ Follower!Init /\ Camera!Init
    /\ node # "isaac" => iHere = {}
    /\ fQ \in IF node = "follower" THEN FirstJoints ELSE {Lower}

Next ==
    /\ UNCHANGED node
    /\ \/ node = "gazebo" /\ Gazebo!Next /\ UNCHANGED <<iVars, fVars, cVars>>
       \/ node = "isaac" /\ Isaac!Next /\ UNCHANGED <<gVars, fVars, cVars>>
       \/ node = "follower" /\ Follower!Next /\ UNCHANGED <<gVars, iVars, cVars>>
       \/ node = "camera" /\ Camera!Next /\ UNCHANGED <<gVars, iVars, fVars>>

Spec == Init /\ [][Next]_<<node, gVars, iVars, fVars, cVars>>

(* The states of all are of their types. *)
TypeOK ==
    CASE node = "gazebo"   -> Gazebo!TypeOK
      [] node = "isaac"    -> Isaac!TypeOK
      [] node = "follower" -> Follower!TypeOK
      [] node = "camera"   -> Camera!TypeOK

(* Of GazeboObjects and IsaacObjects: a move is all or nothing or says what it
   left, one told done found every object at its target, and a stage that is
   marked ready listens and has all its assets. *)
MovesTrue ==
    /\ TypeOK
    /\ node = "gazebo" => Gazebo!AllOrNothing /\ Gazebo!ReallyThere
    /\ node = "isaac" => Isaac!ReallyThere /\ Isaac!ReadyListens /\ Isaac!AppClosed

(* Of EeFollower and SimCamera: a step is of fresh inputs, within its bound and
   the limits, and a depth render is not held back once its colour is out. *)
InputsUsed ==
    /\ node = "follower" => Follower!FreshInputs /\ Follower!StepBounded
    /\ node = "camera" => Camera!PairNotHeld

(* What a step may not do: publish a pose of before a move, send a step on bad
   data, publish depth without its colour, or colour closer than the rate. *)
StepsAllowed ==
    /\ [][node = "gazebo" => Gazebo!PublishesFresh]_gVars
    /\ Follower!BadStops /\ Camera!DepthHasColour /\ Camera!RateKept
=============================================================================
