----------------------------- MODULE NodesProofs -----------------------------
(***************************************************************************)
(* Proofs about the nodes of a run (Nodes): GazeboObjects, IsaacObjects,     *)
(* EeFollower and SimCamera, for every value of their constants.            *)
(***************************************************************************)
EXTENDS Nodes, Sequences, TLAPS

-----------------------------------------------------------------------------
(* EeFollower.                                                             *)

(* Time since an input was taken is what its stamp says, up to the lateness of one
   not stamped; a clock that jumped is noticed at the next tick, before it moves
   again. *)
Aged(input) == input # None => fReal - input.real <= fClock - input.t + MaxLate

AgeInv ==
    /\ fClock <= fReal
    /\ ~fDue => fLastTick = fClock \/ (fLastTick = None /\ fClock = 0)
    /\ ~Follower!Jumped => Aged(fJointState) /\ Aged(fCommand)

(* An input that is there is the last one heard. *)
HeardInv ==
    /\ fJointState # None => (fHeard.state <=> fJointState.v # Bad)
    /\ fCommand # None => (fHeard.command <=> fCommand.v # Bad)

FollowerInv ==
    /\ Follower!TypeOK /\ AgeInv /\ HeardInv
    /\ Follower!FreshInputs /\ Follower!StepBounded

LEMMA FollowerStarts == Follower!Init => FollowerInv
<1> SUFFICES ASSUME Follower!Init PROVE FollowerInv
  OBVIOUS
<1> USE NodesAssumption DEF Follower!FollowerAssumption
<1>1. Follower!TypeOK
  <2>1. 0 \in 0..MaxReal /\ 0 \in 0..MaxJumps
    OBVIOUS
  <2> QED
    BY <2>1 DEF Follower!Init, Follower!TypeOK, Follower!Maybe
<1>2. AgeInv /\ HeardInv /\ Follower!FreshInputs /\ Follower!StepBounded
  BY DEF Follower!Init, AgeInv, HeardInv, Aged, Follower!FreshInputs, Follower!StepBounded
<1> QED
  BY <1>1, <1>2 DEF FollowerInv

(* A step of the arm is bounded, walks a joint back in, and stays where the joint
   can be (dls.py, dls_step). *)
LEMMA DlsStepBounded ==
    ASSUME NEW from \in Joints, NEW wanted \in Joints
    PROVE  LET to == Follower!DlsStep(from, wanted)
           IN  /\ to \in Joints
               /\ to - from \in (-MaxStep)..MaxStep
               /\ from \in Lower..Upper => to \in Lower..Upper
               /\ from < Lower => to > from
               /\ from > Upper => to < from
<1> DEFINE to == Follower!DlsStep(from, wanted)
<1> USE NodesAssumption DEF Follower!FollowerAssumption
<1>1. from \in Int /\ wanted \in Int /\ Lower \in Int /\ Upper \in Int /\ MaxStep \in Nat /\ MaxStep # 0
  OBVIOUS
<1>2. /\ to \in Int
      /\ to - from \in (-MaxStep)..MaxStep
      /\ from \in Lower..Upper => to \in Lower..Upper
      /\ from < Lower => to > from
      /\ from > Upper => to < from
  BY <1>1, Lower < Upper DEF Follower!DlsStep, Follower!Clip
<1>3. \/ from <= to /\ (to <= wanted \/ to <= Lower)
      \/ to <= from /\ (wanted <= to \/ Upper <= to)
  BY <1>1, Lower < Upper DEF Follower!DlsStep, Follower!Clip
<1>4. to \in from..wanted \/ to \in from..Lower \/ to \in wanted..from \/ to \in Upper..from
  BY <1>1, <1>2, <1>3
<1>5. to \in Joints
  BY <1>4
<1> QED
  BY <1>2, <1>5

LEMMA ReceivedTyped ==
    ASSUME Follower!TypeOK, NEW v \in Joints \cup {Bad}, NEW d \in 0..MaxLate,
           NEW stamped \in BOOLEAN, d <= fClock
    PROVE  LET m == Follower!Received(v, d, stamped)
           IN  /\ m \in Follower!Input
               /\ m.v = v
               /\ fReal - m.real <= fClock - m.t + MaxLate
BY NodesAssumption DEF Follower!FollowerAssumption, Follower!TypeOK, Follower!Received, Follower!Input, Follower!Times

LEMMA FollowerHears ==
    ASSUME FollowerInv,
           \/ \E v \in {fQ, Bad}, d \in 0..MaxLate, stamped \in BOOLEAN :
                d <= fClock /\ Follower!OnJointStates(v, d, stamped)
           \/ \E v \in Targets \cup {Bad}, d \in 0..MaxLate, stamped, accepted \in BOOLEAN :
                d <= fClock /\ Follower!OnCommand(v, d, stamped, accepted)
    PROVE  FollowerInv'
<1> USE NodesAssumption DEF Follower!FollowerAssumption, FollowerInv
<1>1. ASSUME NEW v \in {fQ, Bad}, NEW d \in 0..MaxLate, NEW stamped \in BOOLEAN,
             d <= fClock, Follower!OnJointStates(v, d, stamped)
      PROVE  FollowerInv'
  <2>1. v \in Joints \cup {Bad}
    BY DEF Follower!TypeOK
  <2> DEFINE m == Follower!Received(v, d, stamped)
  <2>2. m \in Follower!Input /\ m.v = v /\ fReal - m.real <= fClock - m.t + MaxLate
    BY <1>1, <2>1, ReceivedTyped
  <2> HIDE DEF m
  <2>3. fJointState' = m /\ fHeard' = [fHeard EXCEPT !.state = v # Bad]
        /\ UNCHANGED <<fClock, fReal, fJumps, fDue, fQ, fKinematics, fCommand, fLastTick, fSent>>
    BY <1>1 DEF Follower!OnJointStates, Follower!clockVars, m
  <2>4. Follower!TypeOK'
    BY <2>2, <2>3 DEF Follower!TypeOK, Follower!Maybe, Follower!Step, Follower!Times, Follower!Input
  <2>5. AgeInv' /\ HeardInv'
    BY <2>2, <2>3 DEF AgeInv, HeardInv, Aged, Follower!Jumped, Follower!TypeOK
  <2> QED
    BY <2>3, <2>4, <2>5 DEF Follower!FreshInputs, Follower!StepBounded
<1>2. ASSUME NEW v \in Targets \cup {Bad}, NEW d \in 0..MaxLate, NEW stamped \in BOOLEAN,
             NEW accepted \in BOOLEAN, d <= fClock, Follower!OnCommand(v, d, stamped, accepted)
      PROVE  FollowerInv'
  <2>1. v \in Joints \cup {Bad}
    OBVIOUS
  <2> DEFINE m == Follower!Received(v, d, stamped)
  <2>2. m \in Follower!Input /\ m.v = v /\ fReal - m.real <= fClock - m.t + MaxLate
    BY <1>2, <2>1, ReceivedTyped
  <2> HIDE DEF m
  <2>3. fCommand' = (IF accepted THEN m ELSE None)
        /\ fHeard' = [fHeard EXCEPT !.command = accepted /\ v # Bad]
        /\ UNCHANGED <<fClock, fReal, fJumps, fDue, fQ, fKinematics, fJointState, fLastTick, fSent>>
    BY <1>2 DEF Follower!OnCommand, Follower!clockVars, m
  <2>4. Follower!TypeOK'
    BY <2>2, <2>3 DEF Follower!TypeOK, Follower!Maybe, Follower!Step, Follower!Times, Follower!Input
  <2>5. AgeInv' /\ HeardInv'
    BY <2>2, <2>3 DEF AgeInv, HeardInv, Aged, Follower!Jumped, Follower!TypeOK
  <2> QED
    BY <2>3, <2>4, <2>5 DEF Follower!FreshInputs, Follower!StepBounded
<1> QED
  BY <1>1, <1>2

LEMMA ClockKeeps ==
    ASSUME FollowerInv, Follower!ClockMoves
    PROVE  FollowerInv'
<1> USE NodesAssumption DEF Follower!FollowerAssumption, FollowerInv
<1>1. /\ ~fDue /\ fReal < MaxReal /\ fReal' = fReal + 1 /\ fDue' = TRUE
      /\ \/ fClock' = fClock + 1 /\ fJumps' = fJumps
         \/ fJumps < MaxJumps /\ fClock' \in 0..fClock /\ fClock' < fClock /\ fJumps' = fJumps + 1
      /\ UNCHANGED <<fKinematics, fJointState, fCommand, fLastTick, fSent, fHeard>>
  BY DEF Follower!ClockMoves
<1>2. fQ' \in Joints
  <2>1. fSent # None => fSent.to \in Joints
    BY DEF Follower!TypeOK, Follower!Maybe, Follower!Step
  <2> QED
    BY <2>1 DEF Follower!ClockMoves, Follower!TypeOK
<1>3. fClock' \in 0..MaxReal
  BY <1>1 DEF Follower!TypeOK, AgeInv
<1>4. Follower!TypeOK'
  BY <1>1, <1>2, <1>3 DEF Follower!TypeOK, Follower!Step, Follower!Times, Follower!Input
<1>5. AgeInv'
  <2>1. CASE fClock' = fClock + 1
    <3>1. ~Follower!Jumped
      BY <1>1 DEF AgeInv, Follower!Jumped, Follower!TypeOK
    <3>2. Aged(fJointState)' /\ Aged(fCommand)'
      BY <1>1, <2>1, <3>1 DEF AgeInv, Aged, Follower!TypeOK, Follower!Maybe, Follower!Input, Follower!Times
    <3> QED
      BY <1>1, <2>1, <3>2 DEF AgeInv, Follower!TypeOK
  <2>2. CASE fClock' \in 0..fClock /\ fClock' < fClock
    <3>1. fLastTick = fClock /\ fLastTick # None
      BY <1>1, <2>2 DEF AgeInv, Follower!TypeOK
    <3>2. Follower!Jumped'
      BY <1>1, <2>2, <3>1 DEF Follower!Jumped
    <3> QED
      BY <1>1, <2>2, <3>2 DEF AgeInv, Follower!TypeOK
  <2> QED
    BY <1>1, <2>1, <2>2
<1>6. HeardInv' /\ Follower!FreshInputs' /\ Follower!StepBounded'
  BY <1>1 DEF HeardInv, Follower!FreshInputs, Follower!StepBounded
<1> QED
  BY <1>4, <1>5, <1>6

LEMMA TickKeeps ==
    ASSUME FollowerInv, Follower!Tick
    PROVE  /\ FollowerInv'
           /\ fSent' # None => fHeard.state /\ fHeard.command
<1> USE NodesAssumption DEF Follower!FollowerAssumption, FollowerInv
<1> DEFINE Sends == /\ ~Follower!Jumped /\ fKinematics # None
                    /\ Follower!UsableNow(fJointState, MaxJointStateAge)
                    /\ Follower!UsableNow(fCommand, MaxCommandAge)
                    /\ fJointState.v # Bad /\ fCommand.v # Bad
           step == [from |-> fJointState.v, to |-> Follower!DlsStep(fJointState.v, fCommand.v),
                    state |-> fJointState.real, command |-> fCommand.real, real |-> fReal]
<1>1. /\ fDue /\ fDue' = FALSE /\ fLastTick' = fClock
      /\ fJointState' = IF Follower!Jumped THEN None ELSE fJointState
      /\ fCommand' = IF Follower!Jumped THEN None ELSE fCommand
      /\ fSent' = IF Sends THEN step ELSE None
      /\ UNCHANGED <<fClock, fReal, fJumps, fQ, fKinematics, fHeard>>
  BY DEF Follower!Tick
<1>2. Sends => /\ fJointState \in Follower!Input /\ fJointState.v \in Joints
               /\ fCommand \in Follower!Input /\ fCommand.v \in Joints
               /\ fHeard.state /\ fHeard.command
  BY DEF Follower!TypeOK, Follower!Maybe, Follower!UsableNow, Follower!Input, HeardInv
<1>3. Sends => /\ step \in Follower!Step
               /\ step.to - step.from \in (-MaxStep)..MaxStep
               /\ step.from \in Lower..Upper => step.to \in Lower..Upper
               /\ step.from < Lower => step.to > step.from
               /\ step.from > Upper => step.to < step.from
  <2> SUFFICES ASSUME Sends
               PROVE  /\ step \in Follower!Step
                      /\ step.to - step.from \in (-MaxStep)..MaxStep
                      /\ step.from \in Lower..Upper => step.to \in Lower..Upper
                      /\ step.from < Lower => step.to > step.from
                      /\ step.from > Upper => step.to < step.from
    OBVIOUS
  <2> DEFINE to == Follower!DlsStep(fJointState.v, fCommand.v)
  <2>1. /\ to \in Joints
        /\ to - fJointState.v \in (-MaxStep)..MaxStep
        /\ fJointState.v \in Lower..Upper => to \in Lower..Upper
        /\ fJointState.v < Lower => to > fJointState.v
        /\ fJointState.v > Upper => to < fJointState.v
    BY <1>2, DlsStepBounded
  <2> HIDE DEF to
  <2>2. step = [from |-> fJointState.v, to |-> to,
                state |-> fJointState.real, command |-> fCommand.real, real |-> fReal]
    BY DEF to
  <2>3. fReal \in Follower!Times
    BY DEF Follower!TypeOK, Follower!Times
  <2> HIDE DEF step
  <2> QED
    BY <1>2, <2>1, <2>2, <2>3 DEF Follower!Step, Follower!Input
<1>4. Sends => /\ step.real - step.state <= MaxJointStateAge + MaxLate
               /\ step.real - step.command <= MaxCommandAge + MaxLate
  <2>1. ASSUME NEW m \in Follower!Input, NEW age \in Nat, Aged(m), Follower!UsableNow(m, age)
        PROVE  fReal - m.real <= age + MaxLate
    <3>1. m.t \in Int /\ m.real \in Int /\ fReal \in Int /\ fClock \in Int /\ MaxLate \in Int
      BY DEF Follower!Input, Follower!Times, Follower!TypeOK
    <3> QED
      BY <2>1, <3>1 DEF Aged, Follower!UsableNow
  <2>2. Sends => /\ Aged(fJointState) /\ Follower!UsableNow(fJointState, MaxJointStateAge)
                 /\ Aged(fCommand) /\ Follower!UsableNow(fCommand, MaxCommandAge)
    BY DEF AgeInv
  <2>3. step.real = fReal /\ step.state = fJointState.real /\ step.command = fCommand.real
    OBVIOUS
  <2> HIDE DEF Sends, step
  <2>4. MaxJointStateAge \in Nat /\ MaxCommandAge \in Nat
    OBVIOUS
  <2> QED
    BY <1>2, <2>1, <2>2, <2>3, <2>4
<1> HIDE DEF Sends, step
<1>5. Follower!TypeOK'
  BY <1>1, <1>3 DEF Follower!TypeOK, Follower!Maybe
<1>6. AgeInv' /\ HeardInv'
  BY <1>1 DEF AgeInv, HeardInv, Aged, Follower!Jumped, Follower!TypeOK
<1>7. Follower!FreshInputs' /\ Follower!StepBounded'
  BY <1>1, <1>3, <1>4 DEF Follower!FreshInputs, Follower!StepBounded
<1>8. fSent' # None => fHeard.state /\ fHeard.command
  BY <1>1, <1>2
<1> QED
  BY <1>5, <1>6, <1>7, <1>8

LEMMA FollowerSteps ==
    ASSUME FollowerInv, [Follower!Next]_Follower!vars
    PROVE  /\ FollowerInv'
           /\ fSent' \notin {None, fSent} => fHeard.state /\ fHeard.command
<1> USE DEF FollowerInv
<1>1. CASE Follower!ClockMoves
  BY <1>1, ClockKeeps DEF Follower!ClockMoves
<1>2. CASE Follower!Tick
  BY <1>2, TickKeeps
<1>3. ASSUME NEW r \in Robots, Follower!OnDescription(r)
      PROVE  FollowerInv' /\ fSent' = fSent
  <2>1. /\ fKinematics' \in Follower!Maybe(Usable)
        /\ UNCHANGED <<fClock, fReal, fJumps, fDue, fQ, fJointState, fCommand, fLastTick, fSent, fHeard>>
    BY <1>3 DEF Follower!OnDescription, Follower!Builds, Follower!Maybe, Follower!clockVars, Follower!TypeOK
  <2>2. Follower!TypeOK'
    BY <2>1 DEF Follower!TypeOK
  <2> QED
    BY <2>1, <2>2 DEF AgeInv, HeardInv, Aged, Follower!Jumped, Follower!FreshInputs, Follower!StepBounded
<1>4. CASE \/ \E v \in {fQ, Bad}, d \in 0..MaxLate, stamped \in BOOLEAN :
                d <= fClock /\ Follower!OnJointStates(v, d, stamped)
           \/ \E v \in Targets \cup {Bad}, d \in 0..MaxLate, stamped, accepted \in BOOLEAN :
                d <= fClock /\ Follower!OnCommand(v, d, stamped, accepted)
  <2>1. fSent' = fSent
    BY <1>4 DEF Follower!OnJointStates, Follower!OnCommand
  <2> QED
    BY <1>4, <2>1, FollowerHears
<1>5. CASE UNCHANGED Follower!vars
  BY <1>5 DEF Follower!vars, Follower!clockVars, AgeInv, HeardInv, Aged, Follower!Jumped, Follower!TypeOK,
     Follower!FreshInputs, Follower!StepBounded
<1> QED
  BY <1>1, <1>2, <1>3, <1>4, <1>5 DEF Follower!Next

LEMMA FollowerHolds == Follower!Spec => []FollowerInv
<1>1. FollowerInv /\ [Follower!Next]_Follower!vars => FollowerInv'
  BY FollowerSteps
<1> QED
  BY FollowerStarts, <1>1, PTL DEF Follower!Spec

LEMMA BadDataStops == Follower!Spec => Follower!BadStops
<1>1. FollowerInv /\ [Follower!Next]_Follower!vars
        => [fSent' \notin {None, fSent} => fHeard.state /\ fHeard.command]_Follower!vars
  BY FollowerSteps
<1> QED
  BY FollowerHolds, <1>1, PTL DEF Follower!Spec, Follower!BadStops

-----------------------------------------------------------------------------
(* SimCamera.                                                              *)

(* What was drawn or published of the clock's current run is not of its future, and
   what is drawn is not older than what was published. *)
DrawnInv ==
    /\ cColour # None => /\ cColour.epoch <= cEpoch
                         /\ cColour.epoch = cEpoch => cColour.t <= cClock
    /\ cColours # None => /\ cColours.epoch <= cEpoch
                          /\ cColours.epoch = cEpoch => cColours.t <= cClock
    /\ cColour # None /\ cColours # None =>
         /\ cColours.epoch <= cColour.epoch
         /\ cColours.epoch = cColour.epoch => cColours.t <= cColour.t

(* The node knows the stamp of the colour it published last. *)
PublishedInv ==
    cLastPublished # None => cColours # None /\ cColours.t = cLastPublished

CameraInv ==
    /\ Camera!TypeOK /\ cClock <= cSteps /\ DrawnInv /\ PublishedInv /\ Camera!PairNotHeld
    /\ cColours # None => cLastPublished # None

(* What a step of the camera node may do to what it has published. *)
CameraStep ==
    /\ cDepths' # cDepths => cColours' # None /\ cDepths' = cColours'.t
    /\ cColours # None /\ cColours' # cColours /\ cColours.epoch = cColours'.epoch
         => cColours'.t - cColours.t >= MinGap

LEMMA CameraStarts == Camera!Init => CameraInv
<1> SUFFICES ASSUME Camera!Init PROVE CameraInv
  OBVIOUS
<1>1. 0 \in Camera!Stamps /\ 0 \in 0..MaxJumps /\ 0 \in 0..CameraTime
  BY NodesAssumption DEF Camera!CameraAssumption, Camera!Stamps
<1> QED
  BY <1>1 DEF Camera!Init, CameraInv, Camera!TypeOK, Camera!Maybe, DrawnInv, PublishedInv, Camera!PairNotHeld

(* A pairing publishes a depth of the colour's stamp, and leaves a later one
   pending (publish_paired_depth). *)
LEMMA PairedIsOfColour ==
    ASSUME NEW p \in Camera!Maybe(Camera!Stamps), NEW c \in Camera!Maybe(Camera!Stamps)
    PROVE  LET r == Camera!Paired(p, c)
           IN  /\ r.pending \in Camera!Maybe(Camera!Stamps)
               /\ r.pending # None /\ c # None => r.pending > c
               /\ r.out # None => r.out = c
BY NodesAssumption DEF Camera!CameraAssumption, Camera!Paired, Camera!Maybe, Camera!Stamps

LEMMA CameraSteps ==
    ASSUME CameraInv, [Camera!Next]_Camera!vars
    PROVE  CameraInv' /\ CameraStep
<1> USE NodesAssumption DEF Camera!CameraAssumption, CameraInv
<1>1. CASE Camera!ClockMoves
  <2>1. /\ cSteps < CameraTime /\ cSteps' = cSteps + 1
        /\ \/ cClock' = cClock + 1 /\ cEpoch' = cEpoch
           \/ cEpoch < MaxJumps /\ cClock' \in 0..cClock /\ cClock' < cClock /\ cEpoch' = cEpoch + 1
        /\ UNCHANGED <<cColour, cDepth, cLastPublished, cLastRender, cPendingDepth, cColours, cDepths>>
    BY <1>1 DEF Camera!ClockMoves, Camera!topicVars, Camera!nodeVars
  <2>2. Camera!TypeOK' /\ cClock' <= cSteps'
    BY <2>1 DEF Camera!TypeOK, Camera!Stamps
  <2>3. DrawnInv'
    BY <2>1 DEF DrawnInv, Camera!TypeOK, Camera!Maybe, Camera!Render, Camera!Shown, Camera!Stamps
  <2> QED
    BY <2>1, <2>2, <2>3 DEF PublishedInv, Camera!PairNotHeld, CameraStep
<1>2. CASE Camera!RenderColour
  <2>1. PICK fits \in BOOLEAN : cColour' = [t |-> cClock, epoch |-> cEpoch, fits |-> fits]
    BY <1>2 DEF Camera!RenderColour
  <2>2. UNCHANGED <<cClock, cEpoch, cSteps, cDepth, cLastPublished, cLastRender, cPendingDepth, cColours, cDepths>>
    BY <1>2 DEF Camera!RenderColour, Camera!nodeVars
  <2>3. Camera!TypeOK'
    BY <2>1, <2>2 DEF Camera!TypeOK, Camera!Maybe, Camera!Render
  <2>4. DrawnInv'
    BY <2>1, <2>2 DEF DrawnInv, Camera!TypeOK, Camera!Stamps
  <2> QED
    BY <2>2, <2>3, <2>4 DEF PublishedInv, Camera!PairNotHeld, CameraStep
<1>3. CASE Camera!RenderDepth
  <2>1. PICK fits \in BOOLEAN : cDepth' = [t |-> cClock, epoch |-> cEpoch, fits |-> fits]
    BY <1>3 DEF Camera!RenderDepth
  <2>2. UNCHANGED <<cClock, cEpoch, cSteps, cColour, cLastPublished, cLastRender, cPendingDepth, cColours, cDepths>>
    BY <1>3 DEF Camera!RenderDepth, Camera!nodeVars
  <2>3. Camera!TypeOK'
    BY <2>1, <2>2 DEF Camera!TypeOK, Camera!Maybe, Camera!Render
  <2> QED
    BY <2>2, <2>3 DEF DrawnInv, PublishedInv, Camera!PairNotHeld, CameraStep
<1>4. CASE Camera!OnRender
  <2> USE <1>4 DEF Camera!OnRender
  <2>1. cColour \in Camera!Render /\ cColour.t \in Camera!Stamps
    BY DEF Camera!TypeOK, Camera!Maybe, Camera!Render
  <2>2. cLastRender' \in Camera!Stamps
    BY DEF Camera!TypeOK
  <2>3. CASE Camera!CanUse(cColour) /\ ~Camera!Thinned(cColour)
    <3> DEFINE r == Camera!Paired(cPendingDepth, cColour.t)
    <3>1. /\ r.pending \in Camera!Maybe(Camera!Stamps)
          /\ r.pending # None => r.pending > cColour.t
          /\ r.out # None => r.out = cColour.t
      <4>1. /\ cColour.t \in Camera!Maybe(Camera!Stamps) /\ cColour.t # None
            /\ cPendingDepth \in Camera!Maybe(Camera!Stamps)
        BY <2>1 DEF Camera!Maybe, Camera!TypeOK, Camera!Stamps
      <4> QED
        BY <4>1, PairedIsOfColour
    <3>2. /\ cLastPublished' = cColour.t
          /\ cColours' = [t |-> cColour.t, epoch |-> cColour.epoch]
          /\ cPendingDepth' = r.pending
          /\ cDepths' = IF r.out = None THEN cDepths ELSE r.out
          /\ cColour' = None
      BY <2>3 DEF Camera!Pair
    <3> HIDE DEF r
    <3>3. cColours' \in Camera!Shown /\ cColours' # None /\ cColours'.t = cColour.t /\ cColours'.epoch = cColour.epoch
      BY <2>1, <3>2 DEF Camera!Render, Camera!Shown
    <3>4. Camera!TypeOK'
      BY <2>1, <2>2, <3>1, <3>2, <3>3 DEF Camera!TypeOK, Camera!Maybe
    <3>5. DrawnInv' /\ PublishedInv' /\ Camera!PairNotHeld'
      BY <2>1, <3>1, <3>2, <3>3 DEF DrawnInv, PublishedInv, Camera!PairNotHeld
    <3>6. cDepths' # cDepths => cColours' # None /\ cDepths' = cColours'.t
      BY <3>1, <3>2, <3>3
    <3>7. ASSUME cColours # None, cColours.epoch = cColours'.epoch
          PROVE  cColours'.t - cColours.t >= MinGap
      <4>1. cColours.t = cLastPublished /\ cLastPublished # None
        BY <3>7 DEF PublishedInv
      <4>2. cColours.t <= cColour.t /\ cColours.t \in Int /\ cColour.t \in Int
        BY <2>1, <3>3, <3>7 DEF DrawnInv, Camera!TypeOK, Camera!Maybe, Camera!Shown, Camera!Stamps
      <4>3. cColour.t - cColours.t \notin 0..(MinGap - 1)
        BY <2>3, <4>1 DEF Camera!Thinned
      <4> QED
        BY <3>3, <4>2, <4>3
    <3>8. cLastPublished' # None
      BY <2>1, <3>2 DEF Camera!Stamps
    <3> QED
      BY <3>4, <3>5, <3>6, <3>7, <3>8 DEF CameraStep
  <2>4. CASE ~(Camera!CanUse(cColour) /\ ~Camera!Thinned(cColour))
    <3>1. UNCHANGED <<cLastPublished, cColours, cPendingDepth, cDepths>> /\ cColour' = None
      BY <2>4
    <3>2. Camera!TypeOK'
      BY <2>2, <3>1 DEF Camera!TypeOK, Camera!Maybe
    <3> QED
      BY <3>1, <3>2 DEF DrawnInv, PublishedInv, Camera!PairNotHeld, CameraStep
  <2> QED
    BY <2>3, <2>4
<1>5. CASE Camera!OnDepthRender
  <2> USE <1>5 DEF Camera!OnDepthRender
  <2>1. cDepth.t \in Camera!Stamps
    BY DEF Camera!TypeOK, Camera!Maybe, Camera!Render
  <2>2. CASE Camera!CanUse(cDepth) /\ (cLastPublished = None \/ cDepth.t >= cLastPublished)
    <3> DEFINE r == Camera!Paired(cDepth.t, cLastPublished)
    <3>1. /\ r.pending \in Camera!Maybe(Camera!Stamps)
          /\ r.pending # None /\ cLastPublished # None => r.pending > cLastPublished
          /\ r.out # None => r.out = cLastPublished
      BY <2>1, PairedIsOfColour DEF Camera!Maybe, Camera!TypeOK
    <3>2. /\ cPendingDepth' = r.pending
          /\ cDepths' = IF r.out = None THEN cDepths ELSE r.out
          /\ cDepth' = None
      BY <2>2 DEF Camera!Pair
    <3> HIDE DEF r
    <3>3. Camera!TypeOK'
      BY <3>1, <3>2 DEF Camera!TypeOK, Camera!Maybe
    <3>4. DrawnInv' /\ PublishedInv' /\ Camera!PairNotHeld'
      BY <3>1, <3>2 DEF DrawnInv, PublishedInv, Camera!PairNotHeld
    <3>5. CameraStep
      BY <3>1, <3>2 DEF CameraStep, PublishedInv
    <3> QED
      BY <3>3, <3>4, <3>5
  <2>3. CASE ~(Camera!CanUse(cDepth) /\ (cLastPublished = None \/ cDepth.t >= cLastPublished))
    <3>1. UNCHANGED <<cPendingDepth, cDepths>> /\ cDepth' = None
      BY <2>3
    <3>2. Camera!TypeOK'
      BY <3>1 DEF Camera!TypeOK, Camera!Maybe
    <3> QED
      BY <3>1, <3>2 DEF DrawnInv, PublishedInv, Camera!PairNotHeld, CameraStep
  <2> QED
    BY <2>2, <2>3
<1>6. CASE Camera!CheckStalled
  <2>1. /\ cLastRender' \in {cLastRender, cClock} /\ cPendingDepth' \in {cPendingDepth, None}
        /\ UNCHANGED <<cClock, cEpoch, cSteps, cColour, cDepth, cLastPublished, cColours, cDepths>>
    BY <1>6 DEF Camera!CheckStalled, Camera!topicVars
  <2>2. Camera!TypeOK'
    BY <2>1 DEF Camera!TypeOK, Camera!Maybe
  <2> QED
    BY <2>1, <2>2 DEF DrawnInv, PublishedInv, Camera!PairNotHeld, CameraStep
<1>7. CASE UNCHANGED Camera!vars
  BY <1>7 DEF Camera!vars, Camera!topicVars, Camera!nodeVars, Camera!TypeOK, DrawnInv, PublishedInv,
     Camera!PairNotHeld, CameraStep
<1> QED
  BY <1>1, <1>2, <1>3, <1>4, <1>5, <1>6, <1>7 DEF Camera!Next

LEMMA CameraHolds ==
    Camera!Spec => []CameraInv /\ Camera!DepthHasColour /\ Camera!RateKept
<1>1. CameraInv /\ [Camera!Next]_Camera!vars => CameraInv'
  BY CameraSteps
<1>2. CameraInv /\ [Camera!Next]_Camera!vars
        => [cDepths' # cDepths => cColours' # None /\ cDepths' = cColours'.t]_Camera!vars
  BY CameraSteps DEF CameraStep
<1>3. CameraInv /\ [Camera!Next]_Camera!vars
        => [cColours # None /\ cColours' # cColours /\ cColours.epoch = cColours'.epoch
              => cColours'.t - cColours.t >= MinGap]_Camera!vars
  BY CameraSteps DEF CameraStep
<1> QED
  BY CameraStarts, <1>1, <1>2, <1>3, PTL DEF Camera!Spec, Camera!DepthHasColour, Camera!RateKept

-----------------------------------------------------------------------------
(* IsaacObjects.                                                           *)

(* The stage runner's states, as it goes through them (fm_sim_isaac.py, run). *)
StageInv ==
    /\ iStage.app => Assets \subseteq iHere
    /\ CASE iStage.at = "off"      -> ~iStage.app /\ ~iStage.listens /\ ~iStage.ready
         [] iStage.at = "building" -> iStage.app /\ ~iStage.listens /\ ~iStage.ready
         [] iStage.at = "built"    -> iStage.app /\ iStage.listens /\ ~iStage.ready
         [] iStage.at = "playing"  -> iStage.app /\ iStage.listens
         [] iStage.at = "ended"    -> ~iStage.app /\ ~iStage.listens

(* A pose update of after the command that shows every object at its target is of a
   step in which they were there. *)
Shows(u) == u.t > iSent /\ u.p = iMove.targets => iThere

SeenInv ==
    /\ iSent <= iTime
    /\ \A i \in 1..Len(iAir) : iAir[i].t <= iTime
    /\ iLatest # None => iLatest.t <= iTime
    /\ iMove.at = "reaching" =>
         /\ \A i \in 1..Len(iAir) : Shows(iAir[i])
         /\ iLatest # None => Shows(iLatest)

IsaacMove ==
    \/ iMove \in [at: {"idle"}, told: {None, "moved", "failed"}]
    \/ iMove \in [at: {"idle"}, told: {"moved", "failed"}, targets: Isaac!MoveTargets]
    \/ iMove \in [at: {"listener", "reaching"}, told: {None}, targets: Isaac!MoveTargets]

IsaacInv ==
    /\ Isaac!TypeOK /\ IsaacMove /\ StageInv /\ SeenInv /\ Isaac!ReallyThere

LEMMA EmptyFits == ASSUME NEW S PROVE << >> \in Seq(S) /\ Len(<< >>) <= QueueDepth
BY NodesAssumption DEF Isaac!IsaacAssumption

(* A full subscription's queue is one it had room for. *)
Fits(S, q, m, k) ==
    /\ k \in Seq(S) /\ Len(k) <= QueueDepth
    /\ \A i \in 1..Len(k) : k[i] = m \/ \E j \in 1..Len(q) : k[i] = q[j]

LEMMA KeptFits ==
    ASSUME NEW S, NEW q \in Seq(S), Len(q) <= QueueDepth, NEW m \in S
    PROVE  Fits(S, q, m, Isaac!Kept(Append(q, m)))
<1> USE NodesAssumption DEF Isaac!IsaacAssumption, Fits
<1> DEFINE a == Append(q, m)
<1>1. a \in Seq(S) /\ Len(a) = Len(q) + 1 /\ \A i \in 1..Len(a) : a[i] = m \/ \E j \in 1..Len(q) : a[i] = q[j]
  OBVIOUS
<1> HIDE DEF a
<1>2. CASE Len(a) > QueueDepth
  <2>1. Isaac!Kept(a) = Tail(a) /\ Tail(a) \in Seq(S) /\ Len(Tail(a)) = Len(a) - 1
    BY <1>1, <1>2 DEF Isaac!Kept
  <2>2. \A i \in 1..Len(Tail(a)) : Tail(a)[i] = a[i + 1] /\ i + 1 \in 1..Len(a)
    BY <1>1, <1>2
  <2> QED
    BY <1>1, <2>1, <2>2 DEF a
<1>3. CASE ~(Len(a) > QueueDepth)
  BY <1>1, <1>3 DEF Isaac!Kept, a
<1> QED
  BY <1>2, <1>3

(* The stamps of the poses on their way and of the last one read are numbers. *)
LEMMA StampsTyped ==
    ASSUME Isaac!TypeOK
    PROVE  /\ iAir \in Seq(Isaac!Update) /\ Len(iAir) <= QueueDepth
           /\ \A i \in 1..Len(iAir) : iAir[i].t \in Int
           /\ iLatest # None => iLatest.t \in Int
           /\ iTime \in Int /\ iSent \in Int
<1>1. /\ iAir \in Seq(Isaac!Update) /\ Len(iAir) <= QueueDepth
      /\ iLatest # None => iLatest \in Isaac!Update
      /\ iTime \in 0..MaxTime /\ iSent \in 0..MaxTime
  BY DEF Isaac!TypeOK
<1>2. \A u \in Isaac!Update : u.t \in 0..MaxTime
  BY DEF Isaac!Update
<1>3. \A i \in 1..Len(iAir) : iAir[i] \in Isaac!Update
  BY <1>1
<1>4. MaxTime \in Nat
  BY NodesAssumption DEF Isaac!IsaacAssumption
<1>5. 0..MaxTime \subseteq Int
  BY <1>4
<1> QED
  BY <1>1, <1>2, <1>3, <1>5

LEMMA IsaacStarts == Isaac!Init => IsaacInv
<1> SUFFICES ASSUME Isaac!Init PROVE IsaacInv
  OBVIOUS
<1> USE NodesAssumption DEF Isaac!IsaacAssumption, Isaac!Init
<1>1. Isaac!TypeOK
  <2>1. /\ iTime \in 0..MaxTime /\ iHere \subseteq Assets /\ iPlace \in [Objects -> Places]
        /\ iSent \in 0..MaxTime /\ iMoves \in 0..IsaacMoves /\ iPushes \in 0..MaxPushes
    OBVIOUS
  <2>2. iStage \in [at: {"off", "building", "built", "playing", "ended"},
                    listens: BOOLEAN, ready: BOOLEAN, app: BOOLEAN, error: BOOLEAN]
    OBVIOUS
  <2>3. /\ iCommands \in Seq(Isaac!MoveTargets) /\ Len(iCommands) <= QueueDepth
        /\ iAir \in Seq(Isaac!Update) /\ Len(iAir) <= QueueDepth
    BY EmptyFits
  <2> QED
    BY <2>1, <2>2, <2>3 DEF Isaac!TypeOK, Isaac!Idle
<1>2. IsaacMove /\ Isaac!ReallyThere
  BY DEF IsaacMove, Isaac!Idle, Isaac!ReallyThere
<1>3. StageInv /\ SeenInv
  BY DEF StageInv, SeenInv, Isaac!Idle
<1> QED
  BY <1>1, <1>2, <1>3 DEF IsaacInv

(* Start, Listen, Play and End: only the stage changes, and what waits for it. *)
LEMMA StageKeeps ==
    ASSUME IsaacInv, Isaac!Start \/ Isaac!Listen \/ Isaac!Play \/ Isaac!End
    PROVE  IsaacInv'
<1> USE NodesAssumption DEF Isaac!IsaacAssumption, IsaacInv
<1>1. /\ UNCHANGED <<iTime, iHere, iPlace, iPushes, iThere, iAir, iLatest, iMove, iMoves, iSent>>
      /\ iCommands' \in {iCommands, << >>}
  BY DEF Isaac!Start, Isaac!Listen, Isaac!Play, Isaac!End, Isaac!nodeVars
<1>2. iStage \in [at: {"off", "building", "built", "playing", "ended"},
                  listens: BOOLEAN, ready: BOOLEAN, app: BOOLEAN, error: BOOLEAN]
  BY DEF Isaac!TypeOK
<1>3. /\ iStage' \in [at: {"off", "building", "built", "playing", "ended"},
                       listens: BOOLEAN, ready: BOOLEAN, app: BOOLEAN, error: BOOLEAN]
      /\ StageInv'
  <2>1. CASE Isaac!Start
    BY <1>1, <1>2, <2>1 DEF Isaac!Start, StageInv
  <2>2. CASE Isaac!Listen
    BY <1>1, <1>2, <2>2 DEF Isaac!Listen, StageInv
  <2>3. CASE Isaac!Play
    BY <1>1, <1>2, <2>3 DEF Isaac!Play, StageInv
  <2>4. CASE Isaac!End
    <3>1. PICK error \in BOOLEAN :
            iStage' = [iStage EXCEPT !.at = "ended", !.listens = FALSE, !.app = FALSE, !.error = error]
      BY <2>4 DEF Isaac!End
    <3> QED
      BY <1>1, <1>2, <3>1 DEF StageInv
  <2> QED
    BY <2>1, <2>2, <2>3, <2>4
<1>4. Isaac!TypeOK'
  <2>1. iCommands' \in Seq(Isaac!MoveTargets) /\ Len(iCommands') <= QueueDepth
    <3>1. iCommands \in Seq(Isaac!MoveTargets) /\ Len(iCommands) <= QueueDepth
      BY DEF Isaac!TypeOK
    <3>2. << >> \in Seq(Isaac!MoveTargets) /\ Len(<< >>) <= QueueDepth
      BY ONLY EmptyFits
    <3> QED
      BY ONLY <1>1, <3>1, <3>2
  <2> QED
    BY <1>1, <1>3, <2>1 DEF Isaac!TypeOK, Isaac!Update, Isaac!MoveTargets
<1> QED
  BY <1>1, <1>3, <1>4 DEF IsaacMove, SeenInv, Shows, Isaac!ReallyThere

(* A step of the loop: what it shows on its way to the node is where it put them. *)
LEMMA LoopKeeps ==
    ASSUME IsaacInv, Isaac!Step
    PROVE  IsaacInv'
<1> USE NodesAssumption DEF Isaac!IsaacAssumption, IsaacInv
<1> DEFINE update == [t |-> iTime', p |-> iPlace']
<1>1. /\ iTime < MaxTime /\ iTime' = iTime + 1
      /\ iThere' = (iThere \/ (iMove.at = "reaching" /\ iPlace' = iMove.targets))
      /\ iAir' = Isaac!Kept(Append(iAir, update))
      /\ UNCHANGED <<iHere, iStage, iLatest, iMove, iMoves, iSent>>
  BY DEF Isaac!Step, Isaac!nodeVars
<1>2. /\ iPlace' \in [Objects -> Places] /\ iPushes' \in 0..MaxPushes
      /\ iCommands' \in Seq(Isaac!MoveTargets) /\ Len(iCommands') <= QueueDepth
  <2>1. PICK taken \in {None} \cup {iCommands[i] : i \in 1..Len(iCommands) \cap {1}},
             pushed \in {None} \cup Objects :
          /\ iCommands' = IF taken = None THEN iCommands ELSE Tail(iCommands)
          /\ pushed # None => iPushes < MaxPushes
          /\ iPushes' = IF pushed = None THEN iPushes ELSE iPushes + 1
          /\ iPlace' \in [Objects -> Places]
    BY DEF Isaac!Step
  <2>2. taken # None => iCommands # << >>
    BY DEF Isaac!TypeOK
  <2> QED
    BY <2>1, <2>2 DEF Isaac!TypeOK
<1>3. update \in Isaac!Update
  BY <1>1, <1>2 DEF Isaac!Update, Isaac!TypeOK
<1>4. /\ iAir' \in Seq(Isaac!Update) /\ Len(iAir') <= QueueDepth
      /\ \A i \in 1..Len(iAir') : iAir'[i] = update \/ \E j \in 1..Len(iAir) : iAir'[i] = iAir[j]
  <2>1. iAir \in Seq(Isaac!Update) /\ Len(iAir) <= QueueDepth
    BY StampsTyped
  <2>2. iAir' = Isaac!Kept(Append(iAir, update))
    BY <1>1
  <2> HIDE DEF update, IsaacInv, Isaac!IsaacAssumption
  <2>3. Fits(Isaac!Update, iAir, update, Isaac!Kept(Append(iAir, update)))
    BY ONLY <1>3, <2>1, KeptFits
  <2> QED
    BY ONLY <2>2, <2>3 DEF Fits
<1>5. Isaac!TypeOK'
  BY <1>1, <1>2, <1>4 DEF Isaac!TypeOK, Isaac!Update, Isaac!MoveTargets
<1>6. SeenInv'
  <2>1. update.t = iTime' /\ update.p = iPlace'
    OBVIOUS
  <2> HIDE DEF update
  <2>2. iTime \in Int /\ iTime' = iTime + 1 /\ iSent <= iTime /\ iSent \in Int
    BY <1>1, StampsTyped DEF SeenInv
  <2>3. iSent' <= iTime' /\ (iLatest' # None => iLatest'.t <= iTime')
    <3>1. iLatest # None => iLatest.t \in Int /\ iLatest.t <= iTime
      BY StampsTyped DEF SeenInv
    <3> QED
      BY <1>1, <2>2, <3>1
  <2>4. /\ iThere => iThere'
        /\ iMove.at = "reaching" /\ iPlace' = iMove.targets => iThere'
    BY <1>1
  <2>5. ASSUME NEW i \in 1..Len(iAir')
        PROVE  /\ iAir'[i].t <= iTime'
               /\ iMove.at = "reaching" => (iAir'[i].t > iSent /\ iAir'[i].p = iMove.targets => iThere')
    <3>1. CASE iAir'[i] = update
      <4>1. iAir'[i].t = iTime + 1 /\ iAir'[i].p = iPlace'
        BY <2>1, <2>2, <3>1
      <4> QED
        BY ONLY <2>2, <2>4, <4>1
    <3>2. CASE \E j \in 1..Len(iAir) : iAir'[i] = iAir[j]
      <4>1. PICK j \in 1..Len(iAir) : iAir'[i] = iAir[j]
        BY <3>2
      <4>2. iAir[j].t <= iTime /\ iAir[j].t \in Int
        BY StampsTyped DEF SeenInv
      <4>3. iMove.at = "reaching" => (iAir[j].t > iSent /\ iAir[j].p = iMove.targets => iThere)
        BY DEF SeenInv, Shows
      <4> QED
        BY ONLY <2>2, <2>4, <4>1, <4>2, <4>3
    <3> QED
      BY <1>4, <3>1, <3>2
  <2>6. iMove.at = "reaching" /\ iLatest # None
          => (iLatest.t > iSent /\ iLatest.p = iMove.targets => iThere')
    BY <1>1 DEF SeenInv, Shows
  <2> QED
    BY <1>1, <2>3, <2>5, <2>6 DEF SeenInv, Shows
<1>7. IsaacMove' /\ StageInv' /\ Isaac!ReallyThere'
  BY <1>1 DEF IsaacMove, StageInv, Isaac!ReallyThere
<1> QED
  BY <1>5, <1>6, <1>7

LEMMA PosesKeep ==
    ASSUME IsaacInv, Isaac!Poses
    PROVE  IsaacInv'
<1> USE NodesAssumption DEF Isaac!IsaacAssumption, IsaacInv
<1>1. /\ iAir # << >> /\ iAir' = Tail(iAir) /\ iLatest' \in {iLatest, iAir[1]}
      /\ UNCHANGED <<iTime, iHere, iPlace, iStage, iCommands, iPushes, iThere, iMove, iMoves, iSent>>
  BY DEF Isaac!Poses, Isaac!stageVars
<1>2. /\ iAir[1] \in Isaac!Update /\ 1 \in 1..Len(iAir)
      /\ iAir' \in Seq(Isaac!Update) /\ Len(iAir') <= QueueDepth
      /\ \A i \in 1..Len(iAir') : iAir'[i] = iAir[i + 1] /\ i + 1 \in 1..Len(iAir)
  BY <1>1 DEF Isaac!TypeOK
<1>3. Isaac!TypeOK'
  BY <1>1, <1>2 DEF Isaac!TypeOK, Isaac!Update, Isaac!MoveTargets
<1>4. SeenInv'
  BY <1>1, <1>2 DEF SeenInv, Shows
<1> QED
  BY <1>1, <1>3, <1>4 DEF IsaacMove, StageInv, Isaac!ReallyThere

(* move() asks, gives up, publishes and polls. *)
LEMMA IsaacMoverKeeps ==
    ASSUME IsaacInv, Isaac!Mover
    PROVE  IsaacInv'
<1> USE NodesAssumption DEF Isaac!IsaacAssumption, IsaacInv
<1>1. CASE Isaac!Ask
  <2>1. PICK targets \in Isaac!MoveTargets : iMove' = [at |-> "listener", told |-> None, targets |-> targets]
    BY <1>1 DEF Isaac!Ask
  <2>2. /\ iMoves < IsaacMoves /\ iMoves' = iMoves + 1
        /\ UNCHANGED <<iTime, iHere, iPlace, iStage, iCommands, iPushes, iThere, iAir, iLatest, iSent>>
    BY <1>1 DEF Isaac!Ask, Isaac!stageVars
  <2>3. IsaacMove' /\ iMove'.at = "listener" /\ iMove'.told = None
    BY <2>1 DEF IsaacMove, Isaac!MoveTargets
  <2>4. Isaac!TypeOK'
    BY <2>2, <2>3 DEF Isaac!TypeOK, Isaac!Update, Isaac!MoveTargets
  <2> QED
    BY <2>2, <2>3, <2>4 DEF StageInv, SeenInv, Isaac!ReallyThere
<1>2. CASE Isaac!NoListener
  <2>1. /\ iMove' = [at |-> "idle", told |-> "failed"]
        /\ UNCHANGED <<iTime, iHere, iPlace, iStage, iCommands, iPushes, iThere, iAir, iLatest, iSent, iMoves>>
    BY <1>2 DEF Isaac!NoListener, Isaac!stageVars, Isaac!Idle
  <2>2. IsaacMove'
    BY <2>1 DEF IsaacMove
  <2>3. Isaac!TypeOK'
    BY <2>1 DEF Isaac!TypeOK, Isaac!Update, Isaac!MoveTargets
  <2> QED
    BY <2>1, <2>2, <2>3 DEF StageInv, SeenInv, Isaac!ReallyThere
<1>3. CASE Isaac!Publish
  <2>1. /\ iMove.at = "listener" /\ iMove' = [iMove EXCEPT !.at = "reaching"]
        /\ iSent' = iTime /\ iThere' = FALSE
        /\ iCommands' = Isaac!Kept(Append(iCommands, iMove.targets))
        /\ UNCHANGED <<iTime, iHere, iPlace, iStage, iPushes, iAir, iLatest, iMoves>>
    BY <1>3 DEF Isaac!Publish
  <2>2. iMove \in [at: {"listener", "reaching"}, told: {None}, targets: Isaac!MoveTargets]
    BY <2>1 DEF IsaacMove
  <2>3. IsaacMove' /\ iMove'.at = "reaching" /\ iMove'.told = None
    BY <2>1, <2>2 DEF IsaacMove, Isaac!MoveTargets
  <2>4. iCommands' \in Seq(Isaac!MoveTargets) /\ Len(iCommands') <= QueueDepth
    <3>1. iCommands \in Seq(Isaac!MoveTargets) /\ Len(iCommands) <= QueueDepth
      BY DEF Isaac!TypeOK
    <3>2. iMove.targets \in Isaac!MoveTargets
      BY <2>2
    <3>3. Fits(Isaac!MoveTargets, iCommands, iMove.targets, Isaac!Kept(Append(iCommands, iMove.targets)))
      BY ONLY <3>1, <3>2, KeptFits
    <3> QED
      BY ONLY <2>1, <3>3 DEF Fits
  <2>5. Isaac!TypeOK'
    BY <2>1, <2>3, <2>4 DEF Isaac!TypeOK, Isaac!Update, Isaac!MoveTargets
  <2>6. SeenInv'
    <3>1. iTime \in Int /\ iSent' = iTime
      BY <2>1, StampsTyped
    <3>2. \A i \in 1..Len(iAir) : iAir[i].t \in Int /\ iAir[i].t <= iTime
      BY StampsTyped DEF SeenInv
    <3>3. iLatest # None => iLatest.t \in Int /\ iLatest.t <= iTime
      BY StampsTyped DEF SeenInv
    <3> QED
      BY <2>1, <3>1, <3>2, <3>3 DEF SeenInv, Shows
  <2> QED
    BY <2>1, <2>3, <2>5, <2>6 DEF StageInv, Isaac!ReallyThere
<1>4. CASE Isaac!Polled
  <2>1. /\ iMove.at = "reaching"
        /\ iMove' = [iMove EXCEPT !.at = "idle",
                                  !.told = IF Isaac!Reached(iMove.targets) THEN "moved" ELSE "failed"]
        /\ UNCHANGED <<iTime, iHere, iPlace, iStage, iCommands, iPushes, iThere, iAir, iLatest, iSent, iMoves>>
    BY <1>4 DEF Isaac!Polled, Isaac!stageVars
  <2>2. iMove \in [at: {"listener", "reaching"}, told: {None}, targets: Isaac!MoveTargets]
    BY <2>1 DEF IsaacMove
  <2>3. /\ IsaacMove' /\ iMove'.at = "idle" /\ iMove'.told \in {"moved", "failed"}
        /\ iMove'.told = "moved" => Isaac!Reached(iMove.targets)
    BY <2>1, <2>2 DEF IsaacMove, Isaac!MoveTargets
  <2>4. Isaac!Reached(iMove.targets) => iThere
    BY <2>1 DEF SeenInv, Shows, Isaac!Reached
  <2>5. Isaac!TypeOK'
    BY <2>1, <2>3 DEF Isaac!TypeOK, Isaac!Update, Isaac!MoveTargets
  <2> QED
    BY <2>1, <2>3, <2>4, <2>5 DEF StageInv, SeenInv, Isaac!ReallyThere
<1> QED
  BY <1>1, <1>2, <1>3, <1>4 DEF Isaac!Mover

LEMMA IsaacSteps ==
    ASSUME IsaacInv, [Isaac!Next]_Isaac!vars
    PROVE  IsaacInv'
<1>1. CASE Isaac!Runner
  BY <1>1, StageKeeps, LoopKeeps DEF Isaac!Runner
<1>2. CASE Isaac!Poses
  BY <1>2, PosesKeep
<1>3. CASE Isaac!Mover
  BY <1>3, IsaacMoverKeeps
<1>4. CASE UNCHANGED Isaac!vars
  <2>1. UNCHANGED <<iTime, iHere, iPlace, iStage, iCommands, iPushes, iThere, iAir, iLatest, iMove, iMoves, iSent>>
    BY <1>4 DEF Isaac!vars, Isaac!stageVars, Isaac!nodeVars
  <2>2. Isaac!TypeOK'
    BY <2>1 DEF IsaacInv, Isaac!TypeOK, Isaac!Update, Isaac!MoveTargets
  <2>3. SeenInv'
    BY <2>1 DEF IsaacInv, SeenInv, Shows
  <2> QED
    BY <2>1, <2>2, <2>3 DEF IsaacInv, IsaacMove, StageInv, Isaac!ReallyThere, Isaac!MoveTargets
<1> QED
  BY <1>1, <1>2, <1>3, <1>4 DEF Isaac!Next

LEMMA IsaacHolds == Isaac!Spec => []IsaacInv
BY IsaacStarts, IsaacSteps, PTL DEF Isaac!Spec

LEMMA ReadyAndClosed == IsaacInv => Isaac!ReadyListens /\ Isaac!AppClosed
BY DEF IsaacInv, StageInv, Isaac!TypeOK, Isaac!ReadyListens, Isaac!AppClosed

-----------------------------------------------------------------------------
(* GazeboObjects.                                                          *)

GazeboGoals == UNION {[S -> Workspace] : S \in SUBSET Objects}

(* move()'s locals: none between moves but what the last one told, and otherwise
   what it goes back to, what the round asks, and how it was answered. *)
IdleMoves ==
    [at: {"idle"}, told: Gazebo!Maybe(Gazebo!Tolds), since: {0}, unanswered: SUBSET Objects,
     before: [Objects -> Workspace] \cup [{} -> {None}]]

BusyMoves ==
    [at: {"answers", "landing", "undo", "undoAnswers", "undoLanding"}, told: {None},
     before: [Objects -> Workspace], since: Gazebo!Times, unanswered: SUBSET Objects,
     refused: SUBSET Objects, goals: GazeboGoals, futures: [Objects -> Gazebo!Answers]]

GoalsInv ==
    /\ gMove.at \in {"answers", "landing", "undo"} => gMove.goals = [o \in Objects |-> Target]
    /\ gMove.at \in {"undoAnswers", "undoLanding"} =>
         /\ \A o \in DOMAIN gMove.goals : gMove.goals[o] = gMove.before[o]
         /\ \A o \in Objects : gMove.futures[o] # "none" => o \in DOMAIN gMove.goals
    /\ gMove.at = "landing" => gMove.refused = {}
    /\ gMove.told = "restored" => gMove.before \in [Objects -> Workspace]

(* A pose stamped now is of where the object is, and none read is older than the
   last move. *)
PoseInv ==
    \A o \in Objects :
      /\ gAir[o] # None =>
           gAir[o].t <= gTime /\ (gAir[o].t = gTime => gAir[o].p = gPlace[o])
      /\ gLatest[o] # None =>
           /\ gLatest[o].t <= gTime /\ (gLatest[o].t = gTime => gLatest[o].p = gPlace[o])
           /\ gLatest[o].t >= gIgnoreBefore[o]

(* Since the answers, an object that is or is seen at the target has been there. *)
AtTarget(pose) == pose # None /\ pose.t >= gMove.since /\ pose.p = Target

LandingInv ==
    gMove.at = "landing" =>
      /\ gMove.since <= gTime
      /\ \A o \in Objects :
           gPlace[o] = Target \/ AtTarget(gAir[o]) \/ AtTarget(gLatest[o]) => o \in gThere

(* What Gazebo was told of the objects as a move goes, and whose requests are loose,
   when none was at its beginning. *)
LooseOf(S) == \A r \in gLoose : r.o \in S

TidyInv ==
    gTidy =>
      /\ gMove.at = "answers" =>
           /\ gLoose = {}
           /\ \A o \in Objects : gPut[o] = IF gMove.futures[o] = "ok" THEN Target ELSE None
      /\ gMove.at = "landing" \/ gMove.told = "moved" =>
           gLoose = {} /\ \A o \in Objects : gPut[o] = Target
      /\ gMove.at = "undo" =>
           LooseOf(gMove.unanswered) /\ \A o \in gMove.refused \ gMove.unanswered : gPut[o] = None
      /\ gMove.at \in {"undoAnswers", "undoLanding"} =>
           \A o \in Objects \ gMove.unanswered :
             /\ gMove.futures[o] = "none" => gPut[o] = None
             /\ gMove.futures[o] = "ok" => gPut[o] = gMove.before[o]
      /\ gMove.at = "undoAnswers" => LooseOf(gMove.unanswered)
      /\ gMove.at = "undoLanding" =>
           LooseOf(gMove.unanswered \cup {o \in Objects : gMove.futures[o] = "sent"})
      /\ gMove.told = "restored" =>
           /\ LooseOf(gMove.unanswered)
           /\ \A o \in Objects \ gMove.unanswered : gPut[o] \in {None, gMove.before[o]}

GazeboInv ==
    /\ Gazebo!TypeOK /\ gMove \in IdleMoves \cup BusyMoves
    /\ GoalsInv /\ PoseInv /\ LandingInv /\ TidyInv /\ Gazebo!ReallyThere

LEMMA GazeboStarts == Gazebo!Init => GazeboInv
<1> SUFFICES ASSUME Gazebo!Init PROVE GazeboInv
  OBVIOUS
<1> USE NodesAssumption DEF Gazebo!GazeboAssumption, Gazebo!Init
<1>1. gMove \in IdleMoves /\ gMove.at = "idle" /\ gMove.told = None
  BY DEF Gazebo!Idle, IdleMoves, Gazebo!Maybe
<1>2. Gazebo!TypeOK
  BY <1>1 DEF Gazebo!TypeOK, Gazebo!Maybe, Gazebo!Nowhere, Gazebo!Times
<1>3. None \notin {"moved", "restored"}
  BY DEF Gazebo!GazeboAssumption
<1>4. GoalsInv /\ PoseInv /\ LandingInv /\ TidyInv /\ Gazebo!ReallyThere
  BY <1>1, <1>3 DEF GoalsInv, PoseInv, LandingInv, TidyInv, Gazebo!ReallyThere
<1> QED
  BY <1>1, <1>2, <1>4 DEF GazeboInv

(* The poses' stamps are numbers. *)
LEMMA PosesTyped ==
    ASSUME Gazebo!TypeOK
    PROVE  /\ gTime \in Int
           /\ \A o \in Objects : /\ gAir[o] # None => gAir[o].t \in Int
                                 /\ gLatest[o] # None => gLatest[o].t \in Int
                                 /\ gIgnoreBefore[o] \in Int
<1>1. Gazebo!Times \subseteq Int
  BY NodesAssumption DEF Gazebo!GazeboAssumption, Gazebo!Times
<1>2. \A u \in Gazebo!Pose : u.t \in Gazebo!Times
  BY DEF Gazebo!Pose
<1>3. \A o \in Objects : /\ gAir[o] # None => gAir[o] \in Gazebo!Pose
                         /\ gLatest[o] # None => gLatest[o] \in Gazebo!Pose
                         /\ gIgnoreBefore[o] \in Gazebo!Times
  BY DEF Gazebo!TypeOK, Gazebo!Maybe
<1> QED
  BY <1>1, <1>2, <1>3 DEF Gazebo!TypeOK

(* A step of Gazebo: the poses it sends are of where it puts the objects. *)
LEMMA GazeboStepKeeps ==
    ASSUME GazeboInv, Gazebo!GazeboStep
    PROVE  GazeboInv'
<1> USE NodesAssumption DEF Gazebo!GazeboAssumption
<1>1. /\ gTime < MaxTime /\ gTime' = gTime + 1
      /\ gThere' = gThere \cup {o \in Objects : gPlace'[o] = Target}
      /\ UNCHANGED <<gLoose, gPut, gLatest, gKnown, gIgnoreBefore, gMove, gMoves, gTidy>>
  BY DEF Gazebo!GazeboStep, Gazebo!nodeVars, Gazebo!At
<1>2. /\ gPlace' \in [Objects -> Workspace] /\ gPushes' \in 0..MaxPushes
      /\ gQueue' \in {gQueue, Gazebo!Nowhere}
  <2>1. PICK now \in {gQueue, Gazebo!Nowhere}, pushed \in Gazebo!Maybe(Pushable) :
          /\ pushed # None => gPushes < MaxPushes
          /\ gPushes' = IF pushed = None THEN gPushes ELSE gPushes + 1
          /\ gQueue' = IF now = gQueue THEN Gazebo!Nowhere ELSE gQueue
          /\ gPlace' \in [Objects -> Workspace]
    BY DEF Gazebo!GazeboStep
  <2> QED
    BY <2>1 DEF GazeboInv, Gazebo!TypeOK
<1>3. PICK late \in Gazebo!Maybe(Objects) :
        gAir' = [o \in Objects |-> IF o = late THEN gAir[o] ELSE [t |-> gTime', p |-> gPlace'[o]]]
  BY DEF Gazebo!GazeboStep
<1>4. \A o \in Objects : gAir'[o] = gAir[o] \/ gAir'[o] = [t |-> gTime', p |-> gPlace'[o]]
  BY <1>3
<1>5. /\ gTime \in Int
      /\ \A o \in Objects : /\ gAir[o] # None => gAir[o].t \in Int
                            /\ gLatest[o] # None => gLatest[o].t \in Int
  BY PosesTyped DEF GazeboInv
<1>6. Gazebo!TypeOK'
  <2>1. \A o \in Objects : [t |-> gTime', p |-> gPlace'[o]] \in Gazebo!Pose
    BY <1>1, <1>2 DEF GazeboInv, Gazebo!TypeOK, Gazebo!Pose, Gazebo!Times
  <2>2. \A o \in Objects : gAir[o] \in Gazebo!Maybe(Gazebo!Pose)
    BY DEF GazeboInv, Gazebo!TypeOK
  <2>3. gAir' \in [Objects -> Gazebo!Maybe(Gazebo!Pose)]
    BY <1>3, <2>1, <2>2 DEF Gazebo!Maybe
  <2>4. gThere' \subseteq Objects /\ gTime' \in Gazebo!Times
    BY <1>1 DEF GazeboInv, Gazebo!TypeOK, Gazebo!Times
  <2>5. gQueue' \in [Objects -> Gazebo!Maybe(Workspace)]
    BY <1>2 DEF GazeboInv, Gazebo!TypeOK, Gazebo!Nowhere, Gazebo!Maybe
  <2> QED
    BY <1>1, <1>2, <2>3, <2>4, <2>5
       DEF GazeboInv, Gazebo!TypeOK, Gazebo!Times, Gazebo!Maybe, Gazebo!Pose, Gazebo!Request, Gazebo!Tolds
<1>7. PoseInv'
  <2> SUFFICES ASSUME NEW o \in Objects
               PROVE  /\ gAir'[o] # None =>
                           gAir'[o].t <= gTime' /\ (gAir'[o].t = gTime' => gAir'[o].p = gPlace'[o])
                      /\ gLatest'[o] # None =>
                           /\ gLatest'[o].t <= gTime'
                           /\ gLatest'[o].t = gTime' => gLatest'[o].p = gPlace'[o]
                           /\ gLatest'[o].t >= gIgnoreBefore'[o]
    BY DEF PoseInv
  <2>1. /\ gAir[o] # None => gAir[o].t <= gTime
        /\ gLatest[o] # None => gLatest[o].t <= gTime /\ gLatest[o].t >= gIgnoreBefore[o]
    BY DEF GazeboInv, PoseInv
  <2>2. CASE gAir'[o] = gAir[o]
    BY ONLY <1>1, <1>5, <2>1, <2>2
  <2>3. CASE gAir'[o] = [t |-> gTime', p |-> gPlace'[o]]
    <3>1. gAir'[o].t = gTime' /\ gAir'[o].p = gPlace'[o]
      BY <2>3
    <3> QED
      BY ONLY <1>1, <1>5, <2>1, <3>1
  <2> QED
    BY <1>4, <2>2, <2>3
<1>8. LandingInv'
  <2> SUFFICES ASSUME gMove'.at = "landing"
               PROVE  /\ gMove'.since <= gTime'
                      /\ \A o \in Objects :
                           gPlace'[o] = Target \/ AtTarget(gAir[o])' \/ AtTarget(gLatest[o])' => o \in gThere'
    BY DEF LandingInv
  <2>1. /\ gMove.since <= gTime
        /\ \A o \in Objects : AtTarget(gAir[o]) \/ AtTarget(gLatest[o]) => o \in gThere
    BY <1>1 DEF GazeboInv, LandingInv
  <2>2. gMove.since \in Int
    BY <1>1 DEF GazeboInv, IdleMoves, BusyMoves, Gazebo!Times
  <2>3. ASSUME NEW o \in Objects, AtTarget(gAir[o])' PROVE o \in gThere'
    <3>1. CASE gAir'[o] = gAir[o]
      BY <1>1, <2>1, <2>3, <3>1 DEF AtTarget
    <3>2. CASE gAir'[o] = [t |-> gTime', p |-> gPlace'[o]]
      <4>1. gPlace'[o] = Target
        BY <2>3, <3>2 DEF AtTarget
      <4> QED
        BY <1>1, <4>1
    <3> QED
      BY <1>4, <3>1, <3>2
  <2>4. ASSUME NEW o \in Objects, AtTarget(gLatest[o])' PROVE o \in gThere'
    BY <1>1, <2>1, <2>4 DEF AtTarget
  <2>5. gMove'.since <= gTime'
    <3>1. gMove' = gMove /\ gTime' = gTime + 1 /\ gTime \in Int
      BY <1>1, <1>5
    <3>2. gMove.since <= gTime /\ gMove.since \in Int
      BY <2>1, <2>2
    <3> QED
      BY ONLY <3>1, <3>2
  <2> QED
    BY <1>1, <2>3, <2>4, <2>5
<1>9. gMove' \in IdleMoves \cup BusyMoves /\ GoalsInv' /\ TidyInv'
  BY <1>1 DEF GazeboInv, IdleMoves, BusyMoves, GazeboGoals, GoalsInv, TidyInv, LooseOf, Gazebo!Maybe,
     Gazebo!Tolds, Gazebo!Times, Gazebo!Answers
<1>10. Gazebo!ReallyThere'
  BY <1>1, <1>6 DEF GazeboInv, Gazebo!ReallyThere, Gazebo!TypeOK
<1> QED
  BY <1>6, <1>7, <1>8, <1>9, <1>10 DEF GazeboInv

LEMMA MoveTyped ==
    ASSUME NEW m \in IdleMoves \cup BusyMoves
    PROVE  /\ m.at \in {"idle", "answers", "landing", "undo", "undoAnswers", "undoLanding"}
           /\ m.told \in Gazebo!Maybe(Gazebo!Tolds)
           /\ m.at # "idle" => m \in BusyMoves
BY DEF IdleMoves, BusyMoves, Gazebo!Maybe

(* A request nobody waited for is of an object the move that is told names. *)
LEMMA LateAnswerKeeps ==
    ASSUME GazeboInv, Gazebo!LateAnswer
    PROVE  GazeboInv'
<1> USE NodesAssumption DEF Gazebo!GazeboAssumption
<1>1. UNCHANGED <<gTime, gPlace, gThere, gPushes, gLatest, gKnown, gIgnoreBefore, gAir, gMove, gMoves, gTidy>>
  BY DEF Gazebo!LateAnswer, Gazebo!nodeVars
<1>2. PICK r \in gLoose :
        /\ gLoose' = gLoose \ {r}
        /\ \/ gQueue' = [gQueue EXCEPT ![r.o] = r.p] /\ gPut' = [gPut EXCEPT ![r.o] = r.p]
           \/ UNCHANGED <<gQueue, gPut>>
  BY DEF Gazebo!LateAnswer, Gazebo!Queue
<1>3. r.o \in Objects /\ r.p \in Workspace
  BY DEF GazeboInv, Gazebo!TypeOK, Gazebo!Request
<1>4. /\ gPut \in [Objects -> Gazebo!Maybe(Workspace)] /\ gQueue \in [Objects -> Gazebo!Maybe(Workspace)]
      /\ gLoose \subseteq Gazebo!Request
  BY DEF GazeboInv, Gazebo!TypeOK
<1>5. /\ gPut' \in [Objects -> Gazebo!Maybe(Workspace)] /\ gQueue' \in [Objects -> Gazebo!Maybe(Workspace)]
      /\ gLoose' \subseteq Gazebo!Request
      /\ \A o \in Objects : o # r.o => gPut'[o] = gPut[o]
  BY <1>2, <1>3, <1>4 DEF Gazebo!Maybe
<1>6. Gazebo!TypeOK'
  BY <1>1, <1>5 DEF GazeboInv, Gazebo!TypeOK, Gazebo!Times, Gazebo!Maybe, Gazebo!Pose, Gazebo!Request, Gazebo!Tolds
<1>7. TidyInv'
  <2> SUFFICES ASSUME gTidy PROVE TidyInv'
    BY <1>1 DEF TidyInv
  <2>1. \A S : LooseOf(S) => LooseOf(S)' /\ r.o \in S
    BY <1>2 DEF LooseOf
  <2>2. gLoose # {}
    BY <1>2
  <2>3. TidyInv
    BY DEF GazeboInv
  <2>4. gMove.at # "answers" /\ gMove.at # "landing" /\ gMove.told # "moved"
    BY <2>2, <2>3 DEF TidyInv
  <2>5. gMove.at = "undo" =>
           LooseOf(gMove.unanswered)' /\ \A o \in gMove.refused \ gMove.unanswered : gPut'[o] = None
    <3>1. gMove \in BusyMoves => gMove.refused \subseteq Objects
      BY DEF BusyMoves
    <3>2. gMove.at = "undo" => gMove \in BusyMoves
      BY MoveTyped DEF GazeboInv
    <3> QED
      BY <1>1, <1>5, <2>1, <2>3, <3>1, <3>2 DEF TidyInv
  <2>6. gMove.at \in {"undoAnswers", "undoLanding"} => r.o \in gMove.unanswered \/ gMove.futures[r.o] = "sent"
    BY <2>1, <2>3 DEF TidyInv
  <2>7. gMove.at \in {"undoAnswers", "undoLanding"} =>
           \A o \in Objects \ gMove.unanswered :
             /\ gMove.futures[o] = "none" => gPut'[o] = None
             /\ gMove.futures[o] = "ok" => gPut'[o] = gMove.before[o]
    BY <1>5, <2>3, <2>6 DEF TidyInv
  <2>8. /\ gMove.at = "undoAnswers" => LooseOf(gMove.unanswered)'
        /\ gMove.at = "undoLanding" =>
             LooseOf(gMove.unanswered \cup {o \in Objects : gMove.futures[o] = "sent"})'
    BY <1>1, <2>1, <2>3 DEF TidyInv
  <2>9. gMove.told = "restored" =>
           /\ LooseOf(gMove.unanswered)'
           /\ \A o \in Objects \ gMove.unanswered : gPut'[o] \in {None, gMove.before[o]}
    BY <1>1, <1>5, <2>1, <2>3 DEF TidyInv
  <2> QED
    BY <1>1, <2>4, <2>5, <2>7, <2>8, <2>9 DEF TidyInv
<1>8. gMove' \in IdleMoves \cup BusyMoves /\ GoalsInv' /\ PoseInv' /\ LandingInv' /\ Gazebo!ReallyThere'
  BY <1>1 DEF GazeboInv, IdleMoves, BusyMoves, GazeboGoals, GoalsInv, PoseInv, LandingInv, AtTarget,
     Gazebo!ReallyThere, Gazebo!Maybe, Gazebo!Tolds, Gazebo!Times, Gazebo!Answers
<1> QED
  BY <1>6, <1>7, <1>8 DEF GazeboInv

(* Gazebo answers one of the requests of the round. *)
LEMMA AnswerKeeps ==
    ASSUME GazeboInv, NEW o \in Objects, Gazebo!Answer(o)
    PROVE  GazeboInv'
<1> USE NodesAssumption DEF Gazebo!GazeboAssumption
<1>1. /\ gMove.at \in {"answers", "undoAnswers"} /\ gMove.futures[o] = "sent"
      /\ UNCHANGED <<gTime, gPlace, gLoose, gThere, gPushes, gLatest, gKnown, gIgnoreBefore, gAir, gMoves, gTidy>>
  BY DEF Gazebo!Answer, Gazebo!nodeVars
<1>2. PICK ok \in BOOLEAN :
        /\ gMove' = [gMove EXCEPT !.futures[o] = IF ok THEN "ok" ELSE "refused"]
        /\ IF ok THEN /\ gQueue' = [gQueue EXCEPT ![o] = gMove.goals[o]]
                      /\ gPut' = [gPut EXCEPT ![o] = gMove.goals[o]]
           ELSE UNCHANGED <<gQueue, gPut>>
  BY DEF Gazebo!Answer, Gazebo!Queue
<1>3. gMove \in BusyMoves
  BY <1>1, MoveTyped DEF GazeboInv
<1>4. /\ gMove.futures \in [Objects -> Gazebo!Answers] /\ gMove.told = None
      /\ gMove.before \in [Objects -> Workspace]
  BY <1>3 DEF BusyMoves
<1>5. gMove.goals[o] = (IF gMove.at = "answers" THEN Target ELSE gMove.before[o])
  BY <1>1 DEF GazeboInv, GoalsInv
<1>6. gMove.goals[o] \in Workspace
  BY <1>4, <1>5
<1>7. /\ gMove' \in BusyMoves
      /\ gMove'.at = gMove.at /\ gMove'.told = None /\ gMove'.before = gMove.before
      /\ gMove'.goals = gMove.goals /\ gMove'.unanswered = gMove.unanswered
      /\ gMove'.refused = gMove.refused
      /\ gMove'.futures = [gMove.futures EXCEPT ![o] = IF ok THEN "ok" ELSE "refused"]
  BY <1>2, <1>3 DEF BusyMoves, Gazebo!Answers
<1>8. gMove'.futures[o] = (IF ok THEN "ok" ELSE "refused")
      /\ \A x \in Objects : x # o => gMove'.futures[x] = gMove.futures[x]
  BY <1>4, <1>7
<1>9. /\ gPut \in [Objects -> Gazebo!Maybe(Workspace)] /\ gQueue \in [Objects -> Gazebo!Maybe(Workspace)]
  BY DEF GazeboInv, Gazebo!TypeOK
<1>10. /\ gPut' \in [Objects -> Gazebo!Maybe(Workspace)] /\ gQueue' \in [Objects -> Gazebo!Maybe(Workspace)]
       /\ \A x \in Objects : gPut'[x] = IF ok /\ x = o THEN gMove.goals[o] ELSE gPut[x]
  BY <1>2, <1>6, <1>9 DEF Gazebo!Maybe
<1>11. Gazebo!TypeOK'
  <2>1. /\ gMove'.at \in {"idle", "answers", "landing", "undo", "undoAnswers", "undoLanding"}
        /\ gMove'.told \in Gazebo!Maybe(Gazebo!Tolds)
    BY <1>7, MoveTyped
  <2> QED
    BY <1>1, <1>10, <2>1
       DEF GazeboInv, Gazebo!TypeOK, Gazebo!Times, Gazebo!Maybe, Gazebo!Pose, Gazebo!Request, Gazebo!Tolds
<1>12. TidyInv'
  <2> SUFFICES ASSUME gTidy PROVE TidyInv'
    BY <1>1 DEF TidyInv
  <2>1. CASE gMove.at = "answers"
    <3>1. gLoose = {} /\ \A x \in Objects : gPut[x] = IF gMove.futures[x] = "ok" THEN Target ELSE None
      BY <2>1 DEF GazeboInv, TidyInv
    <3>2. \A x \in Objects : gPut'[x] = IF gMove'.futures[x] = "ok" THEN Target ELSE None
      BY <1>1, <1>5, <1>8, <1>10, <2>1, <3>1
    <3> QED
      BY <1>1, <1>7, <2>1, <3>1, <3>2 DEF TidyInv
  <2>2. CASE gMove.at = "undoAnswers"
    <3>1. /\ LooseOf(gMove.unanswered)
          /\ \A x \in Objects \ gMove.unanswered :
               /\ gMove.futures[x] = "none" => gPut[x] = None
               /\ gMove.futures[x] = "ok" => gPut[x] = gMove.before[x]
      BY <2>2 DEF GazeboInv, TidyInv
    <3>2. \A x \in Objects \ gMove.unanswered :
               /\ gMove'.futures[x] = "none" => gPut'[x] = None
               /\ gMove'.futures[x] = "ok" => gPut'[x] = gMove.before[x]
      BY <1>5, <1>8, <1>10, <2>2, <3>1
    <3>3. LooseOf(gMove.unanswered)'
      BY <1>1, <1>7, <3>1 DEF LooseOf
    <3> QED
      BY <1>1, <1>7, <2>2, <3>2, <3>3 DEF TidyInv
  <2> QED
    BY <1>1, <2>1, <2>2
<1>13. GoalsInv'
  BY <1>1, <1>7, <1>8 DEF GazeboInv, GoalsInv
<1>14. PoseInv' /\ LandingInv' /\ Gazebo!ReallyThere'
  BY <1>1, <1>7 DEF GazeboInv, PoseInv, LandingInv, Gazebo!ReallyThere
<1> QED
  BY <1>7, <1>11, <1>12, <1>13, <1>14 DEF GazeboInv

(* A pose is taken if it is of since the last move began. *)
LEMMA OnPoseKeeps ==
    ASSUME GazeboInv, NEW o \in Objects, Gazebo!OnPose(o)
    PROVE  GazeboInv'
<1> USE NodesAssumption DEF Gazebo!GazeboAssumption
<1>1. /\ gAir[o] # None /\ gAir' = [gAir EXCEPT ![o] = None]
      /\ UNCHANGED <<gTime, gPlace, gQueue, gLoose, gThere, gPushes, gIgnoreBefore, gMove, gMoves, gPut, gTidy>>
  BY DEF Gazebo!OnPose, Gazebo!gazeboVars
<1>2. \/ /\ gAir[o].t >= gIgnoreBefore[o]
         /\ gLatest' = [gLatest EXCEPT ![o] = gAir[o]]
         /\ gKnown' = [gKnown EXCEPT ![o] = gAir[o].p]
      \/ UNCHANGED <<gLatest, gKnown>>
  BY DEF Gazebo!OnPose, Gazebo!Accepts
<1>3. /\ gAir \in [Objects -> Gazebo!Maybe(Gazebo!Pose)] /\ gLatest \in [Objects -> Gazebo!Maybe(Gazebo!Pose)]
      /\ gKnown \in [Objects -> Gazebo!Maybe(Workspace)]
  BY DEF GazeboInv, Gazebo!TypeOK
<1>4. gAir[o] \in Gazebo!Pose
  BY <1>1, <1>3 DEF Gazebo!Maybe
<1>5. gAir[o].p \in Workspace
  BY <1>4 DEF Gazebo!Pose
<1>6. /\ gAir' \in [Objects -> Gazebo!Maybe(Gazebo!Pose)] /\ gLatest' \in [Objects -> Gazebo!Maybe(Gazebo!Pose)]
      /\ gKnown' \in [Objects -> Gazebo!Maybe(Workspace)]
  BY <1>1, <1>2, <1>3, <1>4, <1>5 DEF Gazebo!Maybe
<1>7. \A x \in Objects :
        /\ gAir'[x] \in {gAir[x], None}
        /\ gLatest'[x] = gLatest[x]
             \/ (x = o /\ gLatest'[x] = gAir[x] /\ gAir[x] # None /\ gAir[x].t >= gIgnoreBefore[x])
  BY <1>1, <1>2, <1>3
<1>8. Gazebo!TypeOK'
  BY <1>1, <1>6 DEF GazeboInv, Gazebo!TypeOK, Gazebo!Times, Gazebo!Maybe, Gazebo!Pose, Gazebo!Request, Gazebo!Tolds
<1>9. PoseInv'
  <2> SUFFICES ASSUME NEW x \in Objects
               PROVE  /\ gAir'[x] # None =>
                           gAir'[x].t <= gTime /\ (gAir'[x].t = gTime => gAir'[x].p = gPlace[x])
                      /\ gLatest'[x] # None =>
                           /\ gLatest'[x].t <= gTime
                           /\ gLatest'[x].t = gTime => gLatest'[x].p = gPlace[x]
                           /\ gLatest'[x].t >= gIgnoreBefore[x]
    BY <1>1 DEF PoseInv
  <2>1. /\ gAir[x] # None =>
             gAir[x].t <= gTime /\ (gAir[x].t = gTime => gAir[x].p = gPlace[x])
        /\ gLatest[x] # None =>
             /\ gLatest[x].t <= gTime
             /\ gLatest[x].t = gTime => gLatest[x].p = gPlace[x]
             /\ gLatest[x].t >= gIgnoreBefore[x]
    BY DEF GazeboInv, PoseInv
  <2> QED
    BY ONLY <1>7, <2>1
<1>10. LandingInv'
  BY <1>1, <1>7 DEF GazeboInv, LandingInv, AtTarget
<1>11. gMove' \in IdleMoves \cup BusyMoves /\ GoalsInv' /\ TidyInv' /\ Gazebo!ReallyThere'
  BY <1>1 DEF GazeboInv, IdleMoves, BusyMoves, GazeboGoals, GoalsInv, TidyInv, LooseOf,
     Gazebo!ReallyThere, Gazebo!Maybe, Gazebo!Tolds, Gazebo!Times, Gazebo!Answers
<1> QED
  BY <1>8, <1>9, <1>10, <1>11 DEF GazeboInv

(* A move that is refused changes nothing; one that begins forgets every pose. *)
LEMMA BeginKeeps ==
    ASSUME GazeboInv, Gazebo!Refuse \/ Gazebo!Begin
    PROVE  GazeboInv'
<1> USE NodesAssumption DEF Gazebo!GazeboAssumption
<1>1. CASE Gazebo!Refuse
  <2>1. /\ gMove' = [at |-> "idle", told |-> "refusing", since |-> 0, unanswered |-> {},
                     before |-> [o \in {} |-> None]]
        /\ gMoves < GazeboMoves /\ gMoves' = gMoves + 1
        /\ UNCHANGED <<gTime, gPlace, gQueue, gLoose, gThere, gPushes, gLatest, gKnown, gIgnoreBefore,
                       gAir, gPut, gTidy>>
    BY <1>1 DEF Gazebo!Refuse, Gazebo!Idle, Gazebo!gazeboVars, Gazebo!nodeVars
  <2>2. gMove' \in IdleMoves
    BY <2>1 DEF IdleMoves, Gazebo!Maybe, Gazebo!Tolds
  <2>3. gMove'.at = "idle" /\ gMove'.told = "refusing"
    BY <2>1
  <2>4. Gazebo!TypeOK'
    BY <2>1, <2>3
       DEF GazeboInv, Gazebo!TypeOK, Gazebo!Times, Gazebo!Maybe, Gazebo!Pose, Gazebo!Request, Gazebo!Tolds
  <2>5. GoalsInv' /\ PoseInv' /\ LandingInv' /\ TidyInv' /\ Gazebo!ReallyThere'
    BY <2>1, <2>3 DEF GazeboInv, GoalsInv, PoseInv, LandingInv, TidyInv, Gazebo!ReallyThere
  <2> QED
    BY <2>2, <2>4, <2>5 DEF GazeboInv
<1>2. CASE Gazebo!Begin
  <2> DEFINE goals == [o \in Objects |-> Target]
             asked == [o \in Objects |-> "sent"]
  <2>1. /\ gMove' = [at |-> "answers", told |-> None, before |-> gKnown, since |-> 0,
                     unanswered |-> {}, refused |-> {}, goals |-> goals, futures |-> asked]
        /\ gLatest' = [o \in Objects |-> None] /\ gIgnoreBefore' = [o \in Objects |-> gTime]
        /\ gMoves < GazeboMoves /\ gMoves' = gMoves + 1
        /\ gPut' = [o \in Objects |-> None] /\ gTidy' = (gLoose = {} /\ gQueue = Gazebo!Nowhere)
        /\ \A o \in Objects : gKnown[o] # None
        /\ UNCHANGED <<gTime, gPlace, gQueue, gLoose, gThere, gPushes, gKnown, gAir>>
    BY <1>2 DEF Gazebo!Begin, Gazebo!Asked, Gazebo!Nowhere, Gazebo!gazeboVars
  <2>2. gKnown \in [Objects -> Workspace] /\ goals \in GazeboGoals /\ asked \in [Objects -> Gazebo!Answers]
    <3>1. gKnown \in [Objects -> Gazebo!Maybe(Workspace)]
      BY DEF GazeboInv, Gazebo!TypeOK
    <3>2. goals \in [Objects -> Workspace]
      OBVIOUS
    <3> QED
      BY <2>1, <3>1, <3>2 DEF Gazebo!Maybe, GazeboGoals, Gazebo!Answers
  <2>3. gMove' \in BusyMoves
    <3> HIDE DEF goals, asked
    <3> QED
      BY <2>1, <2>2 DEF BusyMoves, Gazebo!Times
  <2>4. /\ gMove'.at = "answers" /\ gMove'.told = None /\ gMove'.goals = goals
        /\ gMove'.futures = asked
    BY <2>1
  <2>5. Gazebo!TypeOK'
    <3>1. /\ gPut' \in [Objects -> Gazebo!Maybe(Workspace)] /\ gTidy' \in BOOLEAN
          /\ gLatest' \in [Objects -> Gazebo!Maybe(Gazebo!Pose)]
          /\ gIgnoreBefore' \in [Objects -> Gazebo!Times]
      BY <2>1 DEF GazeboInv, Gazebo!TypeOK, Gazebo!Maybe
    <3> QED
      BY <2>1, <2>4, <3>1
         DEF GazeboInv, Gazebo!TypeOK, Gazebo!Times, Gazebo!Maybe, Gazebo!Pose, Gazebo!Request, Gazebo!Tolds
  <2>6. PoseInv'
    BY <2>1 DEF GazeboInv, PoseInv
  <2>7. TidyInv'
    <3>1. gTidy' => gLoose' = {} /\ \A o \in Objects : gPut'[o] = None /\ gMove'.futures[o] = "sent"
      BY <2>1, <2>4
    <3> QED
      BY <2>4, <3>1 DEF TidyInv
  <2>8. GoalsInv' /\ LandingInv' /\ Gazebo!ReallyThere'
    BY <2>4 DEF GoalsInv, LandingInv, Gazebo!ReallyThere
  <2> QED
    BY <2>3, <2>5, <2>6, <2>7, <2>8 DEF GazeboInv
<1> QED
  BY <1>1, <1>2

(* What a round left unanswered may still be queued. *)
LEMMA DroppedFits ==
    ASSUME GazeboInv, gMove.at \in {"answers", "undoAnswers"}
    PROVE  /\ Gazebo!Dropped \subseteq Gazebo!Request
           /\ \A r \in Gazebo!Dropped : r \in gLoose \/ (r.o \in Objects /\ gMove.futures[r.o] = "sent")
           /\ (\A o \in Objects : gMove.futures[o] # "sent") => Gazebo!Dropped = gLoose
<1>1. gMove \in BusyMoves
  BY MoveTyped DEF GazeboInv
<1>2. ASSUME NEW o \in Objects, gMove.futures[o] = "sent" PROVE gMove.goals[o] \in Workspace
  <2>1. CASE gMove.at = "answers"
    BY <2>1, NodesAssumption DEF GazeboInv, GoalsInv, Gazebo!GazeboAssumption
  <2>2. CASE gMove.at = "undoAnswers"
    <3>1. gMove.goals[o] = gMove.before[o]
      BY <1>2, <2>2 DEF GazeboInv, GoalsInv
    <3>2. gMove.before \in [Objects -> Workspace]
      BY <1>1 DEF BusyMoves
    <3> QED
      BY <3>1, <3>2
  <2> QED
    BY <2>1, <2>2
<1>3. gLoose \subseteq Gazebo!Request
  BY DEF GazeboInv, Gazebo!TypeOK
<1>4. \A o \in Objects : gMove.futures[o] = "sent" => [o |-> o, p |-> gMove.goals[o]] \in Gazebo!Request
  BY <1>2 DEF Gazebo!Request
<1> QED
  BY <1>3, <1>4 DEF Gazebo!Dropped, Gazebo!Named

(* The round's answers: what is at the target now is noted, and each request is done,
   refused, or dropped. *)
LEMMA AnsweredKeeps ==
    ASSUME GazeboInv, Gazebo!Answered
    PROVE  GazeboInv'
<1> USE NodesAssumption DEF Gazebo!GazeboAssumption
<1>1. /\ gMove.at = "answers"
      /\ gLoose' = Gazebo!Dropped /\ gThere' = {o \in Objects : gPlace[o] = Target}
      /\ UNCHANGED <<gTime, gPlace, gQueue, gPushes, gLatest, gKnown, gIgnoreBefore, gAir, gMoves, gPut, gTidy>>
  BY DEF Gazebo!Answered, Gazebo!nodeVars, Gazebo!At
<1>2. gMove \in BusyMoves
  BY <1>1, MoveTyped DEF GazeboInv
<1>3. gMove.goals = [o \in Objects |-> Target] /\ gMove.futures \in [Objects -> Gazebo!Answers]
  BY <1>1, <1>2 DEF GazeboInv, GoalsInv, BusyMoves
<1>4. /\ gMove' \in BusyMoves /\ gMove'.told = None /\ gMove'.goals = gMove.goals
      /\ gMove'.refused = Gazebo!Named("refused") /\ gMove'.unanswered = Gazebo!Named("sent")
      /\ gMove'.since = gTime
      /\ gMove'.at = IF Gazebo!Named("ok") = Objects THEN "landing" ELSE "undo"
  <2>1. gMove' = [gMove EXCEPT !.refused = Gazebo!Named("refused"), !.unanswered = Gazebo!Named("sent"),
                            !.since = gTime, !.futures = Gazebo!Asked(<< >>),
                            !.at = IF Gazebo!Named("ok") = Objects THEN "landing" ELSE "undo"]
    BY DEF Gazebo!Answered
  <2>2. /\ Gazebo!Named("refused") \subseteq Objects /\ Gazebo!Named("sent") \subseteq Objects
        /\ gTime \in Gazebo!Times /\ Gazebo!Asked(<< >>) \in [Objects -> Gazebo!Answers]
    BY DEF GazeboInv, Gazebo!TypeOK, Gazebo!Named, Gazebo!Asked, Gazebo!Answers
  <2> QED
    BY <1>2, <2>1, <2>2 DEF BusyMoves
<1>5. Gazebo!TypeOK'
  <2>1. gLoose' \subseteq Gazebo!Request /\ gThere' \subseteq Objects
    BY <1>1, DroppedFits
  <2>2. /\ gMove'.at \in {"idle", "answers", "landing", "undo", "undoAnswers", "undoLanding"}
        /\ gMove'.told \in Gazebo!Maybe(Gazebo!Tolds)
    BY <1>4, MoveTyped
  <2> QED
    BY <1>1, <2>1, <2>2
       DEF GazeboInv, Gazebo!TypeOK, Gazebo!Times, Gazebo!Maybe, Gazebo!Pose, Gazebo!Request, Gazebo!Tolds
<1>6. GoalsInv'
  <2>1. gMove'.at = "landing" => gMove'.refused = {}
    BY <1>3, <1>4 DEF Gazebo!Named
  <2> QED
    BY <1>3, <1>4, <2>1 DEF GoalsInv
<1>7. PoseInv'
  BY <1>1 DEF GazeboInv, PoseInv
<1>8. LandingInv'
  <2>1. ASSUME NEW o \in Objects
        PROVE  /\ gAir[o] # None /\ gAir[o].t >= gTime => gAir[o].p = gPlace[o]
               /\ gLatest[o] # None /\ gLatest[o].t >= gTime => gLatest[o].p = gPlace[o]
    <3>1. /\ gAir[o] # None => gAir[o].t <= gTime /\ (gAir[o].t = gTime => gAir[o].p = gPlace[o])
          /\ gLatest[o] # None => gLatest[o].t <= gTime /\ (gLatest[o].t = gTime => gLatest[o].p = gPlace[o])
      BY DEF GazeboInv, PoseInv
    <3>2. gTime \in Int /\ (gAir[o] # None => gAir[o].t \in Int) /\ (gLatest[o] # None => gLatest[o].t \in Int)
      BY PosesTyped DEF GazeboInv
    <3> QED
      BY ONLY <3>1, <3>2
  <2>2. gTime \in Int
    BY PosesTyped DEF GazeboInv
  <2> QED
    BY <1>1, <1>4, <2>1, <2>2 DEF LandingInv, AtTarget
<1>9. TidyInv'
  <2> SUFFICES ASSUME gTidy PROVE TidyInv'
    BY <1>1 DEF TidyInv
  <2>1. gLoose = {} /\ \A o \in Objects : gPut[o] = IF gMove.futures[o] = "ok" THEN Target ELSE None
    BY <1>1 DEF GazeboInv, TidyInv
  <2>2. CASE Gazebo!Named("ok") = Objects
    <3>1. \A o \in Objects : gMove.futures[o] = "ok"
      BY <2>2 DEF Gazebo!Named
    <3>2. gLoose' = {}
      BY <1>1, <2>1, <3>1, DroppedFits
    <3> QED
      BY <1>1, <1>4, <2>1, <2>2, <3>1, <3>2 DEF TidyInv
  <2>3. CASE Gazebo!Named("ok") # Objects
    <3>1. \A r \in gLoose' : r.o \in gMove'.unanswered
      BY <1>1, <1>4, <2>1, DroppedFits DEF Gazebo!Named
    <3>2. \A o \in gMove'.refused : gPut'[o] = None
      BY <1>1, <1>4, <2>1 DEF Gazebo!Named
    <3>3. LooseOf(gMove.unanswered)'
      BY <3>1 DEF LooseOf
    <3> QED
      BY <1>4, <2>3, <3>2, <3>3 DEF TidyInv
  <2> QED
    BY <2>2, <2>3
<1>10. Gazebo!ReallyThere'
  BY <1>4 DEF Gazebo!ReallyThere
<1> QED
  BY <1>4, <1>5, <1>6, <1>7, <1>8, <1>9, <1>10 DEF GazeboInv

(* What Landed, Undo, UndoAnswered and UndoLanded leave alone. *)
LEMMA MoverTyped ==
    ASSUME GazeboInv, gLoose' \subseteq Gazebo!Request, gMove' \in IdleMoves \cup BusyMoves,
           UNCHANGED <<gTime, gPlace, gQueue, gThere, gPushes, gLatest, gKnown, gIgnoreBefore, gAir,
                       gMoves, gPut, gTidy>>
    PROVE  Gazebo!TypeOK' /\ PoseInv'
<1>1. /\ gMove'.at \in {"idle", "answers", "landing", "undo", "undoAnswers", "undoLanding"}
      /\ gMove'.told \in Gazebo!Maybe(Gazebo!Tolds)
  BY MoveTyped
<1> QED
  BY <1>1 DEF GazeboInv, PoseInv, Gazebo!TypeOK, Gazebo!Times, Gazebo!Maybe, Gazebo!Pose, Gazebo!Request,
     Gazebo!Tolds

(* Every object was seen at its target since the answers, or the move goes back. *)
LEMMA LandedKeeps ==
    ASSUME GazeboInv, Gazebo!Landed
    PROVE  GazeboInv'
<1> USE NodesAssumption DEF Gazebo!GazeboAssumption
<1> DEFINE missed == Gazebo!Missed(gMove.goals, gMove.since)
<1>1. /\ gMove.at = "landing"
      /\ gMove' = IF missed = {} THEN Gazebo!Tell("moved") ELSE [gMove EXCEPT !.at = "undo"]
      /\ UNCHANGED <<gTime, gPlace, gQueue, gLoose, gThere, gPushes, gLatest, gKnown, gIgnoreBefore, gAir,
                     gMoves, gPut, gTidy>>
  BY DEF Gazebo!Landed, Gazebo!gazeboVars, Gazebo!nodeVars
<1>2. gMove \in BusyMoves
  BY <1>1, MoveTyped DEF GazeboInv
<1>3. gMove.goals = [o \in Objects |-> Target] /\ gMove.refused = {} /\ gMove.since \in Int
  BY <1>1, <1>2 DEF GazeboInv, GoalsInv, BusyMoves, Gazebo!Times
<1>4. gTidy => gLoose = {} /\ \A o \in Objects : gPut[o] = Target
  BY <1>1 DEF GazeboInv, TidyInv
<1>5. CASE missed = {}
  <2>1. \A o \in Objects : gLatest[o] # None /\ ~(gLatest[o].t < gMove.since) /\ gLatest[o].p = Target
    BY <1>3, <1>5 DEF Gazebo!Missed
  <2>2. \A o \in Objects : gLatest[o].t \in Int
    BY <2>1, PosesTyped DEF GazeboInv
  <2>3. \A o \in Objects : gLatest[o].t >= gMove.since
    BY ONLY <1>3, <2>1, <2>2
  <2>4. gThere = Objects
    <3>1. gThere \subseteq Objects
      BY DEF GazeboInv, Gazebo!TypeOK
    <3> QED
      BY <1>1, <2>1, <2>3, <3>1 DEF GazeboInv, LandingInv, AtTarget
  <2>5. gMove' = [at |-> "idle", told |-> "moved", since |-> 0, unanswered |-> gMove.unanswered,
                  before |-> gMove.before]
    BY <1>1, <1>5 DEF Gazebo!Tell, Gazebo!Idle
  <2>6. gMove' \in IdleMoves /\ gMove'.at = "idle" /\ gMove'.told = "moved"
    <3>1. gMove.unanswered \in SUBSET Objects /\ gMove.before \in [Objects -> Workspace]
      BY <1>2 DEF BusyMoves
    <3> QED
      BY <2>5, <3>1 DEF IdleMoves, Gazebo!Maybe, Gazebo!Tolds
  <2>7. Gazebo!TypeOK' /\ PoseInv'
    <3>1. gLoose' \subseteq Gazebo!Request
      BY <1>1 DEF GazeboInv, Gazebo!TypeOK, Gazebo!Request
    <3> QED
      BY <1>1, <2>6, <3>1, MoverTyped
  <2>8. TidyInv'
    BY <1>1, <1>4, <2>6 DEF TidyInv
  <2>9. GoalsInv' /\ LandingInv' /\ Gazebo!ReallyThere'
    BY <1>1, <2>4, <2>6 DEF GoalsInv, LandingInv, Gazebo!ReallyThere
  <2> QED
    BY <2>6, <2>7, <2>8, <2>9 DEF GazeboInv
<1>6. CASE missed # {}
  <2>1. gMove' = [gMove EXCEPT !.at = "undo"]
    BY <1>1, <1>6
  <2>2. /\ gMove' \in BusyMoves /\ gMove'.at = "undo" /\ gMove'.told = None /\ gMove'.goals = gMove.goals
        /\ gMove'.refused = {}
    BY <1>2, <1>3, <2>1 DEF BusyMoves
  <2>3. Gazebo!TypeOK' /\ PoseInv'
    <3>1. gLoose' \subseteq Gazebo!Request
      BY <1>1 DEF GazeboInv, Gazebo!TypeOK, Gazebo!Request
    <3> QED
      BY <1>1, <2>2, <3>1, MoverTyped
  <2>4. TidyInv'
    BY <1>1, <1>4, <2>2 DEF TidyInv, LooseOf
  <2>5. GoalsInv' /\ LandingInv' /\ Gazebo!ReallyThere'
    BY <1>3, <2>2 DEF GoalsInv, LandingInv, Gazebo!ReallyThere
  <2> QED
    BY <2>2, <2>3, <2>4, <2>5 DEF GazeboInv
<1> QED
  BY <1>5, <1>6

(* The way back is asked for every object but those Gazebo refused to move. *)
LEMMA UndoKeeps ==
    ASSUME GazeboInv, Gazebo!Undo
    PROVE  GazeboInv'
<1> USE NodesAssumption DEF Gazebo!GazeboAssumption
<1> DEFINE goals == [o \in Objects \ gMove.refused |-> gMove.before[o]]
           asked == [o \in Objects |-> IF o \in DOMAIN goals THEN "sent" ELSE "none"]
<1>1. /\ gMove.at = "undo"
      /\ gMove' = [gMove EXCEPT !.at = "undoAnswers", !.refused = {}, !.since = gTime, !.goals = goals,
                             !.futures = asked]
      /\ UNCHANGED <<gTime, gPlace, gQueue, gLoose, gThere, gPushes, gLatest, gKnown, gIgnoreBefore, gAir,
                     gMoves, gPut, gTidy>>
  BY DEF Gazebo!Undo, Gazebo!GoBack, Gazebo!Asked, Gazebo!gazeboVars, Gazebo!nodeVars
<1>2. gMove \in BusyMoves
  BY <1>1, MoveTyped DEF GazeboInv
<1>3. goals \in GazeboGoals /\ asked \in [Objects -> Gazebo!Answers] /\ gTime \in Gazebo!Times
  <2>1. gMove.before \in [Objects -> Workspace]
    BY <1>2 DEF BusyMoves
  <2>2. goals \in [Objects \ gMove.refused -> Workspace]
    BY <2>1
  <2>3. asked \in [Objects -> Gazebo!Answers]
    BY DEF Gazebo!Answers
  <2> HIDE DEF goals, asked
  <2> QED
    BY <2>2, <2>3 DEF GazeboGoals, GazeboInv, Gazebo!TypeOK
<1>4. /\ gMove' \in BusyMoves /\ gMove'.at = "undoAnswers" /\ gMove'.told = None /\ gMove'.goals = goals
      /\ gMove'.futures = asked /\ gMove'.before = gMove.before /\ gMove'.unanswered = gMove.unanswered
  <2> HIDE DEF goals, asked
  <2> QED
    BY <1>1, <1>2, <1>3 DEF BusyMoves
<1>5. Gazebo!TypeOK' /\ PoseInv'
  <2>1. gLoose' \subseteq Gazebo!Request
    BY <1>1 DEF GazeboInv, Gazebo!TypeOK, Gazebo!Request
  <2> QED
    BY <1>1, <1>4, <2>1, MoverTyped
<1>6. GoalsInv'
  <2>1. \A o \in DOMAIN gMove'.goals : gMove'.goals[o] = gMove'.before[o]
    BY <1>4
  <2>2. \A o \in Objects : gMove'.futures[o] # "none" => o \in DOMAIN gMove'.goals
    BY <1>4
  <2> QED
    BY <1>4, <2>1, <2>2 DEF GoalsInv
<1>7. TidyInv'
  <2> SUFFICES ASSUME gTidy PROVE TidyInv'
    BY <1>1 DEF TidyInv
  <2>1. LooseOf(gMove.unanswered) /\ \A o \in gMove.refused \ gMove.unanswered : gPut[o] = None
    BY <1>1 DEF GazeboInv, TidyInv
  <2>2. LooseOf(gMove.unanswered)'
    BY <1>1, <1>4, <2>1 DEF LooseOf
  <2>3. \A o \in Objects : gMove'.futures[o] # "ok" /\ (gMove'.futures[o] = "none" => o \in gMove.refused)
    BY <1>4
  <2>4. \A o \in Objects \ gMove'.unanswered :
             /\ gMove'.futures[o] = "none" => gPut'[o] = None
             /\ gMove'.futures[o] = "ok" => gPut'[o] = gMove'.before[o]
    BY <1>1, <1>4, <2>1, <2>3
  <2> QED
    BY <1>4, <2>2, <2>4 DEF TidyInv
<1>8. LandingInv' /\ Gazebo!ReallyThere'
  BY <1>4 DEF LandingInv, Gazebo!ReallyThere
<1> QED
  BY <1>4, <1>5, <1>6, <1>7, <1>8 DEF GazeboInv

LEMMA UndoAnsweredKeeps ==
    ASSUME GazeboInv, Gazebo!UndoAnswered
    PROVE  GazeboInv'
<1>1. /\ gMove.at = "undoAnswers" /\ gLoose' = Gazebo!Dropped
      /\ gMove' = [gMove EXCEPT !.at = "undoLanding"]
      /\ UNCHANGED <<gTime, gPlace, gQueue, gThere, gPushes, gLatest, gKnown, gIgnoreBefore, gAir,
                     gMoves, gPut, gTidy>>
  BY DEF Gazebo!UndoAnswered, Gazebo!nodeVars
<1>2. gMove \in BusyMoves
  BY <1>1, MoveTyped DEF GazeboInv
<1>3. /\ gMove' \in BusyMoves /\ gMove'.at = "undoLanding" /\ gMove'.told = None
      /\ gMove'.goals = gMove.goals /\ gMove'.futures = gMove.futures
      /\ gMove'.before = gMove.before /\ gMove'.unanswered = gMove.unanswered
  BY <1>1, <1>2 DEF BusyMoves
<1>4. Gazebo!TypeOK' /\ PoseInv'
  BY <1>1, <1>3, MoverTyped, DroppedFits
<1>5. GoalsInv'
  BY <1>1, <1>3 DEF GazeboInv, GoalsInv
<1>6. TidyInv'
  <2> SUFFICES ASSUME gTidy PROVE TidyInv'
    BY <1>1 DEF TidyInv
  <2>1. /\ LooseOf(gMove.unanswered)
        /\ \A o \in Objects \ gMove.unanswered :
             /\ gMove.futures[o] = "none" => gPut[o] = None
             /\ gMove.futures[o] = "ok" => gPut[o] = gMove.before[o]
    BY <1>1 DEF GazeboInv, TidyInv
  <2>2. \A r \in gLoose' : r.o \in gMove.unanswered \cup {o \in Objects : gMove.futures[o] = "sent"}
    BY <1>1, <2>1, DroppedFits DEF LooseOf
  <2>3. LooseOf(gMove.unanswered \cup {o \in Objects : gMove.futures[o] = "sent"})'
    BY <1>3, <2>2 DEF LooseOf
  <2>4. \A o \in Objects \ gMove'.unanswered :
             /\ gMove'.futures[o] = "none" => gPut'[o] = None
             /\ gMove'.futures[o] = "ok" => gPut'[o] = gMove'.before[o]
    BY <1>1, <1>3, <2>1
  <2>5. gMove'.at = "undoLanding" /\ gMove'.told \notin {"moved", "restored"}
    BY <1>3, NodesAssumption DEF Gazebo!GazeboAssumption
  <2> QED
    BY <2>3, <2>4, <2>5 DEF TidyInv
<1>7. LandingInv' /\ Gazebo!ReallyThere'
  BY <1>3, NodesAssumption DEF LandingInv, Gazebo!ReallyThere, Gazebo!GazeboAssumption
<1> QED
  BY <1>3, <1>4, <1>5, <1>6, <1>7 DEF GazeboInv

(* Told undone when Gazebo did all it was asked to and every object was seen back. *)
LEMMA UndoLandedKeeps ==
    ASSUME GazeboInv, Gazebo!UndoLanded
    PROVE  GazeboInv'
<1> DEFINE what == IF Gazebo!NotUndone # {} THEN "stuck" ELSE "restored"
<1>1. /\ gMove.at = "undoLanding"
      /\ gMove' = [at |-> "idle", told |-> what, since |-> 0, unanswered |-> gMove.unanswered,
                   before |-> gMove.before]
      /\ UNCHANGED <<gTime, gPlace, gQueue, gLoose, gThere, gPushes, gLatest, gKnown, gIgnoreBefore, gAir,
                     gMoves, gPut, gTidy>>
  BY DEF Gazebo!UndoLanded, Gazebo!Tell, Gazebo!Idle, Gazebo!gazeboVars, Gazebo!nodeVars
<1>2. gMove \in BusyMoves
  BY <1>1, MoveTyped DEF GazeboInv
<1>3. gMove.unanswered \in SUBSET Objects /\ gMove.before \in [Objects -> Workspace]
      /\ gMove.futures \in [Objects -> Gazebo!Answers]
  BY <1>2 DEF BusyMoves
<1>4. /\ gMove' \in IdleMoves /\ gMove'.at = "idle" /\ gMove'.told = what
      /\ gMove'.before = gMove.before /\ gMove'.unanswered = gMove.unanswered
  BY <1>1, <1>3 DEF IdleMoves, Gazebo!Maybe, Gazebo!Tolds
<1>5. Gazebo!TypeOK' /\ PoseInv'
  <2>1. gLoose' \subseteq Gazebo!Request
    BY <1>1 DEF GazeboInv, Gazebo!TypeOK, Gazebo!Request
  <2> QED
    BY <1>1, <1>4, <2>1, MoverTyped
<1>6. what = "restored" => \A o \in Objects : gMove.futures[o] \in {"none", "ok"}
  BY <1>3 DEF Gazebo!NotUndone, Gazebo!Named, Gazebo!Answers
<1>7. TidyInv'
  <2> SUFFICES ASSUME gTidy PROVE TidyInv'
    BY <1>1 DEF TidyInv
  <2>1. /\ LooseOf(gMove.unanswered \cup {o \in Objects : gMove.futures[o] = "sent"})
        /\ \A o \in Objects \ gMove.unanswered :
             /\ gMove.futures[o] = "none" => gPut[o] = None
             /\ gMove.futures[o] = "ok" => gPut[o] = gMove.before[o]
    BY <1>1 DEF GazeboInv, TidyInv
  <2>2. ASSUME what = "restored"
        PROVE  /\ LooseOf(gMove.unanswered)'
               /\ \A o \in Objects \ gMove.unanswered : gPut[o] \in {None, gMove.before[o]}
    <3>1. {o \in Objects : gMove.futures[o] = "sent"} = {}
      BY <1>6, <2>2
    <3> QED
      BY <1>1, <1>4, <1>6, <2>1, <2>2, <3>1 DEF LooseOf
  <2>3. what \in {"stuck", "restored"}
    OBVIOUS
  <2> HIDE DEF what
  <2> QED
    BY <1>1, <1>4, <2>2, <2>3 DEF TidyInv
<1>8. GoalsInv' /\ LandingInv' /\ Gazebo!ReallyThere'
  BY <1>3, <1>4 DEF GoalsInv, LandingInv, Gazebo!ReallyThere
<1> QED
  BY <1>4, <1>5, <1>7, <1>8 DEF GazeboInv

LEMMA GazeboSteps ==
    ASSUME GazeboInv, [Gazebo!Next]_Gazebo!vars
    PROVE  GazeboInv'
<1>1. CASE Gazebo!GazeboStep \/ Gazebo!LateAnswer
  BY <1>1, GazeboStepKeeps, LateAnswerKeeps
<1>2. CASE \E o \in Objects : Gazebo!Answer(o) \/ Gazebo!OnPose(o)
  BY <1>2, AnswerKeeps, OnPoseKeeps
<1>3. CASE Gazebo!Refuse \/ Gazebo!Begin
  BY <1>3, BeginKeeps
<1>4. CASE Gazebo!Mover
  BY <1>4, AnsweredKeeps, LandedKeeps, UndoKeeps, UndoAnsweredKeeps, UndoLandedKeeps DEF Gazebo!Mover
<1>5. CASE UNCHANGED Gazebo!vars
  <2>1. UNCHANGED <<gTime, gPlace, gQueue, gLoose, gThere, gPushes, gLatest, gKnown, gIgnoreBefore, gAir,
                    gMove, gMoves, gPut, gTidy>>
    BY <1>5 DEF Gazebo!vars, Gazebo!gazeboVars, Gazebo!nodeVars
  <2>2. gMove' \in IdleMoves \cup BusyMoves /\ gLoose' \subseteq Gazebo!Request
    BY <2>1 DEF GazeboInv, IdleMoves, BusyMoves, GazeboGoals, Gazebo!TypeOK, Gazebo!Request, Gazebo!Maybe,
       Gazebo!Tolds, Gazebo!Times, Gazebo!Answers
  <2>3. Gazebo!TypeOK' /\ PoseInv'
    BY <2>1, <2>2, MoverTyped
  <2>4. GoalsInv' /\ LandingInv' /\ Gazebo!ReallyThere'
    BY <2>1 DEF GazeboInv, GoalsInv, LandingInv, AtTarget, Gazebo!ReallyThere
  <2>5. TidyInv'
    BY <2>1 DEF GazeboInv, TidyInv, LooseOf
  <2> QED
    BY <2>2, <2>3, <2>4, <2>5 DEF GazeboInv
<1> QED
  BY <1>1, <1>2, <1>3, <1>4, <1>5 DEF Gazebo!Next

LEMMA AllOrNothingFollows == GazeboInv => Gazebo!AllOrNothing
BY DEF GazeboInv, TidyInv, Gazebo!AllOrNothing

(* Only a pose the node takes makes the pace's latest a new one. *)
LEMMA FreshPublished ==
    ASSUME GazeboInv, [Gazebo!Next]_Gazebo!vars
    PROVE  Gazebo!PublishesFresh
<1> SUFFICES ASSUME NEW o \in Objects, gLatest'[Pace] \notin {None, gLatest[Pace]},
                    o \in Gazebo!Published(gLatest')
             PROVE  /\ gLatest'[o].t >= gIgnoreBefore[o]
                    /\ gLatest'[o].t >= gLatest'[Pace].t - Fresh
  BY DEF Gazebo!PublishesFresh
<1>1. Pace \in Objects /\ Fresh \in Nat
  BY NodesAssumption DEF Gazebo!GazeboAssumption
<1>2. gLatest' # gLatest /\ gLatest' # [x \in Objects |-> None]
  BY <1>1
<1>3. UNCHANGED gIgnoreBefore
  <2>1. \/ UNCHANGED gLatest \/ Gazebo!Begin \/ \E x \in Objects : Gazebo!OnPose(x)
    BY DEF Gazebo!Next, Gazebo!Mover, Gazebo!GazeboStep, Gazebo!LateAnswer, Gazebo!Answer, Gazebo!Refuse,
       Gazebo!Answered, Gazebo!Landed, Gazebo!Undo, Gazebo!UndoAnswered, Gazebo!UndoLanded,
       Gazebo!gazeboVars, Gazebo!nodeVars, Gazebo!vars
  <2>2. Gazebo!Begin => gLatest' = [x \in Objects |-> None]
    BY DEF Gazebo!Begin
  <2>3. \E x \in Objects : Gazebo!OnPose(x)
    BY <1>2, <2>1, <2>2
  <2> QED
    BY <2>3 DEF Gazebo!OnPose
<1>4. GazeboInv'
  BY GazeboSteps
<1>5. gLatest'[o] # None /\ gLatest'[o].t - gLatest'[Pace].t \in (-Fresh)..Fresh
  BY DEF Gazebo!Published
<1>6. gLatest'[o].t >= gIgnoreBefore[o]
  BY <1>3, <1>4, <1>5 DEF GazeboInv, PoseInv
<1>7. gLatest'[o].t \in Int /\ gLatest'[Pace].t \in Int
  <2>1. Gazebo!TypeOK'
    BY <1>4 DEF GazeboInv
  <2>2. gLatest'[o] \in Gazebo!Pose /\ gLatest'[Pace] \in Gazebo!Pose
    BY <1>1, <1>5, <2>1 DEF Gazebo!TypeOK, Gazebo!Maybe
  <2>3. \A u \in Gazebo!Pose : u.t \in Gazebo!Times
    BY DEF Gazebo!Pose
  <2>4. Gazebo!Times \subseteq Int
    BY NodesAssumption DEF Gazebo!GazeboAssumption, Gazebo!Times
  <2> QED
    BY <2>2, <2>3, <2>4
<1> QED
  BY ONLY <1>1, <1>5, <1>6, <1>7

LEMMA GazeboHolds == Gazebo!Spec => []GazeboInv /\ [][Gazebo!PublishesFresh]_gVars
<1>1. GazeboInv /\ [Gazebo!Next]_Gazebo!vars => GazeboInv'
  BY GazeboSteps
<1>2. GazeboInv /\ [Gazebo!Next]_Gazebo!vars => [Gazebo!PublishesFresh]_gVars
  BY FreshPublished
<1> QED
  BY GazeboStarts, <1>1, <1>2, PTL DEF Gazebo!Spec

-----------------------------------------------------------------------------
(* The nodes.                                                              *)

(* One node in a behaviour: each of the others stutters. *)
LEMMA EachNodeSteps ==
    ASSUME [Next]_<<node, gVars, iVars, fVars, cVars>>
    PROVE  /\ [Gazebo!Next]_Gazebo!vars /\ [Isaac!Next]_Isaac!vars
           /\ [Follower!Next]_Follower!vars /\ [Camera!Next]_Camera!vars
           /\ UNCHANGED node
<1> USE DEF gVars, iVars, fVars, cVars
<1>1. UNCHANGED gVars => UNCHANGED Gazebo!vars
  BY DEF Gazebo!vars, Gazebo!gazeboVars, Gazebo!nodeVars
<1>2. UNCHANGED iVars => UNCHANGED Isaac!vars
  BY DEF Isaac!vars, Isaac!stageVars, Isaac!nodeVars
<1>3. UNCHANGED fVars => UNCHANGED Follower!vars
  BY DEF Follower!vars, Follower!clockVars
<1>4. UNCHANGED cVars => UNCHANGED Camera!vars
  BY DEF Camera!vars, Camera!topicVars, Camera!nodeVars
<1> QED
  BY <1>1, <1>2, <1>3, <1>4 DEF Next

LEMMA EachNodeRuns ==
    Spec => Gazebo!Spec /\ Isaac!Spec /\ Follower!Spec /\ Camera!Spec
<1>1. Init => Gazebo!Init /\ Isaac!Init /\ Follower!Init /\ Camera!Init
  BY DEF Init
<1> QED
  BY <1>1, EachNodeSteps, PTL DEF Spec, Gazebo!Spec, Isaac!Spec, Follower!Spec, Camera!Spec

LEMMA OneNode == Spec => [](node \in {"gazebo", "isaac", "follower", "camera"})
<1>1. Init => node \in {"gazebo", "isaac", "follower", "camera"}
  BY DEF Init
<1>2. node \in {"gazebo", "isaac", "follower", "camera"} /\ [Next]_<<node, gVars, iVars, fVars, cVars>>
        => (node \in {"gazebo", "isaac", "follower", "camera"})'
  BY EachNodeSteps
<1> QED
  BY <1>1, <1>2, PTL DEF Spec

(* A move of either backend is what it says it was: on Gazebo all or nothing but for
   the objects it names, and when told done every object was at its target in a step
   since the answers, or since the command, whatever poses and requests were late; and
   an Isaac stage marked ready listens (gazebo_objects.py, isaac_objects.py and
   fm_sim_isaac.py). *)
THEOREM MovesAreTrue == Spec => []MovesTrue
<1>1. ASSUME GazeboInv, IsaacInv, FollowerInv, CameraInv, node \in {"gazebo", "isaac", "follower", "camera"}
      PROVE  MovesTrue
  <2>1. Gazebo!TypeOK /\ Isaac!TypeOK /\ Follower!TypeOK /\ Camera!TypeOK
    BY <1>1 DEF GazeboInv, IsaacInv, FollowerInv, CameraInv
  <2>2. TypeOK
    BY <1>1, <2>1 DEF TypeOK
  <2>3. Gazebo!AllOrNothing /\ Gazebo!ReallyThere
    BY <1>1, AllOrNothingFollows DEF GazeboInv
  <2>4. Isaac!ReallyThere /\ Isaac!ReadyListens /\ Isaac!AppClosed
    BY <1>1, ReadyAndClosed DEF IsaacInv
  <2> QED
    BY <2>2, <2>3, <2>4 DEF MovesTrue
<1> QED
  BY <1>1, OneNode, EachNodeRuns, GazeboHolds, IsaacHolds, FollowerHolds, CameraHolds, PTL

(* The follower steps on no input older than its ages allow, within the bound and the
   limits, whatever the clock does; and a depth render is not held back once the colour
   of its time is out (follower_node.py, camera_node.py). *)
THEOREM InputsAreUsed == Spec => []InputsUsed
<1>1. FollowerInv /\ CameraInv => InputsUsed
  BY DEF FollowerInv, CameraInv, InputsUsed
<1> QED
  BY <1>1, EachNodeRuns, FollowerHolds, CameraHolds, PTL

(* No pose of before a move is published after it, no step is sent on bad data, no depth
   goes out without its colour, and colour no closer than the rate. *)
THEOREM StepsAreAllowed == Spec => StepsAllowed
<1>1. Gazebo!PublishesFresh => (node = "gazebo" => Gazebo!PublishesFresh)
  OBVIOUS
<1> QED
  BY <1>1, EachNodeRuns, GazeboHolds, BadDataStops, CameraHolds, PTL DEF StepsAllowed
=============================================================================
