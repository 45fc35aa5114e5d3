------------------------------ MODULE EeFollower ------------------------------
(***************************************************************************)
(* The end-effector follower (fm_sim_ee_follower: follower_node.py, gate.py, *)
(* the bound of dls.py's step and the checks of kinematics.py).              *)
(*                                                                         *)
(* One executor thread takes a message or a tick at a time.  The sim clock   *)
(* moves on one tick period at a time or jumps back, and the timer, which    *)
(* runs on it, fires before it moves again; a message is of the time it is   *)
(* stamped and may be late, or is not stamped.  The arm is one joint on a    *)
(* line.  `real` counts the periods whatever the clock says; it, and the     *)
(* real times in the inputs, are history for the properties.                *)
(***************************************************************************)
EXTENDS Integers

CONSTANTS
    None, Bad,            \* Bad is a value that is not finite
    Robots, Usable,       \* descriptions, and those ArmKinematics and step_limits accept
    Joints, Lower, Upper, \* where the joint can be, without a gap, and its limits
    Targets,              \* where a command's pose puts it
    MaxStep,              \* max_step of StepLimits
    MaxJointStateAge, MaxCommandAge,
    MaxLate,              \* bound: how late a message comes
    MaxReal, MaxJumps     \* bounds of the runs

FollowerAssumption ==
    /\ Usable \subseteq Robots /\ Joints \subseteq Int /\ Targets \subseteq Joints
    /\ \A i, j \in Joints : i..j \subseteq Joints
    /\ Lower \in Joints /\ Upper \in Joints /\ Lower < Upper
    /\ MaxStep \in Nat \ {0} /\ MaxJointStateAge \in Nat /\ MaxCommandAge \in Nat
    /\ MaxLate \in Nat /\ MaxReal \in Nat /\ MaxJumps \in Nat /\ {None, Bad} \cap (Int \cup Robots) = {}

VARIABLES
    clock, real, jumps, due,  \* the sim clock; due: the timer has yet to fire
    q,                        \* the joint
    kinematics,               \* _kinematics, of the description _description_hash names
    jointState, command,      \* _joint_state and _command
    lastTick,                 \* _last_tick
    sent,                     \* the step the last tick published
    heard                     \* history: whether the last message of each topic was usable

clockVars == <<clock, real, jumps, due>>
vars == <<clockVars, q, kinematics, jointState, command, lastTick, sent, heard>>

Maybe(S) == S \cup {None}
Times == (-MaxLate)..MaxReal
Input == [v: Joints \cup {Bad}, t: Times, real: Times]
Step  == [from: Joints, to: Joints, state: Times, command: Times, real: Times]

TypeOK ==
    /\ clock \in 0..MaxReal /\ real \in 0..MaxReal /\ jumps \in 0..MaxJumps /\ due \in BOOLEAN
    /\ q \in Joints /\ kinematics \in Maybe(Usable)
    /\ jointState \in Maybe(Input) /\ command \in Maybe(Input)
    /\ lastTick \in Maybe(0..MaxReal) /\ sent \in Maybe(Step)
    /\ heard \in [state: BOOLEAN, command: BOOLEAN]

Init ==
    /\ clock = 0 /\ real = 0 /\ jumps = 0 /\ due = FALSE
    /\ q \in Joints /\ kinematics = None /\ jointState = None /\ command = None
    /\ lastTick = None /\ sent = None /\ heard = [state |-> FALSE, command |-> FALSE]

-----------------------------------------------------------------------------
(* The simulator: its clock, and the joint, which a step sent moves. *)

ClockMoves ==
    /\ ~due /\ real < MaxReal
    /\ real' = real + 1 /\ due' = TRUE
    /\ \/ clock' = clock + 1 /\ UNCHANGED jumps
       \/ jumps < MaxJumps /\ clock' \in 0..clock /\ clock' < clock /\ jumps' = jumps + 1
    /\ q' \in {q} \cup (IF sent = None THEN {} ELSE {sent.to})
    /\ UNCHANGED <<kinematics, jointState, command, lastTick, sent, heard>>

(* A message of d periods ago, or not stamped; nothing of before a jump comes
   after it. *)
Received(v, d, stamped) ==
    [v |-> v, t |-> IF stamped /\ clock # d THEN clock - d ELSE clock, real |-> real - d]

-----------------------------------------------------------------------------
(* The subscriptions. *)

(* The chain and its limits can be built of a description: the frames are links
   with a chain between them, its joints are ones the follower drives, with
   limits, the profile's, and each with a speed bound. *)
Builds(r) == r \in Usable

(* Mutant: one that cannot be built is taken. *)
OnDescriptionAny(r) ==
    /\ kinematics' = IF kinematics # None THEN kinematics ELSE r
    /\ UNCHANGED <<clockVars, q, jointState, command, lastTick, sent, heard>>

(* The first usable description is kept; one that is not leaves none. *)
OnDescription(r) ==
    /\ kinematics' = IF kinematics # None THEN kinematics ELSE IF Builds(r) THEN r ELSE None
    /\ UNCHANGED <<clockVars, q, jointState, command, lastTick, sent, heard>>

(* Mutant: a joint state that is not finite is passed over. *)
OnJointStatesFinite(v, d, stamped) ==
    /\ jointState' = IF v = Bad THEN jointState ELSE Received(v, d, stamped)
    /\ heard' = [heard EXCEPT !.state = v # Bad]
    /\ UNCHANGED <<clockVars, q, kinematics, command, lastTick, sent>>

(* Kept even when not finite, so that it stops motion. *)
OnJointStates(v, d, stamped) ==
    /\ jointState' = Received(v, d, stamped)
    /\ heard' = [heard EXCEPT !.state = v # Bad]
    /\ UNCHANGED <<clockVars, q, kinematics, command, lastTick, sent>>

(* Mutant: a rejected command leaves the last good one. *)
OnCommandLeaving(v, d, stamped, accepted) ==
    /\ command' = IF accepted THEN Received(v, d, stamped) ELSE command
    /\ heard' = [heard EXCEPT !.command = accepted /\ v # Bad]
    /\ UNCHANGED <<clockVars, q, kinematics, jointState, lastTick, sent>>

(* One in another frame, or with no rotation, clears the last good one. *)
OnCommand(v, d, stamped, accepted) ==
    /\ command' = IF accepted THEN Received(v, d, stamped) ELSE None
    /\ heard' = [heard EXCEPT !.command = accepted /\ v # Bad]
    /\ UNCHANGED <<clockVars, q, kinematics, jointState, lastTick, sent>>

-----------------------------------------------------------------------------
(* The tick. *)

(* Of blocked_reason: an input is there, and of now or at most its age. *)
UsableNow(input, age) == input # None /\ clock - input.t \in 0..age

Clip(x, lo, hi) == IF x < lo THEN lo ELSE IF x > hi THEN hi ELSE x

(* Mutant: the limits are met at once. *)
DlsStepSnap(from, wanted) == Clip(Clip(wanted, from - MaxStep, from + MaxStep), Lower, Upper)

(* dls_step: bounded, then held in the limits, and a joint outside them walked
   back in at the bound. *)
DlsStep(from, wanted) ==
    LET within == Clip(Clip(wanted, from - MaxStep, from + MaxStep), Lower, Upper)
    IN Clip(within, from - MaxStep, from + MaxStep)

(* Mutant: a clock that jumps back is not noticed. *)
JumpIgnored == FALSE

Jumped == lastTick # None /\ clock < lastTick

Tick ==
    /\ due /\ due' = FALSE
    /\ lastTick' = clock
    /\ jointState' = IF Jumped THEN None ELSE jointState
    /\ command' = IF Jumped THEN None ELSE command
    /\ sent' = IF /\ ~Jumped /\ kinematics # None
                  /\ UsableNow(jointState, MaxJointStateAge) /\ UsableNow(command, MaxCommandAge)
                  /\ jointState.v # Bad /\ command.v # Bad
               THEN [from |-> jointState.v, to |-> DlsStep(jointState.v, command.v),
                     state |-> jointState.real, command |-> command.real, real |-> real]
               ELSE None
    /\ UNCHANGED <<clock, real, jumps, q, kinematics, heard>>

-----------------------------------------------------------------------------
Next ==
    \/ ClockMoves \/ Tick
    \/ \E r \in Robots : OnDescription(r)
    \/ \E v \in {q, Bad}, d \in 0..MaxLate, stamped \in BOOLEAN :
         d <= clock /\ OnJointStates(v, d, stamped)
    \/ \E v \in Targets \cup {Bad}, d \in 0..MaxLate, stamped, accepted \in BOOLEAN :
         d <= clock /\ OnCommand(v, d, stamped, accepted)

Spec == Init /\ [][Next]_vars

-----------------------------------------------------------------------------
(* Properties. *)

(* "A clock that jumps back makes every stored time meaningless": a step sent
   starts from a joint state, and tracks a command, no older than its maximum in
   time that has really passed, up to the lateness of one not stamped. *)
FreshInputs ==
    sent # None => /\ sent.real - sent.state <= MaxJointStateAge + MaxLate
                   /\ sent.real - sent.command <= MaxCommandAge + MaxLate

(* "once the sender publishes bad data, the arm stops instead of finishing the
   move toward an older target": no step is sent while the last message of
   either topic was one that cannot be used. *)
BadStops == [][sent' \notin {None, sent} => heard.state /\ heard.command]_vars

(* "A joint that starts outside its limits is walked back in at the step bound":
   no step is longer than the bound, none leaves the limits. *)
StepBounded ==
    sent # None =>
      /\ sent.to - sent.from \in (-MaxStep)..MaxStep
      /\ sent.from \in Lower..Upper => sent.to \in Lower..Upper
      /\ sent.from < Lower => sent.to > sent.from
      /\ sent.from > Upper => sent.to < sent.from
=============================================================================
