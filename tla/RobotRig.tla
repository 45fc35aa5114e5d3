------------------------------ MODULE RobotRig ------------------------------
(***************************************************************************)
(* A robot's cameras on the three backends: which files and frames each    *)
(* takes, and where and how often each renders them.  The same cameras     *)
(* file and description serve all three, each in its own way: MuJoCo       *)
(* carries a camera on a body of the robot's MJCF, Isaac on the last link  *)
(* behind a moving joint, Gazebo on the optical frame's own link.          *)
(*                                                                         *)
(* A rig is [links, joints, bodies, cameras]: joints maps each link        *)
(* but the root to the joint above it, [parent, fixed, origin]; bodies are *)
(* the MJCF's; cameras maps roles to [frame, rate, pixels, large, model,   *)
(* coefficients].  A transform is [s, x]: facing +1 or -1 along one axis,  *)
(* and a position on it, so that the order of composition matters.         *)
(***************************************************************************)
EXTENDS Integers, Sequences, FiniteSets

CONSTANTS RenderHz,     \* the rate Isaac renders at
          MaxPixels     \* the largest image that needs no opting in

ASSUME RobotRigAssumption == RenderHz \in Nat \ {0} /\ MaxPixels \in Nat

Compose(parent, child) == [s |-> parent.s * child.s, x |-> parent.x + parent.s * child.x]
Identity == [s |-> 1, x |-> 0]

-----------------------------------------------------------------------------
(* The cameras file.                                                       *)

Roles == {"chest", "waist", "wrist_right", "wrist_left"}
Coefficients == [plumb_bob |-> 5, equidistant |-> 4]

IntrinsicsOk(c) ==
    /\ c.pixels > 0
    /\ c.pixels <= MaxPixels \/ c.large
    /\ c.model \in DOMAIN Coefficients
    /\ c.coefficients = Coefficients[c.model]

CamerasOk(rig) ==
    /\ DOMAIN rig.cameras \subseteq Roles
    /\ \A role \in DOMAIN rig.cameras :
           rig.cameras[role].rate > 0 /\ IntrinsicsOk(rig.cameras[role])

-----------------------------------------------------------------------------
(* Where a frame is mounted: [link, at], at being the frame in that link.  *)

\* MuJoCo: the nearest body the model shares with the description, else the
\* root.  A moving joint before it has no body to move with, and is refused.
NoMount == [link |-> "refused", at |-> Identity]

FixedMount(rig, frame) ==
    LET climb[l \in rig.links] ==
            IF l \in rig.bodies \/ l \notin DOMAIN rig.joints
            THEN [link |-> l, at |-> Identity]
            ELSE LET joint == rig.joints[l]  above == climb[joint.parent]
                 IN  IF ~joint.fixed \/ above = NoMount THEN NoMount
                     ELSE [above EXCEPT !.at = Compose(@, joint.origin)]
    IN  climb[frame]

\* Mutant: each joint's origin is applied inside what was climbed so far.
CameraMountReversed(rig, frame) ==
    LET climb[l \in rig.links] ==
            IF l \notin DOMAIN rig.joints \/ ~rig.joints[l].fixed
            THEN [link |-> l, at |-> Identity]
            ELSE LET joint == rig.joints[l]
                 IN  [climb[joint.parent] EXCEPT !.at = Compose(joint.origin, @)]
    IN  climb[frame]

\* Isaac: up through fixed joints to the first link a joint moves, or the root.
CameraMount(rig, frame) ==
    LET climb[l \in rig.links] ==
            IF l \notin DOMAIN rig.joints \/ ~rig.joints[l].fixed
            THEN [link |-> l, at |-> Identity]
            ELSE LET joint == rig.joints[l]
                 IN  [climb[joint.parent] EXCEPT !.at = Compose(@, joint.origin)]
    IN  climb[frame]

Mount(backend, rig, frame) ==
    CASE backend = "mujoco" -> FixedMount(rig, frame)
      [] backend = "isaac"  -> CameraMount(rig, frame)
      [] backend = "gazebo" -> [link |-> frame, at |-> Identity]

\* Where a link is, for positions q of the moving joints: what a simulator does.
LinkPose(rig, q) ==
    LET pose[l \in rig.links] ==
            IF l \notin DOMAIN rig.joints THEN Identity
            ELSE LET joint == rig.joints[l]
                     moved == [s |-> 1, x |-> IF joint.fixed THEN 0 ELSE q[l]]
                 IN  Compose(pose[joint.parent], Compose(joint.origin, moved))
    IN  pose

-----------------------------------------------------------------------------
(* What each backend refuses and renders.                                  *)

\* Isaac skips whole render frames, so a rate must divide the render rate.
IsaacRenders(c) ==
    /\ c.rate <= RenderHz /\ RenderHz % c.rate = 0
    /\ c.model \in DOMAIN Coefficients

FrameSkip(c) == RenderHz \div c.rate - 1

\* MuJoCo places the camera on a body the MJCF has, and its warp makes only
\* equidistant images; Gazebo renders any camera as a pinhole.
Takes(backend, rig) ==
    /\ CamerasOk(rig)
    /\ \A role \in DOMAIN rig.cameras :
           LET c == rig.cameras[role]
           IN  /\ c.frame \in rig.links
               /\ backend = "mujoco" =>
                    FixedMount(rig, c.frame) # NoMount /\ c.model = "equidistant"
               /\ backend = "isaac" => IsaacRenders(c)

\* The model the images are of.
RenderedModel(backend, c) == IF backend = "gazebo" THEN "plumb_bob" ELSE c.model

Rendered(backend, rig) ==
    [role \in DOMAIN rig.cameras |->
        LET c == rig.cameras[role]
        IN  [mount |-> Mount(backend, rig, c.frame),
             rate  |-> IF backend = "isaac" THEN RenderHz \div (FrameSkip(c) + 1) ELSE c.rate,
             model |-> RenderedModel(backend, c)]]
=============================================================================
