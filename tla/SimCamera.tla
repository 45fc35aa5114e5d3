------------------------------ MODULE SimCamera ------------------------------
(***************************************************************************)
(* The camera node (fm_sim_cameras/camera_node.py): the colour render        *)
(* thinned to the rate, and the depth render published with the colour of    *)
(* its stamp.                                                              *)
(*                                                                         *)
(* The renderer draws colour and depth of a moment in either order, and may  *)
(* draw only one; each subscription keeps its latest.  One executor thread   *)
(* takes a render or the stall timer at a time.  A render is its stamp, and  *)
(* whether it can be used at all.  `epoch` counts the clock's jumps back and *)
(* with `colours` and `depths` is history.                                 *)
(***************************************************************************)
EXTENDS Integers, Sequences

CONSTANTS
    None,
    Period, MinGap,      \* period_ns and min_gap_ns
    StallPeriods,        \* STALL_PERIODS
    MaxTime, MaxJumps    \* bounds of the runs

VARIABLES
    clock, epoch, steps,       \* the sim clock; its jumps; its steps
    colour, depth,             \* renders not yet taken
    lastPublished, lastRender, \* last_published_ns, last_render_ns
    pendingDepth,              \* pending_depth
    colours, depths            \* published last: the colour's and the depth's

topicVars == <<colour, depth>>
nodeVars  == <<lastPublished, lastRender, pendingDepth, colours, depths>>
vars == <<clock, epoch, steps, topicVars, nodeVars>>

Maybe(S) == S \cup {None}
Stamps == 0..MaxTime
Render == [t: Stamps, epoch: 0..MaxJumps, fits: BOOLEAN]
Shown  == [t: Stamps, epoch: 0..MaxJumps]

CameraAssumption ==
    /\ Period \in Nat \ {0} /\ MinGap \in 1..Period /\ StallPeriods \in Nat \ {0}
    /\ MaxTime \in Nat /\ MaxJumps \in Nat /\ None \notin Int \cup Shown

TypeOK ==
    /\ clock \in Stamps /\ epoch \in 0..MaxJumps /\ steps \in 0..MaxTime
    /\ colour \in Maybe(Render) /\ depth \in Maybe(Render)
    /\ lastPublished \in Maybe(Stamps) /\ lastRender \in Maybe(Stamps)
    /\ pendingDepth \in Maybe(Stamps)
    /\ colours \in Maybe(Shown) /\ depths \in Maybe(Stamps)

Init ==
    /\ clock = 0 /\ epoch = 0 /\ steps = 0 /\ colour = None /\ depth = None
    /\ lastPublished = None /\ lastRender = None /\ pendingDepth = None
    /\ colours = None /\ depths = None

-----------------------------------------------------------------------------
(* The engine. *)

ClockMoves ==
    /\ steps < MaxTime /\ steps' = steps + 1
    /\ \/ clock' = clock + 1 /\ UNCHANGED epoch
       \/ epoch < MaxJumps /\ clock' \in 0..clock /\ clock' < clock /\ epoch' = epoch + 1
    /\ UNCHANGED <<topicVars, nodeVars>>

(* A render of now; the one not taken is lost. *)
RenderColour ==
    /\ \E fits \in BOOLEAN : colour' = [t |-> clock, epoch |-> epoch, fits |-> fits]
    /\ UNCHANGED <<clock, epoch, steps, depth, nodeVars>>

RenderDepth ==
    /\ \E fits \in BOOLEAN : depth' = [t |-> clock, epoch |-> epoch, fits |-> fits]
    /\ UNCHANGED <<clock, epoch, steps, colour, nodeVars>>

-----------------------------------------------------------------------------
(* The node. *)

(* A render of the right size, encoding and buffer, the clock running, and not
   more than a period ahead of it. *)
CanUse(r) == r.fits /\ clock # 0 /\ r.t <= clock + Period

(* Mutant: a depth render older than the last colour goes with it. *)
PairedLoose(p, c) ==
    IF p = None \/ c = None THEN [pending |-> p, out |-> None]
    ELSE IF p > c THEN [pending |-> p, out |-> None]
    ELSE [pending |-> None, out |-> p]

(* publish_paired_depth, of a pending depth p and the last colour c: what is
   then pending, and what is published. *)
Paired(p, c) ==
    IF p = None \/ c = None THEN [pending |-> p, out |-> None]
    ELSE IF p > c THEN [pending |-> p, out |-> None]
    ELSE [pending |-> None, out |-> IF p = c THEN p ELSE None]

Pair(p, c) ==
    LET r == Paired(p, c)
    IN /\ pendingDepth' = r.pending
       /\ depths' = IF r.out = None THEN depths ELSE r.out

(* Mutant: a gap of one less is enough. *)
ThinnedShort(r) == lastPublished # None /\ r.t - lastPublished \in 0..(MinGap - 2)

Thinned(r) == lastPublished # None /\ r.t - lastPublished \in 0..(MinGap - 1)

(* on_render *)
OnRender ==
    /\ colour # None
    /\ colour' = None
    /\ lastRender' = clock
    /\ IF CanUse(colour) /\ ~Thinned(colour)
       THEN /\ lastPublished' = colour.t
            /\ colours' = [t |-> colour.t, epoch |-> colour.epoch]
            /\ Pair(pendingDepth, colour.t)
       ELSE UNCHANGED <<lastPublished, colours, pendingDepth, depths>>
    /\ UNCHANGED <<clock, epoch, steps, depth>>

(* Mutant: a depth render waits for the next colour. *)
OnDepthRenderWaiting ==
    /\ depth # None
    /\ depth' = None
    /\ pendingDepth' = IF CanUse(depth) /\ (lastPublished = None \/ depth.t >= lastPublished)
                       THEN depth.t ELSE pendingDepth
    /\ UNCHANGED <<clock, epoch, steps, colour, lastPublished, lastRender, colours, depths>>

(* on_depth_render *)
OnDepthRender ==
    /\ depth # None
    /\ depth' = None
    /\ IF CanUse(depth) /\ (lastPublished = None \/ depth.t >= lastPublished)
       THEN Pair(depth.t, lastPublished)
       ELSE UNCHANGED <<pendingDepth, depths>>
    /\ UNCHANGED <<clock, epoch, steps, colour, lastPublished, lastRender, colours>>

(* check_stalled *)
CheckStalled ==
    /\ IF lastRender = None THEN lastRender' = clock /\ UNCHANGED pendingDepth
       ELSE /\ pendingDepth' = IF clock - lastRender > StallPeriods * Period THEN None
                               ELSE pendingDepth
            /\ UNCHANGED lastRender
    /\ UNCHANGED <<clock, epoch, steps, topicVars, lastPublished, colours, depths>>

-----------------------------------------------------------------------------
Next == ClockMoves \/ RenderColour \/ RenderDepth \/ OnRender \/ OnDepthRender \/ CheckStalled

Spec == Init /\ [][Next]_vars

-----------------------------------------------------------------------------
(* Properties. *)

(* "every depth frame has its colour frame": a depth frame is published under
   the stamp of the colour published last. *)
DepthHasColour == [][depths' # depths => colours' # None /\ depths' = colours'.t]_vars

(* A depth render is not held back once its colour is out, whichever came
   first: what is pending is of after the last colour. *)
PairNotHeld == pendingDepth # None /\ lastPublished # None => pendingDepth > lastPublished

(* "a render less than three quarters of a period after the last one published
   is skipped": two colours drawn between jumps of the clock are that far apart. *)
RateKept ==
    [][colours # None /\ colours' # colours /\ colours.epoch = colours'.epoch
         => colours'.t - colours.t >= MinGap]_vars
=============================================================================
