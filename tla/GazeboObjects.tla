---------------------------- MODULE GazeboObjects ----------------------------
(***************************************************************************)
(* The scenario node's Gazebo backend (fm_sim_scenarios/gazebo_objects.py):  *)
(* the pose filter and the all-or-nothing move.                             *)
(*                                                                         *)
(* Gazebo answers a set_pose when it queues it and applies it a step later;  *)
(* one it has not answered when the move gives up may be applied at any      *)
(* later time, or never (`loose`).  Each object's poses come in order on a   *)
(* topic of their own and beside the move; the node's clock is the sim's.  A   *)
(* place stands for a pose up to POSITION_TOLERANCE_M.  `put`, `there`,      *)
(* `tidy` and `told` are history for the properties.                         *)
(***************************************************************************)
EXTENDS Integers, Sequences, FiniteSets, SequencesExt

CONSTANTS
    None,
    Objects, Pace,      \* Pace is the first free object
    Places, FirstPlace, \* where the world puts the objects
    Target,             \* where a move sends every object
    Fresh,              \* FRESH_S
    MaxTime, MaxMoves,  \* bounds of the runs
    MaxPushes, Pushable \* ... and how often, and which objects, the robot pushes

GazeboAssumption ==
    /\ Pace \in Objects /\ Target \in Places /\ FirstPlace \in [Objects -> Places]
    /\ None \notin Places \cup {"moved", "restored"}
    /\ Fresh \in Nat /\ MaxTime \in Nat /\ MaxMoves \in Nat
    /\ MaxPushes \in Nat /\ Pushable \subseteq Objects

VARIABLES
    time,             \* sim time
    place,            \* the objects in Gazebo
    queue,            \* moves Gazebo has answered and not yet applied
    loose,            \* requests nobody waits for
    air,              \* each object's last pose on its way to the node
    latest, known, ignoreBefore,  \* _latest, _known, _ignore_before
    move,             \* control and locals of move()
    moves,            \* moves asked so far
    pushes,           \* times the robot moved an object
    put, there, tidy  \* history, of the last move: the last place Gazebo was told for an
                      \* object, who has been at the target
                      \* since the answers, no request was loose at its beginning

gazeboVars == <<time, place, queue, loose, there, pushes>>
nodeVars   == <<latest, known, ignoreBefore>>
vars == <<gazeboVars, nodeVars, air, move, moves, put, tidy>>

Times == 0..MaxTime
Maybe(S) == S \cup {None}
Pose  == [t: Times, p: Places]
Idle  == [at |-> "idle", told |-> None, since |-> 0, unanswered |-> {}, before |-> [o \in {} |-> None]]
Answers == {"none", "sent", "ok", "refused"}
Request == [o: Objects, p: Places]
Nowhere == [o \in Objects |-> None]
Tolds == {"refusing", "moved", "restored", "stuck"}

TypeOK ==
    /\ time \in Times
    /\ place \in [Objects -> Places] /\ put \in [Objects -> Maybe(Places)]
    /\ queue \in [Objects -> Maybe(Places)] /\ loose \subseteq Request
    /\ air \in [Objects -> Maybe(Pose)]
    /\ latest \in [Objects -> Maybe(Pose)] /\ known \in [Objects -> Maybe(Places)]
    /\ ignoreBefore \in [Objects -> Times] /\ there \subseteq Objects
    /\ move.at \in {"idle", "answers", "landing", "undo", "undoAnswers", "undoLanding"}
    /\ move.told \in Maybe(Tolds)
    /\ moves \in 0..MaxMoves /\ pushes \in 0..MaxPushes /\ tidy \in BOOLEAN

Init ==
    /\ time = 0
    /\ place = FirstPlace /\ put = [o \in Objects |-> None]
    /\ queue = Nowhere /\ pushes = 0 /\ loose = {} /\ air = [o \in Objects |-> None]
    /\ latest = [o \in Objects |-> None] /\ known = [o \in Objects |-> None]
    /\ ignoreBefore = [o \in Objects |-> 0] /\ there = {}
    /\ move = Idle /\ moves = 0 /\ tidy = TRUE

At(p) == {o \in Objects : place[o] = p}

(* A run of the model ends when its last move is told. *)
Going == moves < MaxMoves \/ move.at # "idle"

-----------------------------------------------------------------------------
(* Gazebo. *)

(* A step applies what was queued before it, or nothing yet; the robot may push an
   object that is not set.  Of an object's poses not read one is kept, and any may
   be the late one; a pose that is not finite, in another frame or ahead of the
   clock is as good as lost. *)
GazeboStep ==
    /\ time < MaxTime /\ Going
    /\ time' = time + 1
    /\ \E now \in {queue, Nowhere}, pushed \in Maybe(Pushable) :
         /\ pushed # None => pushes < MaxPushes /\ now[pushed] = None
         /\ pushes' = IF pushed = None THEN pushes ELSE pushes + 1
         /\ queue' = IF now = queue THEN Nowhere ELSE queue
         /\ place' \in [Objects -> Places]
         /\ \A o \in Objects \ {pushed} :
              place'[o] = IF now[o] = None THEN place[o] ELSE now[o]
    /\ \E late \in Maybe(Objects) :
         air' = [o \in Objects |-> IF o = late THEN air[o] ELSE [t |-> time', p |-> place'[o]]]
    /\ there' = there \cup At(Target)'
    /\ UNCHANGED <<loose, put, nodeVars, move, moves, tidy>>

(* Of the moves queued for an object the last one tells. *)
Queue(o, p) == queue' = [queue EXCEPT ![o] = p] /\ put' = [put EXCEPT ![o] = p]

(* Gazebo answers a request: it queues the move, or refuses it. *)
Answer(o) ==
    /\ move.at \in {"answers", "undoAnswers"} /\ move.futures[o] = "sent"
    /\ \E ok \in BOOLEAN :
         /\ move' = [move EXCEPT !.futures[o] = IF ok THEN "ok" ELSE "refused"]
         /\ IF ok THEN Queue(o, move.goals[o]) ELSE UNCHANGED <<queue, put>>
    /\ UNCHANGED <<time, place, loose, there, pushes, nodeVars, air, moves, tidy>>

(* A request nobody waits for is queued late, or lost. *)
LateAnswer ==
    /\ \E r \in loose :
         /\ loose' = loose \ {r}
         /\ Queue(r.o, r.p) \/ UNCHANGED <<queue, put>>
    /\ UNCHANGED <<time, place, there, pushes, nodeVars, air, move, moves, tidy>>

-----------------------------------------------------------------------------
(* _on_pose. *)

(* Mutant: a pose from before the move is taken. *)
AcceptsOld(o, msg) == TRUE

Accepts(o, msg) == msg.t >= ignoreBefore[o]

(* Mutant: every object's latest pose is published, however old. *)
PublishedAny(m) == {o \in Objects : m[o] # None}

(* What an update of the pace publishes of the poses m. *)
Published(m) == {o \in Objects : m[o] # None /\ m[o].t - m[Pace].t \in (-Fresh)..Fresh}

OnPose(o) ==
    /\ Going /\ air[o] # None
    /\ air' = [air EXCEPT ![o] = None]
    /\ IF Accepts(o, air[o])
       THEN /\ latest' = [latest EXCEPT ![o] = air[o]]
            /\ known' = [known EXCEPT ![o] = air[o].p]
       ELSE UNCHANGED <<latest, known>>
    /\ UNCHANGED <<gazeboVars, ignoreBefore, move, moves, put, tidy>>

-----------------------------------------------------------------------------
(* move.  _set_all's requests go out together; the answers are polled. *)

Asked(goals) == [o \in Objects |-> IF o \in DOMAIN goals THEN "sent" ELSE "none"]
Named(a)     == {o \in Objects : move.futures[o] = a}

(* Refused before anything moves: set_pose is not served (it may be so at any
   time), or an object has no pose to go back to. *)
Refuse ==
    /\ move.at = "idle" /\ moves < MaxMoves
    /\ move' = [Idle EXCEPT !.told = "refusing"]
    /\ moves' = moves + 1
    /\ UNCHANGED <<gazeboVars, nodeVars, air, put, tidy>>

Begin ==
    /\ move.at = "idle" /\ moves < MaxMoves
    /\ \A o \in Objects : known[o] # None
    /\ LET goals == [o \in Objects |-> Target]
       IN move' = [at |-> "answers", told |-> None, before |-> known, since |-> 0,
                   unanswered |-> {}, refused |-> {}, goals |-> goals, futures |-> Asked(goals)]
    /\ latest' = [o \in Objects |-> None]
    /\ ignoreBefore' = [o \in Objects |-> time]
    /\ moves' = moves + 1
    /\ put' = Nowhere /\ tidy' = (loose = {} /\ queue = Nowhere)
    /\ UNCHANGED <<gazeboVars, known, air>>

(* The round ends when every request is answered, or at the deadline. *)
Dropped == loose \cup {[o |-> o, p |-> move.goals[o]] : o \in Named("sent")}

Answered ==
    /\ move.at = "answers"
    /\ loose' = Dropped /\ there' = At(Target)
    /\ move' = [move EXCEPT !.refused = Named("refused"), !.unanswered = Named("sent"),
                            !.since = time, !.futures = Asked(<<>>),
                            !.at = IF Named("ok") = Objects THEN "landing" ELSE "undo"]
    /\ UNCHANGED <<time, place, queue, pushes, nodeVars, air, moves, put, tidy>>

(* Mutant: any pose of since the move began tells. *)
MissedAny(goals, since) == {o \in DOMAIN goals : latest[o] = None \/ latest[o].p # goals[o]}

(* missed, in _landed *)
Missed(goals, since) ==
    {o \in DOMAIN goals : latest[o] = None \/ latest[o].t < since \/ latest[o].p # goals[o]}

Tell(what) == [Idle EXCEPT !.told = what, !.unanswered = move.unanswered, !.before = move.before]

Landed ==
    /\ move.at = "landing"
    /\ move' = IF Missed(move.goals, move.since) = {} THEN Tell("moved")
               ELSE [move EXCEPT !.at = "undo"]
    /\ UNCHANGED <<gazeboVars, nodeVars, air, moves, put, tidy>>

(* Mutant: only the objects that failed go back. *)
FailedOnly == IF move.unanswered # {} THEN move.unanswered
              ELSE Missed(move.goals, move.since) \ move.refused

(* Every object that moved or may still move; a refused one never left. *)
GoBack == Objects \ move.refused

Undo ==
    /\ move.at = "undo"
    /\ LET goals == [o \in GoBack |-> move.before[o]]
       IN move' = [move EXCEPT !.at = "undoAnswers", !.refused = {}, !.since = time, !.goals = goals,
                               !.futures = Asked(goals)]
    /\ UNCHANGED <<gazeboVars, nodeVars, air, moves, put, tidy>>

UndoAnswered ==
    /\ move.at = "undoAnswers"
    /\ loose' = Dropped
    /\ move' = [move EXCEPT !.at = "undoLanding"]
    /\ UNCHANGED <<time, place, queue, there, pushes, nodeVars, air, moves, put, tidy>>

(* Mutant: what Gazebo refused to undo is not counted. *)
UndoneLanded == Missed(move.goals, move.since)

NotUndone == Named("sent") \cup Named("refused") \cup Missed(move.goals, move.since)

UndoLanded ==
    /\ move.at = "undoLanding"
    /\ move' = Tell(IF NotUndone # {} THEN "stuck" ELSE "restored")
    /\ UNCHANGED <<gazeboVars, nodeVars, air, moves, put, tidy>>

-----------------------------------------------------------------------------
Mover == Answered \/ Landed \/ Undo \/ UndoAnswered \/ UndoLanded

Next ==
    \/ GazeboStep \/ LateAnswer
    \/ \E o \in Objects : Answer(o) \/ OnPose(o)
    \/ Refuse \/ Begin \/ Mover

Spec == Init /\ [][Next]_vars

-----------------------------------------------------------------------------
(* Properties. *)

(* "A move is all or nothing": unless a request of an earlier move is still
   loose, a move told done has sent every object to its target, and one told
   undone has left none there, but for those it names as unanswered. *)
AllOrNothing ==
    tidy =>
      /\ move.told = "moved" => \A o \in Objects : put[o] = Target
      /\ move.told = "restored" =>
           \A o \in Objects \ move.unanswered : put[o] \in {None, move.before[o]}

(* "each object reports a pose stamped after the answers ... of its target": a
   move told done found every object at its target at a time since the
   answers, whatever poses were under way. *)
ReallyThere ==
    move.told = "moved" => there = Objects

(* "a stale pose never stands in": what an update of the pace publishes was the
   object's place at a time within FRESH_S of it, and not before the last move
   began. *)
PublishesFresh ==
    \A o \in Objects :
         latest'[Pace] \notin {None, latest[Pace]} /\ o \in Published(latest') =>
           /\ latest'[o].t >= ignoreBefore[o]
           /\ latest'[o].t >= latest'[Pace].t - Fresh
=============================================================================
