------------------------------- MODULE Worlds -------------------------------
(***************************************************************************)
(* What a scenario and a seed make of a world: the checks a scenario must  *)
(* pass, where its objects spawn, and what each backend's generator puts   *)
(* in the world it writes (fm_sim_scenarios).                              *)
(*                                                                         *)
(* A scenario is [name, objects, regions, success]; an object is           *)
(* [name, static, kind, boards, x, spawn], placed on one axis: x is its    *)
(* yaml position, spawn its range << low, high >> of offsets, or << >>,    *)
(* and boards the marker ids a ChArUco board numbers.  success is          *)
(* << object, region >>, or << >> for a scenario that judges nothing.      *)
(***************************************************************************)
EXTENDS Integers, Sequences, FiniteSets

CONSTANT Margin         \* how far past the objects the Isaac workspace reaches

\* Python's random.Random(seed): the k-th draw of one seed, uniform between
\* low and high, in whichever order they are.  Only that it is a function of
\* its arguments matters.
Uniform(seed, k, low, high) ==
    IF low <= high THEN low + ((2 * seed + k) % (high - low + 1))
    ELSE low - ((2 * seed + k) % (low - high + 1))

Objects(s) == {s.objects[i] : i \in DOMAIN s.objects}
FreeObjects(s) == {o \in Objects(s) : ~o.static}
NamesOf(objects) == {o.name : o \in objects}

-----------------------------------------------------------------------------
(* What a scenario must satisfy beyond the schema.                         *)

\* Two boards never number the same marker.
BoardsApart(s) ==
    \A i, j \in DOMAIN s.objects :
        i # j => s.objects[i].boards \cap s.objects[j].boards = {}

NamesOnce(s) ==
    /\ \A i, j \in DOMAIN s.objects : s.objects[i].name = s.objects[j].name => i = j
    /\ NamesOf(Objects(s)) \cap s.regions = {}

RangesAscend(s) ==
    \A o \in Objects(s) : o.spawn # << >> => o.spawn[1] <= o.spawn[2]

ScenarioCheck(s) ==
    /\ NamesOnce(s)
    /\ BoardsApart(s)
    /\ RangesAscend(s)
    /\ s.success # << >> =>
         /\ s.success[1] \in NamesOf(Objects(s))
         /\ s.success[2] \in s.regions

-----------------------------------------------------------------------------
(* Where objects stand: a static one at its yaml pose, a free one moved    *)
(* by its draw.  Objects draw in yaml order, and one with no range draws   *)
(* nothing, so a seed's draws do not depend on who asks.                   *)

DrawsBefore(s, i) ==
    Cardinality({j \in 1..(i - 1) : ~s.objects[j].static /\ s.objects[j].spawn # << >>})

SpawnPoses(s, seed) ==
    [n \in NamesOf(FreeObjects(s)) |->
        LET i == CHOOSE j \in DOMAIN s.objects : s.objects[j].name = n
            o == s.objects[i]
        IN  o.x + (IF o.spawn = << >> THEN 0
                   ELSE Uniform(seed, DrawsBefore(s, i), o.spawn[1], o.spawn[2]))]

StaticPoses(s) ==
    [n \in NamesOf(Objects(s) \ FreeObjects(s)) |->
        (CHOOSE o \in Objects(s) : o.name = n).x]

-----------------------------------------------------------------------------
(* The generators.                                                         *)

\* MuJoCo and Gazebo load no USD asset; Gazebo and Isaac draw no board.
Builds(backend, s) ==
    LET kinds == {o.kind : o \in Objects(s)}
    IN  CASE backend = "mujoco" -> "usd" \notin kinds
          [] backend = "gazebo" -> kinds \cap {"usd", "charuco"} = {}
          [] backend = "isaac"  -> ScenarioCheck(s) /\ "charuco" \notin kinds

\* The box, on the axis, outside which Isaac's stage runner refuses to put an
\* object: every yaml position grown by its spawn range, and a margin.
ObjectWorkspace(s) ==
    LET low  == {o.x + (IF o.spawn = << >> THEN 0 ELSE o.spawn[1]) : o \in Objects(s)}
        high == {o.x + (IF o.spawn = << >> THEN 0 ELSE o.spawn[2]) : o \in Objects(s)}
    IN  IF Objects(s) = {} THEN [min |-> 0, max |-> 0]
        ELSE [min |-> (CHOOSE v \in low : \A w \in low : v <= w) - Margin,
              max |-> (CHOOSE v \in high : \A w \in high : v >= w) + Margin]

\* A MuJoCo world: a body with a free joint per free object, a geom per
\* static one, and the robot's cameras.  The simulation publishes the pose of
\* every free joint and moves any.
MujocoWorld(s, seed, roles) ==
    [free |-> SpawnPoses(s, seed), fixed |-> StaticPoses(s),
     poses |-> NamesOf(FreeObjects(s)), images |-> roles, box |-> << >>]

\* A Gazebo world: a model per object, a free one with a pose publisher.
GazeboModels(s, seed) ==
    {[name |-> o.name, publisher |-> ~o.static,
      pose |-> IF o.static THEN StaticPoses(s)[o.name] ELSE SpawnPoses(s, seed)[o.name]]
        : o \in Objects(s)}

\* Mutant: every model is taken for a free object.
GazeboFreeAll(models) == {m.name : m \in models}

\* The free objects are read back from the world the first half wrote.
GazeboFree(models) == {m.name : m \in {m \in models : m.publisher}}

PosesOf(models, names) ==
    [n \in names |-> (CHOOSE m \in models : m.name = n).pose]

\* The bridge carries the pose topic of each and an image per camera.
GazeboWorld(s, seed, roles) ==
    LET models == GazeboModels(s, seed)
        free   == GazeboFree(models)
    IN  [free |-> PosesOf(models, free),
         fixed |-> PosesOf(models, {m.name : m \in models} \ free),
         poses |-> free, images |-> roles, box |-> << >>]

\* An Isaac stage: a prim per object, a free one a rigid body.
ObjectSpecs(s, seed) ==
    {[name |-> o.name, rigid |-> ~o.static,
      pose |-> IF o.static THEN StaticPoses(s)[o.name] ELSE SpawnPoses(s, seed)[o.name]]
        : o \in Objects(s)}

\* The bridge graph publishes the rigid bodies' poses as one message, where
\* there are any, and an image per camera.
BridgeGraph(specs, roles) ==
    [poses |-> {p.name : p \in {p \in specs : p.rigid}}, images |-> roles]

IsaacWorld(s, seed, roles) ==
    LET specs == ObjectSpecs(s, seed)
        graph == BridgeGraph(specs, roles)
    IN  [free |-> PosesOf(specs, graph.poses),
         fixed |-> PosesOf(specs, {p.name : p \in specs} \ graph.poses),
         poses |-> graph.poses, images |-> graph.images, box |-> <<ObjectWorkspace(s)>>]

World(backend, s, seed, roles) ==
    CASE backend = "mujoco" -> MujocoWorld(s, seed, roles)
      [] backend = "gazebo" -> GazeboWorld(s, seed, roles)
      [] backend = "isaac"  -> IsaacWorld(s, seed, roles)
=============================================================================
