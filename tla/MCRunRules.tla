----------------------------- MODULE MCRunRules -----------------------------
(* Three images: the one in use, one pulled later with fewer entries and    *)
(* another scenario, and one whose catalog is bad.                          *)
EXTENDS RunRules

Num(n) == [t |-> "int", v |-> <<n>>]
Flt(n) == [t |-> "float", v |-> <<n>>]
Str(n) == [t |-> "str", v |-> <<n>>]
Pair(a, b) == [t |-> "list", v |-> <<a, b>>]

Tunable(type, low, high, default, target) ==
    [type |-> type, enum |-> {1, 2}, low |-> low, high |-> high, length |-> 2,
     ordered |-> FALSE, default |-> default, backends |-> {}, target |-> target]
Ros(node, param) == [kind |-> "ros_param", path |-> << >>, node |-> node, param |-> param]
Path(kind, path) ==
    [kind |-> kind, path |-> path, node |-> <<"", "">>, param |-> << >>]

ArmNode == <<"controller", "arm">>
SpawnPath == <<"objects", "can", "spawn">>

Entry(name) == [name |-> name, available |-> TRUE, params |-> << >>, fields |-> << >>]

Backends == {Entry("mujoco"), Entry("gazebo"), Entry("isaac")}

ArmParams ==
    [gain |-> Tunable("float", 0, 3, Flt(1), Ros(ArmNode, <<"kp">>)),
     mass |-> [Tunable("int", 0, 3, Num(1), Path("mjcf", <<"can", "mass">>))
                  EXCEPT !.backends = {"mujoco"}],
     reach |-> Tunable("int", 0, 3, Num(1), Path("xacro", <<"reach">>))]

Camera(frame, rate, pixels, large, model, coefficients) ==
    [frame |-> frame, rate |-> rate, pixels |-> pixels, large |-> large, model |-> model,
     coefficients |-> coefficients]

\* A fixed base camera, one on the hand, and the hand turned about.
Joints ==
    [base |-> [parent |-> "world", fixed |-> TRUE, origin |-> [s |-> 1, x |-> 2]],
     chest_frame |-> [parent |-> "base", fixed |-> TRUE, origin |-> [s |-> -1, x |-> 1]],
     hand |-> [parent |-> "base", fixed |-> FALSE, origin |-> [s |-> 1, x |-> 3]],
     flange |-> [parent |-> "hand", fixed |-> TRUE, origin |-> [s |-> -1, x |-> 1]],
     wrist_frame |-> [parent |-> "flange", fixed |-> TRUE, origin |-> [s |-> 1, x |-> 2]]]

RigOf(cameras) ==
    [links |-> {"world"} \cup DOMAIN Joints, joints |-> Joints,
     bodies |-> {"base", "hand"}, cameras |-> cameras]

\* By robot: cameras every backend takes, and one only some do.
Rig(name) ==
    RigOf(CASE name = "arm" ->
                 [chest |-> Camera("chest_frame", 2, 2, FALSE, "equidistant", 4),
                  wrist_right |-> Camera("wrist_frame", 6, 3, TRUE, "equidistant", 4)]
            [] name = "slow" -> [chest |-> Camera("chest_frame", 4, 2, FALSE, "equidistant", 4)]
            [] name = "pinhole" -> [chest |-> Camera("chest_frame", 3, 2, FALSE, "plumb_bob", 5)]
            [] name = "large" -> [chest |-> Camera("chest_frame", 3, 3, FALSE, "equidistant", 4)]
            [] OTHER -> << >>)

Robot(name, roles, launches, profile, params) ==
    [name |-> name, available |-> TRUE, params |-> params, fields |-> << >>,
     supported |-> IF profile THEN {"mujoco", "gazebo", "isaac"} ELSE {"mujoco"},
     profile |-> profile, roles |-> roles, launches |-> launches, rig |-> Rig(name)]

ArmRoles == [broadcasters |-> {"jsb"}, arm |-> {"arm"}, gripper |-> {"grip"}]

Robots ==
    {Robot("arm", ArmRoles, [teleop |-> {"arm"}], TRUE, ArmParams),
     Robot("bare", ArmRoles, << >>, FALSE, << >>),
     Robot("twin", ArmRoles, [gripper |-> {"arm"}], TRUE, << >>),
     Robot("blind", [ArmRoles EXCEPT !.broadcasters = {}], << >>, TRUE, << >>),
     Robot("slow", ArmRoles, << >>, TRUE, << >>),
     Robot("pinhole", ArmRoles, << >>, TRUE, << >>),
     Robot("large", ArmRoles, << >>, TRUE, << >>),
     Robot("lame", [broadcasters |-> {"jsb"}], [teleop |-> {"arm"}], TRUE, << >>)}

Object(name, static, kind, boards, x, spawn) ==
    [name |-> name, static |-> static, kind |-> kind, boards |-> boards, x |-> x,
     spawn |-> spawn]
Table == Object("table", TRUE, "shape", {}, 0, << >>)
Box == Object("box", FALSE, "shape", {}, 2, <<0, 1>>)
Can == Object("can", FALSE, "shape", {}, 1, <<-1, 1>>)

Scenario(name, objects, params, fields) ==
    [name |-> name, available |-> TRUE, params |-> params, fields |-> fields,
     scenario |-> [name |-> name, objects |-> objects, regions |-> {"bin"},
                   success |-> IF Can \in ToSet(objects) THEN <<"can", "bin">> ELSE << >>]]

CanParams == [range |-> Tunable("array", -2, 2, Pair(-1, 1), Path("entry", SpawnPath))]

Cans(name, objects) ==
    Scenario(name, objects, CanParams, (SpawnPath :> Pair(-1, 1)))

Scenarios ==
    {Cans("cans", <<Table, Box, Can>>),
     Scenario("usd", <<Table, Object("mug", FALSE, "usd", {}, 1, << >>)>>, << >>, << >>),
     Scenario("boards", <<Object("board", TRUE, "charuco", {1, 2}, 1, << >>)>>, << >>, << >>),
     [Scenario("soon", << >>, << >>, << >>) EXCEPT !.available = FALSE],
     Scenario("empty", << >>, << >>, << >>)}

Controller(name, activate, launch, scenarios, params) ==
    [name |-> name, available |-> TRUE, params |-> params, fields |-> << >>,
     activate |-> activate, launch |-> launch, scenarios |-> scenarios, launchArgs |-> {"speed"}]

Controllers0 ==
    {Controller("pick", <<"arm", "gripper">>, TRUE, {"cans"},
        [stiff |-> Tunable("int", 0, 3, Num(1), Ros(ArmNode, <<"kp">>)),
         damp |-> Tunable("int", 0, 3, Num(1), Ros(ArmNode, <<"kd", "p">>)),
         mode |-> Tunable("enum", 0, 0, Str(1), Ros(<<"policy", "policy">>, <<"mode">>))]),
     Controller("tele", <<"teleop">>, FALSE, {}, << >>),
     Controller("idle", << >>, FALSE, {}, << >>)}

InUse == [backend |-> Backends, robot |-> Robots, scenario |-> Scenarios,
          controller |-> Controllers0]

\* The objects stand in another order, and the teleop controller is gone.
Later == [InUse EXCEPT
    !.scenario = {Cans("cans", <<Can, Table>>), Scenario("empty", << >>, << >>, << >>)},
    !.controller = {c \in Controllers0 : c.name # "tele"}]

\* A scenario lists the launch's own timeout as a tunable.
BadParams == [late |-> Tunable("float", 0, 3, Flt(1), Ros(<<"scenario", "n">>, <<"timeout_s">>))]
BadImage == [InUse EXCEPT !.scenario =
                {[Cans("cans", <<Table, Can>>) EXCEPT !.params = BadParams]}
                \cup {s \in Scenarios : s.name # "cans"}]

MCImages == <<InUse, Later, BadImage>>

ASSUME CatalogsKeepApart == OverridesApart /\ RolesApart

Asked(b, r, s, c, seed, params) ==
    [backend |-> b, robot |-> r, scenario |-> s, controller |-> c, seed |-> seed,
     params |-> params]

Overrides ==
    {(<<"robot", "gain">> :> x) : x \in {Num(2), Flt(2), Num(4), Str(1)}}
    \cup {(<<"scenario", "range">> :> x) : x \in {Pair(0, 1), Pair(1, -1), Pair(-2, 3), Num(0)}}
    \cup {(<<"controller", "mode">> :> x) : x \in {Str(2), Str(3)}}
    \cup {(<<"robot", "mass">> :> Num(2)), (<<"robot", "none">> :> Num(2)),
          (<<"robot", "gain">> :> Num(2)) @@ (<<"controller", "stiff">> :> Num(2)),
          (<<"robot", "gain">> :> Num(2)) @@ (<<"controller", "damp">> :> Num(2)),
          (<<"robot", "reach">> :> Num(2)) @@ (<<"scenario", "range">> :> Pair(0, 2)),
          (<<"scenario", "late">> :> Num(2))}

MCSpecs ==
    {Asked(b, r, s, c, 0, << >>) :
        b \in {"mujoco", "gazebo", "isaac"}, r \in {"arm", "bare", "twin", "blind", "lame",
                                              "slow", "pinhole", "large"},
        s \in {"cans", "usd", "boards", "empty", "soon", "ghost"}, c \in {"pick", "tele", "idle"}}
    \cup {Asked(b, "arm", s, "pick", 0, ov) :
        b \in {"mujoco", "isaac"}, s \in {"cans", "empty"}, ov \in Overrides}
    \cup {Asked("mujoco", "arm", "cans", "pick", seed, << >>) : seed \in {-1, 3, 4}}
=============================================================================
