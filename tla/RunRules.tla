------------------------------ MODULE RunRules ------------------------------
(***************************************************************************)
(* From a RunSpec to a run: what the sim agent reads of the image's        *)
(* catalog, what it refuses before a container starts, what it writes for  *)
(* the run, and what run.launch.py in the run's container then checks      *)
(* again and starts.  The agent runs on the host and cannot import the     *)
(* launch's rules, so it keeps copies of them (agent.py, params.py); the   *)
(* image may be replaced between the agent's reading of it and the         *)
(* container's start.                                                      *)
(*                                                                         *)
(* An image is [backend, robot, scenario, controller], each a set of       *)
(* catalog entries.  Every entry has name, available, params (name ->      *)
(* declaration) and fields (path -> value); by kind,                       *)
(*   robot       supported, profile, roles (role -> controllers), launches *)
(*               (role -> required roles), rig (see RobotRig)                         *)
(*   scenario    scenario (see Worlds)                                     *)
(*   controller  activate, launch, scenarios (a set, or {} for any),       *)
(*               launchArgs                                                *)
(***************************************************************************)
EXTENDS Worlds, Tunables, RobotRig

CONSTANTS Catalogs,     \* the images the host's tag may name, by a number
          Specs,        \* the RunSpecs a caller sends
          SeedMax,      \* the largest seed
          MaxPulls      \* bound: how often the tag is moved

ASSUME RunRulesAssumption == SeedMax \in Nat /\ MaxPulls \in Nat

Dimensions == {"backend", "robot", "scenario", "controller"}

-----------------------------------------------------------------------------
(* The shape of what is read: the catalog's schema, an entry per name (an  *)
(* entry's file must name itself as it is registered), and JSON values     *)
(* under `<dimension>.<name>' keys.                                        *)

IsValue(x) ==
    x = [t |-> x.t, v |-> x.v] /\ x.t \in {"bool", "str", "list", "int", "float"}

IsEntry(d, entry) ==
    /\ {"name", "available", "params", "fields"} \subseteq DOMAIN entry
    /\ d = "scenario" => "scenario" \in DOMAIN entry
    /\ d = "controller" => "scenarios" \in DOMAIN entry
    /\ d = "robot" => "broadcasters" \in DOMAIN entry.roles
    /\ \A name \in DOMAIN entry.params :
           LET target == entry.params[name].target
           IN  /\ target.kind \in {"ros_param", "entry", "xacro", "mjcf"}
               /\ target.kind = "ros_param" => target.param \in Seq(STRING)

IsImage(img) ==
    /\ DOMAIN img = Dimensions
    /\ \A d \in Dimensions :
           /\ \A entry \in img[d] : IsEntry(d, entry)
           /\ \A a, b \in img[d] : a.name = b.name => a = b

IsSpec(s) ==
    \A key \in DOMAIN s.params : key[1] \in Dimensions /\ IsValue(s.params[key])

ASSUME CatalogsAssumption ==
    /\ \A i \in DOMAIN Catalogs : IsImage(Catalogs[i])
    /\ \A s \in Specs : IsSpec(s)
-----------------------------------------------------------------------------

VARIABLES image,    \* the image the tag names now
          pulls,    \* how often it has been moved
          isaacHost,\* whether the host has an Isaac Sim image
          spec,     \* the caller's RunSpec
          doc,      \* the image the agent read: << image >>, or << >>
          answer,   \* the agent's answer to up
          files,    \* the params the agent wrote: [json, yaml]
          from,     \* history: << the image the container came from >>, or << >>
          run       \* what the launch started

vars == <<image, pulls, isaacHost, spec, doc, answer, files, from, run>>

-----------------------------------------------------------------------------
(* The image's catalog: every entry is checked as it is listed, and one    *)
(* bad entry fails the whole list.                                         *)

LaunchOwned == {"backend", "robot", "scenario", "controller", "use_sim", "seed",
                "timeout_s", "params_file", "overrides_file", "robot_profile",
                "robot_description", "controllers_file", "world", "cameras_file",
                "mesh_roots"}

\* A scenario entry with the values its fields now hold.
ScenarioOf(entry) ==
    LET s     == entry.scenario
        at(i) == <<"objects", s.objects[i].name, "spawn">>
    IN  [s EXCEPT !.objects =
            [i \in DOMAIN s.objects |->
                IF at(i) \in DOMAIN entry.fields
                THEN [s.objects[i] EXCEPT !.spawn = entry.fields[at(i)].v]
                ELSE s.objects[i]]]

ValidController(img, entry) ==
    /\ entry.scenarios \subseteq {s.name : s \in img.scenario}
    /\ entry.launchArgs \cap LaunchOwned = {}

Valid(img, dimension, entry) ==
    /\ dimension = "controller" => ValidController(img, entry)
    /\ dimension = "scenario" => ScenarioCheck(ScenarioOf(entry))
    /\ CheckParams(entry)

Lists(img) == \A d \in Dimensions : \A entry \in img[d] : Valid(img, d, entry)

\* With no Isaac Sim image the agent lists the isaac backend unavailable.
MarkIsaac(img, hasIsaac) ==
    IF hasIsaac THEN img
    ELSE [img EXCEPT !.backend =
            {IF b.name = "isaac" THEN [b EXCEPT !.available = FALSE] ELSE b : b \in @}]

Names(img, d) == {entry.name : entry \in img[d]}

\* The four entries a spec names.
Entries(img, s) ==
    [d \in Dimensions |-> CHOOSE entry \in img[d] : entry.name = s[d]]

Listed(img, s) == \A d \in Dimensions : s[d] \in Names(img, d)
Available(img, s) == \A d \in Dimensions : Entries(img, s)[d].available

-----------------------------------------------------------------------------
(* The agent's copy of the pair rules.                                     *)

RoleOf(robot, role) ==
    IF role \in DOMAIN robot.launches THEN robot.launches[role] ELSE {}

\* Mutant: what a launch role requires is not looked at.
CombinationIgnoresRequires(e) ==
    LET robot == e.robot  controller == e.controller
    IN  \/ e.backend.name \notin robot.supported
        \/ controller.launch /\ ~robot.profile
        \/ ToSet(controller.activate) \ (DOMAIN robot.roles \cup DOMAIN robot.launches) # {}
        \/ controller.scenarios # {} /\ e.scenario.name \notin controller.scenarios

CombinationRefused(e) ==
    LET robot == e.robot  controller == e.controller  roles == DOMAIN e.robot.roles
    IN  \/ e.backend.name \notin robot.supported
        \/ controller.launch /\ ~robot.profile
        \/ ToSet(controller.activate) \ (roles \cup DOMAIN robot.launches) # {}
        \/ \E role \in ToSet(controller.activate) : RoleOf(robot, role) \ roles # {}
        \/ controller.scenarios # {} /\ e.scenario.name \notin controller.scenarios

\* The broadcasters a run must have active to be up; a robot with none is a
\* broken catalog.
Broadcasters(robot) ==
    IF "broadcasters" \in DOMAIN robot.roles THEN robot.roles["broadcasters"] ELSE {}

SeedOk(seed) == 0 <= seed /\ seed <= SeedMax

\* A declared tunable, for an override's key << dimension, name >>.
Declared(e, key) == key[2] \in DOMAIN e[key[1]].params
Param(e, key) == e[key[1]].params[key[2]]

AgentTakes(e, key, x) ==
    /\ Declared(e, key)
    /\ Param(e, key).backends = {} \/ e.backend.name \in Param(e, key).backends
    /\ AgentCheckValue(Param(e, key), x) # Refused

\* The overrides, normalised.
Checked(e, ov) == [key \in DOMAIN ov |-> AgentCheckValue(Param(e, key), ov[key])]

\* The params file: a value per (node, param) some override names.  Two
\* overrides that set one param, or one inside another, are refused.
RosKeys(e, ov) == {key \in DOMAIN ov : Param(e, key).target.kind = "ros_param"}

\* Mutant: overrides of two entries are not compared with each other.
ClashWithinEntry(e, ov) ==
    \E a, b \in RosKeys(e, ov) :
        a # b /\ a[1] = b[1] /\ Overlapping(Param(e, a).target, Param(e, b).target)

RosClash(e, ov) ==
    \E a, b \in RosKeys(e, ov) : a # b /\ Overlapping(Param(e, a).target, Param(e, b).target)

At(target) == <<target.node, target.param>>

RosParams(e, ov) ==
    [at \in {At(Param(e, key).target) : key \in RosKeys(e, ov)} |->
        ov[CHOOSE key \in RosKeys(e, ov) : At(Param(e, key).target) = at]]

NoFiles == [json |-> << >>, yaml |-> << >>]
NotStarted == [refused |-> "not started"]

-----------------------------------------------------------------------------
(* The launch: the same entries and overrides, checked again in the image. *)

\* The four entries, each checked as it is loaded, and no other.
Loads(img, s) ==
    /\ Listed(img, s) /\ Available(img, s)
    /\ \A d \in Dimensions : Valid(img, d, Entries(img, s)[d])

\* Mutant: the scenarios a controller runs on are not looked at.
ResolveAnyScenario(e) ==
    IF e.backend.name \notin e.robot.supported THEN "backend"
    ELSE IF e.controller.launch /\ ~e.robot.profile THEN "profile"
    ELSE "none"

Resolve(e) ==
    IF e.backend.name \notin e.robot.supported THEN "backend"
    ELSE IF e.controller.launch /\ ~e.robot.profile THEN "profile"
    ELSE IF e.controller.scenarios # {} /\ e.scenario.name \notin e.controller.scenarios
    THEN "scenario"
    ELSE "none"

LaunchTakes(e, key, x) ==
    /\ Declared(e, key)
    /\ Param(e, key).backends = {} \/ e.backend.name \in Param(e, key).backends
    /\ CheckValue(Param(e, key), x) # Refused

EntryKeys(e, ov, d) ==
    {key \in DOMAIN ov : key[1] = d /\ Param(e, key).target.kind = "entry"}

\* An entry with the overrides of its entry targets in its fields.
Patched(e, ov) ==
    [d \in Dimensions |->
        [e[d] EXCEPT !.fields =
            [path \in DOMAIN @ |->
                LET keys == {k \in EntryKeys(e, ov, d) : Param(e, k).target.path = path}
                IN  IF keys = {} THEN @[path]
                    ELSE LET k == CHOOSE k \in keys : TRUE
                         IN  CheckValue(Param(e, k), ov[k])]]]

\* Mutant: a changed entry is not checked again.
OverridesUnchecked(img, e, ov) ==
    IF \A key \in DOMAIN ov : LaunchTakes(e, key, ov[key]) THEN "none" ELSE "override"

\* Every override is one its entry takes, and an entry it changed is checked
\* again as the catalog checks it (less its params, whose defaults are the
\* entry's as declared).
OverridesRefused(img, e, ov) ==
    IF \E key \in DOMAIN ov : ~LaunchTakes(e, key, ov[key]) THEN "override"
    ELSE IF \E d \in Dimensions :
                EntryKeys(e, ov, d) # {} /\
                ~Valid(img, d, [Patched(e, ov)[d] EXCEPT !.params = << >>])
    THEN "entry"
    ELSE "none"

\* The roles a controller brings up: its controller roles, its launch roles,
\* and what those require.  Broadcasters always start.
RolesRefused(robot, controller) ==
    LET roles == DOMAIN robot.roles  launches == DOMAIN robot.launches
    IN  IF roles \cap launches # {} THEN "clash"
        ELSE IF ToSet(controller.activate) \ (roles \cup launches) # {} THEN "role"
        ELSE IF \E role \in ToSet(controller.activate) : RoleOf(robot, role) \ roles # {}
        THEN "requires"
        ELSE "none"

LaunchRoles(robot, controller) == ToSet(controller.activate) \cap DOMAIN robot.launches

\* Mutant: what a launch role requires is not activated with it.
RolesWithoutRequired(robot, controller) ==
    {"broadcasters"} \cup (ToSet(controller.activate) \cap DOMAIN robot.roles)

ActiveRoles(robot, controller) ==
    {"broadcasters"}
        \cup (ToSet(controller.activate) \cap DOMAIN robot.roles)
        \cup UNION {robot.launches[role] : role \in LaunchRoles(robot, controller)}

Controllers(robot, roles) == UNION {robot.roles[role] : role \in roles}

\* What the launch itself sets on the nodes it starts, and the value a
\* parameter of a node ends up with: the params file beats the node's own
\* parameters, and the guard file takes back what is the launch's.
CameraParameters == {"role", "cameras_file", "render_topic", "depth_render_topic",
                     "seed", "use_sim_time"}
ScenarioParameters == {"scenario", "seed", "backend", "timeout_s", "use_sim_time"}

OwnedOn(node) ==
    CASE node[1] = "camera"   -> CameraParameters
      [] node[1] = "scenario" -> ScenarioParameters
      [] OTHER                -> {}

Effective(yaml, node, param) ==
    IF param[1] \notin OwnedOn(node) /\ <<node, param>> \in DOMAIN yaml
    THEN yaml[<<node, param>>] ELSE Refused

\* The xacro arguments and MJCF attributes the overrides set.
Described(e, ov) ==
    LET keys == {key \in DOMAIN ov : Param(e, key).target.kind \in {"xacro", "mjcf"}}
    IN  [path \in {Param(e, key).target.path : key \in keys} |->
            LET key == CHOOSE k \in keys : Param(e, k).target.path = path
            IN  CheckValue(Param(e, key), ov[key])]

\* Mutant: the scenario node is given the scenario as the catalog has it.
JudgedAsListed(e, ov) ==
    IF e.scenario.scenario.objects = << >> THEN << >> ELSE <<ScenarioOf(e.scenario)>>

\* The scenario the scenario node is given: none where there is no object.
Judged(e, ov) ==
    LET s == ScenarioOf(Patched(e, ov).scenario)
    IN  IF s.objects = << >> THEN << >> ELSE <<s>>

\* The nodes that give the cameras' topics: on MuJoCo a sim_camera each, which
\* hears the pinhole image; elsewhere the relays, which hear the raw image.
CameraNodes(e) == DOMAIN e.robot.rig.cameras

\* What the launch refuses, in the order it looks.
LaunchRefused(img, s, ov) ==
    LET e == Entries(img, s)
    IN  IF ~Loads(img, s) THEN "catalog"
        ELSE IF Resolve(e) # "none" THEN Resolve(e)
        ELSE IF OverridesRefused(img, e, ov) # "none" THEN OverridesRefused(img, e, ov)
        ELSE IF RolesRefused(e.robot, e.controller) # "none"
        THEN RolesRefused(e.robot, e.controller)
        ELSE IF ~Builds(e.backend.name, ScenarioOf(Patched(e, ov).scenario)) THEN "world"
        ELSE IF ~Takes(e.backend.name, e.robot.rig) THEN "cameras"
        ELSE "none"

\* What it starts of entries it refuses nothing of.
Launched(e, ov) ==
    LET active == ActiveRoles(e.robot, e.controller)
    IN  [refused  |-> "none",
         robot    |-> e.robot,
         active   |-> Controllers(e.robot, active),
         inactive |-> Controllers(e.robot, DOMAIN e.robot.roles \ active),
         roles    |-> LaunchRoles(e.robot, e.controller),
         cameras  |-> CameraNodes(e),
         rendered |-> Rendered(e.backend.name, e.robot.rig),
         judged   |-> Judged(e, ov),
         entries  |-> Patched(e, ov),
         described |-> Described(e, ov),
         world    |-> World(e.backend.name, ScenarioOf(Patched(e, ov).scenario), 0,
                            CameraNodes(e))]

Launch(img, s, given) ==
    LET refused == LaunchRefused(img, s, given.json)
    IN  IF refused = "none" THEN Launched(Entries(img, s), given.json)
        ELSE [refused |-> refused]

-----------------------------------------------------------------------------
Init ==
    /\ image \in DOMAIN Catalogs
    /\ pulls = 0
    /\ isaacHost \in BOOLEAN
    /\ spec \in Specs
    /\ doc = << >>
    /\ answer = "none"
    /\ files = NoFiles
    /\ from = << >>
    /\ run = NotStarted

\* The operator pulls, or builds, another image under the tag.
Repull ==
    /\ pulls < MaxPulls
    /\ pulls' = pulls + 1
    /\ image' \in DOMAIN Catalogs \ {image}
    /\ UNCHANGED <<isaacHost, spec, doc, answer, files, from, run>>

\* up checks the spec's shape, then reads the catalog, of the image the tag names as it is read.
ReadCatalog ==
    /\ answer = "none" /\ doc = << >>
    /\ answer' = IF ~SeedOk(spec.seed) THEN "invalid_spec"
                 ELSE IF ~Lists(Catalogs[image]) THEN "catalog_unavailable"
                 ELSE answer
    /\ doc' = IF answer' = "none" THEN <<image>> ELSE doc
    /\ UNCHANGED <<image, pulls, isaacHost, spec, files, from, run>>

\* What up answers, in the order it looks.
UpAnswer(img, s) ==
    LET e == Entries(img, s)
    IN  IF ~Listed(img, s) THEN "unknown_entry"
        ELSE IF ~Available(img, s) THEN "unavailable_entry"
        ELSE IF CombinationRefused(e) THEN "combination"
        ELSE IF Broadcasters(e.robot) = {} THEN "catalog_unavailable"
        ELSE IF \E key \in DOMAIN s.params : ~AgentTakes(e, key, s.params[key])
        THEN "param"
        ELSE IF RosClash(e, s.params) THEN "param"
        ELSE "up"

\* up accepts or refuses, and files what the run's container will mount.
Up ==
    /\ answer = "none" /\ doc # << >>
    /\ LET img     == MarkIsaac(Catalogs[doc[1]], isaacHost)
           e       == Entries(img, spec)
           checked == Checked(e, spec.params)
       IN  /\ answer' = UpAnswer(img, spec)
           /\ files' = IF answer' = "up"
                       THEN [json |-> checked, yaml |-> RosParams(e, checked)]
                       ELSE files
    /\ UNCHANGED <<image, pulls, isaacHost, spec, doc, from, run>>

\* Mutant: a refusal does not keep the container from starting.
StartRefused ==
    /\ answer # "none" /\ run = NotStarted
    /\ from' = <<image>>
    /\ run' = Launch(Catalogs[image], spec, files)
    /\ UNCHANGED <<image, pulls, isaacHost, spec, doc, answer, files>>

\* The container starts from the image the tag names by now, with the files
\* mounted and the names on its command line; the seed comes by a reset later.
Start ==
    /\ answer = "up" /\ run = NotStarted
    /\ from' = <<image>>
    /\ run' = Launch(Catalogs[image], spec, files)
    /\ UNCHANGED <<image, pulls, isaacHost, spec, doc, answer, files>>

\* up has been refused, or its run started or failed to.
Done == (run # NotStarted \/ answer \notin {"none", "up"}) /\ UNCHANGED vars

Next == Repull \/ ReadCatalog \/ Up \/ Start \/ Done

Spec == Init /\ [][Next]_vars
-----------------------------------------------------------------------------
\* The container came from the image whose catalog the agent read.
SameImage == from # << >> /\ from = doc
Started == run # NotStarted /\ run.refused = "none"

TypeOK ==
    /\ image \in DOMAIN Catalogs /\ pulls \in 0..MaxPulls /\ isaacHost \in BOOLEAN
    /\ doc = << >> \/ doc[1] \in DOMAIN Catalogs
    /\ from = << >> \/ from[1] \in DOMAIN Catalogs
    /\ answer \in {"none", "invalid_spec", "catalog_unavailable", "unknown_entry",
                    "unavailable_entry", "combination", "param", "up"}
    /\ DOMAIN files.json \subseteq DOMAIN spec.params
    /\ run = NotStarted \/ answer = "up"

\* The agent refuses the combinations and overrides the launch refuses, and no
\* others, while both read one image: a robot that gives one name to two kinds
\* of role, an entry the overrides break, a world no generator builds and a
\* camera the backend cannot render are the launch's alone to refuse.
MirrorAgrees ==
    /\ SameImage =>
         run.refused \in {"none", "clash", "entry", "world", "cameras"}
    /\ answer = "combination" =>
         Launch(Catalogs[doc[1]], spec, NoFiles).refused
             \in {"backend", "profile", "scenario", "role", "requires", "clash"}

\* In a started run every override holds where its tunable says: in the entry,
\* in the description, or at the node, where a float stays a float.
OverridesTake ==
    Started /\ SameImage =>
        \A key \in DOMAIN spec.params :
            LET e == Entries(Catalogs[doc[1]], spec)
                p == Param(e, key)
                x == AgentCheckValue(p, spec.params[key])
            IN  CASE p.target.kind = "entry" ->
                        EntryValue(run.entries[key[1]], p.target.path) = x
                  [] p.target.kind = "ros_param" ->
                        Effective(files.yaml, p.target.node, p.target.param) = x
                  [] OTHER -> run.described[p.target.path] = x

\* No tunable any image's catalog lists reaches a parameter the launch sets on
\* a node of its own: the two lists of them, kept apart, agree.
OwnedKept ==
    \A at \in DOMAIN files.yaml : at[2][1] \notin OwnedOn(at[1])

\* A launch role is started with every controller its role requires active,
\* every controller of the robot is loaded once, and the broadcasters the
\* agent waits for are among the active ones.
RolesReady ==
    Started =>
        /\ \A role \in run.roles :
               Controllers(run.robot, run.robot.launches[role]) \subseteq run.active
        /\ run.active \cap run.inactive = {}
        /\ run.active \cup run.inactive = Controllers(run.robot, DOMAIN run.robot.roles)
        /\ SameImage => Broadcasters(run.robot) # {} /\ Broadcasters(run.robot) \subseteq run.active

\* The world a run is built in is the one its scenario node judges and
\* respawns: what the node will place, for any seed, the world can move, it
\* stands now where the world's seed puts it, and Isaac's stage runner will
\* not refuse the move.
BuiltAsJudged ==
    Started /\ run.judged # << >> =>
        LET s == run.judged[1]
        IN  /\ run.world.free = SpawnPoses(s, 0)
            /\ run.world.fixed = StaticPoses(s)
            /\ \A seed \in 0..SeedMax :
                   run.world.box # << >> =>
                       \A n \in DOMAIN SpawnPoses(s, seed) :
                           LET x == SpawnPoses(s, seed)[n]
                           IN  run.world.box[1].min <= x /\ x <= run.world.box[1].max

\* What a started run's nodes hear, its engine sends: the pose of every object
\* the scenario node judges and respawns, and no other's, and an image for
\* every camera node.
Wired ==
    Started =>
        /\ run.judged # << >> =>
             run.world.poses = NamesOf(FreeObjects(run.judged[1]))
        /\ run.cameras \subseteq run.world.images

\* Every camera of the robot is rendered where its description puts the
\* frame, however the joints stand, and at the rate its file asks.
CamerasTrue ==
    Started =>
        LET rig    == run.robot.rig
            moving == {l \in DOMAIN rig.joints : ~rig.joints[l].fixed}
        IN  \A q \in [moving -> 0..1], role \in DOMAIN rig.cameras :
               LET pose == LinkPose(rig, q)
                   c    == run.rendered[role]
               IN  /\ Compose(pose[c.mount.link], c.mount.at) = pose[rig.cameras[role].frame]
                   /\ c.rate = rig.cameras[role].rate

\* Two things the checks leave to the authors of a catalog: no two of a run's
\* overrides name one field, xacro argument or MJCF attribute (of those the
\* last is taken), and no controller has two roles.
OneTarget(e, a, b) ==
    LET kinds == {Param(e, a).target.kind, Param(e, b).target.kind}
    IN  /\ Param(e, a).target.path = Param(e, b).target.path
        /\ (kinds = {"entry"} /\ a[1] = b[1]) \/ kinds \subseteq {"xacro", "mjcf"}

OverridesApart ==
    \A i \in DOMAIN Catalogs, s \in Specs :
        Listed(Catalogs[i], s) =>
            LET e == Entries(Catalogs[i], s)
            IN  \A a, b \in {key \in DOMAIN s.params : Declared(e, key)} :
                    OneTarget(e, a, b) => a = b

RolesApart ==
    \A i \in DOMAIN Catalogs : \A robot \in Catalogs[i]["robot"] :
        \A a, b \in DOMAIN robot.roles : a # b => robot.roles[a] \cap robot.roles[b] = {}

\* Whatever image a container came from, its launch starts only a scenario
\* that holds together, on a backend that robot runs on.
StartedIsValid ==
    Started =>
        /\ ScenarioCheck(ScenarioOf(run.entries.scenario))
        /\ run.entries.backend.name \in run.robot.supported
        /\ run.entries.controller.scenarios # {} =>
             run.entries.scenario.name \in run.entries.controller.scenarios

\* Every override reaches what its tunable names and nothing the launch owns.
OverridesKept == OverridesTake /\ OwnedKept

\* Only what holds together starts, with every role the controller needs.
StartsWhole == TypeOK /\ StartedIsValid /\ RolesReady

\* The world that runs is the one judged, and its nodes see it as it is.
WorldTrue == BuiltAsJudged /\ Wired /\ CamerasTrue
=============================================================================
