------------------------------ MODULE Tunables ------------------------------
(***************************************************************************)
(* Run params: the tunables a catalog entry declares, and the values a run *)
(* may give them.  The image's rules are fm_sim_bringup/params.py; the sim *)
(* agent, outside the image, keeps its own copy of the value check         *)
(* (fm_sim_agent/params.py), so both are here.                             *)
(*                                                                         *)
(* A value is [t, v]: its JSON type and its numbers, a scalar being a      *)
(* sequence of one.  A declaration is [type, items, enum, low, high,       *)
(* length, ordered, default, backends, target]; a target is                *)
(* [kind, path, node, param], path and param being sequences of names.     *)
(***************************************************************************)
EXTENDS Integers, Sequences, FiniteSets, SequencesExt

Refused == [t |-> "refused", v |-> << >>]

\* A number of a kind: a bool is neither, an int is also a float.
IsNumber(x, kind) == x.t = "int" \/ (kind = "float" /\ x.t = "float")

\* A float tunable takes an int and holds a float: ROS refuses an int there.
Normalised(p, x) ==
    IF x.t = "int" /\ p.type = "float" THEN [x EXCEPT !.t = "float"] ELSE x

Within(p, x) == \A i \in DOMAIN x.v : p.low <= x.v[i] /\ x.v[i] <= p.high

Ascending(x) == \A i \in 1..(Len(x.v) - 1) : x.v[i] <= x.v[i + 1]

\* The launch's check of one value: what it is worth, or Refused.
CheckValue(p, x) ==
    LET fits == CASE p.type = "bool"  -> x.t = "bool"
                  [] p.type = "enum"  -> x.t = "str" /\ x.v[1] \in p.enum
                  [] p.type = "array" -> /\ x.t = "list" /\ Len(x.v) = p.length
                                         /\ Within(p, x)
                                         /\ p.ordered => Ascending(x)
                  [] OTHER            -> IsNumber(x, p.type) /\ Within(p, x)
    IN  IF fits THEN Normalised(p, x) ELSE Refused

\* The agent's copy.  It trusts no catalog: a declaration with no bounds, or
\* of no type it knows, takes no value.
Bounded(p) == p.low \in Int /\ p.high \in Int

AgentCheckValue(p, x) ==
    LET plain  == \/ p.type = "bool" /\ x.t = "bool"
                  \/ p.type = "enum" /\ x.t = "str" /\ x.v[1] \in p.enum
        list   == /\ p.type = "array" /\ Bounded(p)
                  /\ x.t = "list" /\ Len(x.v) = p.length /\ Within(p, x)
                  /\ p.ordered => Ascending(x)
        number == /\ p.type \in {"int", "float"} /\ Bounded(p)
                  /\ IsNumber(x, p.type) /\ Within(p, x)
    IN  IF plain \/ list \/ number THEN Normalised(p, x) ELSE Refused

-----------------------------------------------------------------------------
(* What an entry may declare.                                              *)

\* Parameters no tunable may set on any node (any that ends in _topic among
\* them), and those run.launch.py owns on the nodes it starts itself.
GuardedParams ==
    {"use_sim_time", "sim_only", "engage_on_start", "command", "observation", "enable",
     "status", "checkpoint", "policy_type", "robot_profile", "robot_description",
     "robot_description_semantic", "robot_description_kinematics", "some_topic"}
ScenarioOwned == {"scenario", "seed", "backend", "timeout_s", "use_sim_time"}
CameraOwned == {"role", "cameras_file", "render_topic", "depth_render_topic", "seed",
                "use_sim_time"}

\* Mutant: the scenario node's timeout is not listed as the launch's own.
GuardedForgetsTimeout(node, param) ==
    \/ \E i \in DOMAIN param : param[i] \in GuardedParams
    \/ node[1] = "scenario" /\ param[1] \in ScenarioOwned \ {"timeout_s"}
    \/ node[1] = "camera" /\ param[1] \in CameraOwned

Guarded(node, param) ==
    \/ \E i \in DOMAIN param : param[i] \in GuardedParams
    \/ node[1] = "scenario" /\ param[1] \in ScenarioOwned
    \/ node[1] = "camera" /\ param[1] \in CameraOwned

\* Whether two targets set one ROS param, or one inside the other.
Overlapping(a, b) ==
    /\ a.node = b.node
    /\ IsPrefix(a.param, b.param) \/ IsPrefix(b.param, a.param)

IdentityFields == {"name", "shape", "static", "type", "object", "region"}
MjcfBackends == {"mujoco"}

\* The value an entry target's path leads to in an entry, or Refused where it
\* leads nowhere: the entry's fields are named by their paths.
EntryValue(entry, path) ==
    IF path \in DOMAIN entry.fields THEN entry.fields[path] ELSE Refused

\* One declaration, whose target no other of the entry's may overlap.
CheckParam(entry, name) ==
    LET p      == entry.params[name]
        target == p.target
    IN  /\ p.type \in {"float", "int", "array"} => p.low <= p.high
        /\ CheckValue(p, p.default) # Refused
        /\ target.kind = "entry" =>
             /\ Last(target.path) \notin IdentityFields
             /\ EntryValue(entry, target.path) = CheckValue(p, p.default)
        /\ target.kind = "ros_param" =>
             /\ ~Guarded(target.node, target.param)
             /\ \A other \in DOMAIN entry.params \ {name} :
                    entry.params[other].target.kind = "ros_param" =>
                        ~Overlapping(entry.params[other].target, target)
        /\ target.kind = "mjcf" => p.backends # {} /\ p.backends \subseteq MjcfBackends

CheckParams(entry) == \A name \in DOMAIN entry.params : CheckParam(entry, name)
=============================================================================
