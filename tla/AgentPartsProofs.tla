--------------------------- MODULE AgentPartsProofs ---------------------------
(***************************************************************************)
(* Proofs about the agent's parts: of RunRules, for any catalogs the schema *)
(* lets through, any specs, and any number of images pulled between the    *)
(* agent's reading and the container's start; and of the parts beside it,  *)
(* each by the inductive invariant of its own module.                     *)
(***************************************************************************)
EXTENDS AgentParts, FiniteSetTheorems, TLAPS

-----------------------------------------------------------------------------
(* Values.                                                                 *)

(* A value the agent has normalised is one it would leave as it is. *)
LEMMA NormalIsNormal ==
    ASSUME NEW p, NEW x, IsValue(x)
    PROVE  LET y == Normalised(p, x)
           IN  /\ y.v = x.v
               /\ y.t \in {"bool", "str", "list", "int", "float"}
               /\ p.type \notin {"float"} => y = x
               /\ Normalised(p, y) = y
               /\ IsNumber(x, p.type) => IsNumber(y, p.type)
<1>1. x = [t |-> x.t, v |-> x.v] /\ x.t \in {"bool", "str", "list", "int", "float"}
  BY DEF IsValue
<1>2. CASE x.t = "int" /\ p.type = "float"
  <2> DEFINE y == [t |-> "float", v |-> x.v]
  <2>1. Normalised(p, x) = y
    BY <1>1, <1>2 DEF Normalised
  <2>2. y.t = "float" /\ y.v = x.v
    OBVIOUS
  <2>3. Normalised(p, y) = y
    BY <2>2 DEF Normalised
  <2> QED
    BY <1>2, <2>1, <2>2, <2>3 DEF IsNumber
<1>3. CASE ~(x.t = "int" /\ p.type = "float")
  <2>1. Normalised(p, x) = x
    BY <1>3 DEF Normalised
  <2> QED
    BY <1>1, <2>1
<1> QED
  BY <1>2, <1>3

(* The launch takes what the agent has taken, and for the same value. *)
LEMMA ValueKept ==
    ASSUME NEW p, NEW x, IsValue(x), AgentCheckValue(p, x) # Refused
    PROVE  /\ CheckValue(p, AgentCheckValue(p, x)) = AgentCheckValue(p, x)
           /\ CheckValue(p, AgentCheckValue(p, x)) # Refused
<1> DEFINE y == Normalised(p, x)
<1>1. AgentCheckValue(p, x) = y
  BY DEF AgentCheckValue
<1>2. /\ y.v = x.v /\ Normalised(p, y) = y
      /\ p.type # "float" => y = x
      /\ IsNumber(x, p.type) => IsNumber(y, p.type)
  BY NormalIsNormal
<1>3. y # Refused
  BY <1>1
<1> HIDE DEF y
<1>4. CheckValue(p, y) = y
  <2>1. CASE p.type = "bool"
    <3>1. y = x /\ x.t = "bool"
      BY <1>2, <2>1 DEF AgentCheckValue
    <3> QED
      BY <1>2, <2>1, <3>1 DEF CheckValue
  <2>2. CASE p.type = "enum"
    <3>1. y = x /\ x.t = "str" /\ x.v[1] \in p.enum
      BY <1>2, <2>2 DEF AgentCheckValue
    <3> QED
      BY <1>2, <2>2, <3>1 DEF CheckValue
  <2>3. CASE p.type = "array"
    <3>1. /\ y = x /\ x.t = "list" /\ Len(x.v) = p.length /\ Within(p, x)
          /\ p.ordered => Ascending(x)
      BY <1>2, <2>3 DEF AgentCheckValue
    <3> QED
      BY <1>2, <2>3, <3>1 DEF CheckValue
  <2>4. CASE p.type \in {"int", "float"}
    <3>1. IsNumber(x, p.type) /\ Within(p, x)
      BY <2>4 DEF AgentCheckValue
    <3>2. IsNumber(y, p.type) /\ Within(p, y)
      BY <1>2, <3>1 DEF Within
    <3> QED
      BY <1>2, <2>4, <3>2 DEF CheckValue
  <2>5. p.type \in {"bool", "enum", "array", "int", "float"}
    BY DEF AgentCheckValue
  <2> QED
    BY <2>1, <2>2, <2>3, <2>4, <2>5
<1> QED
  BY <1>1, <1>3, <1>4

-----------------------------------------------------------------------------
(* Entries.                                                                *)

LEMMA EntryListed ==
    ASSUME NEW img, NEW s, NEW d \in Dimensions, Listed(img, s)
    PROVE  Entries(img, s)[d] \in img[d] /\ Entries(img, s)[d].name = s[d]
<1>1. PICK entry \in img[d] : entry.name = s[d]
  BY DEF Listed, Names
<1>2. Entries(img, s)[d] = CHOOSE en \in img[d] : en.name = s[d]
  BY DEF Entries
<1> QED
  BY <1>1, <1>2

(* Entries that differ at most in whether the backend is available. *)
Alike(e, f) ==
    /\ e.robot = f.robot /\ e.scenario = f.scenario /\ e.controller = f.controller
    /\ e.backend.name = f.backend.name /\ e.backend.params = f.backend.params

(* What the agent marks unavailable is the same entry otherwise. *)
LEMMA MarkedEntry ==
    ASSUME NEW b, {"name", "available", "params", "fields"} \subseteq DOMAIN b
    PROVE  LET m == [b EXCEPT !.available = FALSE]
           IN  m.name = b.name /\ m.params = b.params /\ ~m.available
  OBVIOUS

LEMMA MarkedAlike ==
    ASSUME NEW img, NEW s, NEW h, IsImage(img), Listed(MarkIsaac(img, h), s)
    PROVE  /\ Listed(img, s)
           /\ Available(MarkIsaac(img, h), s) => Available(img, s)
           /\ Alike(Entries(MarkIsaac(img, h), s), Entries(img, s))
<1> DEFINE mark(b) == IF b.name = "isaac" THEN [b EXCEPT !.available = FALSE] ELSE b
           m == MarkIsaac(img, h)
           e == Entries(m, s)
           f == Entries(img, s)
<1>0. CASE m = img
  BY <1>0 DEF Alike
<1>1. CASE ~h
  <2>1. /\ m["backend"] = {mark(b) : b \in img["backend"]}
        /\ \A d \in {"robot", "scenario", "controller"} : m[d] = img[d]
    BY <1>1 DEF MarkIsaac, IsImage, Dimensions
  <2>2. \A b \in img["backend"] :
          mark(b).name = b.name /\ mark(b).params = b.params /\ (mark(b).available => b.available)
    BY MarkedEntry DEF IsImage, IsEntry, Dimensions
  <2>a. \A d \in Dimensions : \E entry \in m[d] : entry.name = s[d]
    BY DEF Listed, Names
  <2> HIDE DEF m, mark
  <2>4. ASSUME NEW d \in {"robot", "scenario", "controller"} PROVE e[d] = f[d]
    <3>1. m[d] = img[d]
      BY <2>1
    <3>2. /\ e[d] = CHOOSE entry \in m[d] : entry.name = s[d]
          /\ f[d] = CHOOSE entry \in img[d] : entry.name = s[d]
      BY DEF Entries, Dimensions
    <3> QED
      BY <3>1, <3>2
  <2>3. Listed(img, s)
    <3>1. \A d \in {"robot", "scenario", "controller"} : \E entry \in img[d] : entry.name = s[d]
      BY <2>1, <2>a DEF Dimensions
    <3>2. \E entry \in img["backend"] : entry.name = s["backend"]
      BY <2>1, <2>2, <2>a DEF Dimensions
    <3> QED
      BY <3>1, <3>2 DEF Listed, Names, Dimensions
  <2> USE DEF m
  <2>5. f["backend"] \in img["backend"] /\ f["backend"].name = s["backend"]
    BY <2>3, EntryListed DEF Dimensions
  <2>6. e["backend"] \in m["backend"] /\ e["backend"].name = s["backend"]
    BY EntryListed DEF Dimensions
  <2>7. PICK b \in img["backend"] : e["backend"] = mark(b)
    BY <2>1, <2>6
  <2>8. b = f["backend"]
    BY <2>2, <2>5, <2>6, <2>7 DEF IsImage, Dimensions
  <2>9. e["backend"].name = f["backend"].name /\ e["backend"].params = f["backend"].params
        /\ (e["backend"].available => f["backend"].available)
    BY <2>2, <2>7, <2>8
  <2> QED
    BY <2>3, <2>4, <2>9 DEF Available, Alike, Dimensions
<1> QED
  BY <1>0, <1>1 DEF MarkIsaac

(* The agent's checks tell no such entries apart. *)
LEMMA AlikeChecked ==
    ASSUME NEW e, NEW f, Alike(e, f)
    PROVE  /\ CombinationRefused(e) <=> CombinationRefused(f)
           /\ Broadcasters(e.robot) = Broadcasters(f.robot)
           /\ \A key : key[1] \in Dimensions =>
                /\ Declared(e, key) <=> Declared(f, key)
                /\ Param(e, key) = Param(f, key)
<1>1. CombinationRefused(e) <=> CombinationRefused(f)
  BY DEF Alike, CombinationRefused
<1>2. Broadcasters(e.robot) = Broadcasters(f.robot)
  BY DEF Alike
<1>3. ASSUME NEW key, key[1] \in Dimensions PROVE e[key[1]].params = f[key[1]].params
  BY <1>3 DEF Alike, Dimensions
<1> QED
  BY <1>1, <1>2, <1>3 DEF Declared, Param

-----------------------------------------------------------------------------
(* What the agent has checked of a spec it accepts.                        *)

Accepted(e, s) ==
    /\ ~CombinationRefused(e) /\ Broadcasters(e.robot) # {}
    /\ \A key \in DOMAIN s.params : AgentTakes(e, key, s.params[key])
    /\ ~RosClash(e, s.params)

LEMMA UpAccepts ==
    ASSUME NEW img, NEW s, NEW h, IsImage(img), IsSpec(s),
           UpAnswer(MarkIsaac(img, h), s) = "up"
    PROVE  LET e == Entries(MarkIsaac(img, h), s)
               f == Entries(img, s)
           IN  /\ Listed(img, s) /\ Available(img, s) /\ Alike(e, f) /\ Accepted(f, s)
               /\ Checked(e, s.params) = Checked(f, s.params)
               /\ RosParams(e, Checked(e, s.params)) = RosParams(f, Checked(f, s.params))
<1> DEFINE m == MarkIsaac(img, h)
           e == Entries(m, s)
           f == Entries(img, s)
<1>1. /\ Listed(m, s) /\ Available(m, s)
      /\ ~CombinationRefused(e) /\ Broadcasters(e.robot) # {}
      /\ \A key \in DOMAIN s.params : AgentTakes(e, key, s.params[key])
      /\ ~RosClash(e, s.params)
  BY DEF UpAnswer
<1>2. Listed(img, s) /\ Available(img, s) /\ Alike(e, f)
  BY <1>1, MarkedAlike
<1> HIDE DEF e, f
<1>3. \A key \in DOMAIN s.params : Param(e, key) = Param(f, key) /\ (Declared(e, key) <=> Declared(f, key))
  BY <1>2, AlikeChecked DEF IsSpec
<1>4. ~CombinationRefused(f) /\ Broadcasters(f.robot) # {}
  BY <1>1, <1>2, AlikeChecked
<1>5. \A key \in DOMAIN s.params : AgentTakes(f, key, s.params[key])
  BY <1>1, <1>2, <1>3 DEF AgentTakes, Alike
<1>6. \A ov : DOMAIN ov = DOMAIN s.params => RosKeys(e, ov) = RosKeys(f, ov)
  BY <1>3 DEF RosKeys
<1>7. ~RosClash(f, s.params)
  BY <1>1, <1>3, <1>6 DEF RosClash, RosKeys
<1>8. Checked(e, s.params) = Checked(f, s.params)
  BY <1>3 DEF Checked
<1>9. ASSUME NEW ov, DOMAIN ov = DOMAIN s.params PROVE RosParams(e, ov) = RosParams(f, ov)
  <2>1. \A key \in RosKeys(f, ov) : Param(e, key) = Param(f, key)
    BY <1>3, <1>9 DEF RosKeys
  <2>2. RosKeys(e, ov) = RosKeys(f, ov)
    BY <1>6, <1>9
  <2>3. {At(Param(e, key).target) : key \in RosKeys(f, ov)}
          = {At(Param(f, key).target) : key \in RosKeys(f, ov)}
    BY <2>1
  <2> DEFINE Of(at) == CHOOSE key \in RosKeys(f, ov) : At(Param(f, key).target) = at
             Ats == {At(Param(f, key).target) : key \in RosKeys(f, ov)}
  <2>4. ASSUME NEW at
        PROVE  (CHOOSE key \in RosKeys(f, ov) : At(Param(e, key).target) = at) = Of(at)
    <3> DEFINE A(key) == key \in RosKeys(f, ov) /\ At(Param(e, key).target) = at
               B(key) == key \in RosKeys(f, ov) /\ At(Param(f, key).target) = at
    <3>1. \A key : A(key) <=> B(key)
      BY <2>1
    <3>2. (CHOOSE key : A(key)) = (CHOOSE key : B(key))
      <4> HIDE DEF A, B
      <4> QED
        BY <3>1, Zenon
    <3> QED
      BY <3>2
  <2>5. RosParams(f, ov) = [at \in Ats |-> ov[Of(at)]]
    BY DEF RosParams
  <2>6. RosParams(e, ov) =
          [at \in Ats |-> ov[CHOOSE key \in RosKeys(f, ov) : At(Param(e, key).target) = at]]
    BY <2>2, <2>3 DEF RosParams
  <2>7. RosParams(e, ov) = [at \in Ats |-> ov[Of(at)]]
    <3> HIDE DEF Of, Ats
    <3> QED
      BY <2>4, <2>6
  <2> QED
    BY <2>5, <2>7
<1>10. DOMAIN Checked(f, s.params) = DOMAIN s.params
  BY DEF Checked
<1>11. RosParams(e, Checked(e, s.params)) = RosParams(f, Checked(f, s.params))
  BY <1>8, <1>9, <1>10
<1> QED
  BY <1>2, <1>4, <1>5, <1>7, <1>8, <1>11 DEF Accepted, e, f

-----------------------------------------------------------------------------
(* The launch of what the agent has checked, in the image it checked.      *)

LEMMA CheckedTaken ==
    ASSUME NEW e, NEW s, IsSpec(s), Accepted(e, s), NEW key \in DOMAIN s.params
    PROVE  LET x == Checked(e, s.params)[key]
           IN  /\ LaunchTakes(e, key, x)
               /\ CheckValue(Param(e, key), x) = x
               /\ x = AgentCheckValue(Param(e, key), s.params[key])
<1>1. AgentTakes(e, key, s.params[key]) /\ IsValue(s.params[key])
  BY DEF Accepted, IsSpec
<1>2. Checked(e, s.params)[key] = AgentCheckValue(Param(e, key), s.params[key])
  BY DEF Checked
<1> QED
  BY <1>1, <1>2, ValueKept DEF AgentTakes, LaunchTakes

LEMMA ListedLoads ==
    ASSUME NEW img, NEW s, Lists(img), Listed(img, s), Available(img, s)
    PROVE  Loads(img, s)
BY EntryListed DEF Loads, Lists

LEMMA LaunchOf ==
    ASSUME NEW img, NEW s, NEW given
    PROVE  /\ Launch(img, s, given).refused = LaunchRefused(img, s, given.json)
           /\ Launch(img, s, given).refused = "none" =>
                Launch(img, s, given) = Launched(Entries(img, s), given.json)
<1>1. CASE LaunchRefused(img, s, given.json) = "none"
  <2>1. Launch(img, s, given) = Launched(Entries(img, s), given.json)
    BY <1>1 DEF Launch
  <2>2. Launched(Entries(img, s), given.json).refused = "none"
    BY DEF Launched
  <2> QED
    BY <1>1, <2>1, <2>2
<1>2. CASE LaunchRefused(img, s, given.json) # "none"
  <2>1. Launch(img, s, given) = [refused |-> LaunchRefused(img, s, given.json)]
    BY <1>2 DEF Launch
  <2> QED
    BY <1>2, <2>1
<1> QED
  BY <1>1, <1>2

(* The rules of the launch, by what it refuses. *)
LEMMA LaunchRefusals ==
    ASSUME NEW img, NEW s, NEW ov
    PROVE  LET e == Entries(img, s)
               refused == LaunchRefused(img, s, ov)
           IN  /\ Loads(img, s) => refused # "catalog"
               /\ refused \in {"catalog", "backend", "profile", "scenario", "override", "entry",
                               "clash", "role", "requires", "world", "cameras", "none"}
               /\ refused = "backend" => e.backend.name \notin e.robot.supported
               /\ refused = "profile" => e.controller.launch /\ ~e.robot.profile
               /\ refused = "scenario" =>
                    e.controller.scenarios # {} /\ e.scenario.name \notin e.controller.scenarios
               /\ refused = "override" => \E key \in DOMAIN ov : ~LaunchTakes(e, key, ov[key])
               /\ refused = "role" =>
                    ToSet(e.controller.activate) \ (DOMAIN e.robot.roles \cup DOMAIN e.robot.launches) # {}
               /\ refused = "requires" =>
                    \E role \in ToSet(e.controller.activate) :
                        RoleOf(e.robot, role) \ DOMAIN e.robot.roles # {}
<1> DEFINE e == Entries(img, s)
<1>1. /\ Resolve(e) \in {"backend", "profile", "scenario", "none"}
      /\ Resolve(e) = "backend" => e.backend.name \notin e.robot.supported
      /\ Resolve(e) = "profile" => e.controller.launch /\ ~e.robot.profile
      /\ Resolve(e) = "scenario" =>
           e.controller.scenarios # {} /\ e.scenario.name \notin e.controller.scenarios
  BY DEF Resolve
<1>2. /\ OverridesRefused(img, e, ov) \in {"override", "entry", "none"}
      /\ OverridesRefused(img, e, ov) = "override" =>
           \E key \in DOMAIN ov : ~LaunchTakes(e, key, ov[key])
  BY DEF OverridesRefused
<1>3. /\ RolesRefused(e.robot, e.controller) \in {"clash", "role", "requires", "none"}
      /\ RolesRefused(e.robot, e.controller) = "role" =>
           ToSet(e.controller.activate) \ (DOMAIN e.robot.roles \cup DOMAIN e.robot.launches) # {}
      /\ RolesRefused(e.robot, e.controller) = "requires" =>
           \E role \in ToSet(e.controller.activate) :
               RoleOf(e.robot, role) \ DOMAIN e.robot.roles # {}
  BY DEF RolesRefused
<1> HIDE DEF e
<1> QED
  BY <1>1, <1>2, <1>3 DEF LaunchRefused, e

(* The launch refuses for its own reasons only. *)
LEMMA AcceptedLaunches ==
    ASSUME NEW img, NEW s, IsSpec(s), Loads(img, s), Accepted(Entries(img, s), s)
    PROVE  LaunchRefused(img, s, Checked(Entries(img, s), s.params))
             \in {"none", "clash", "entry", "world", "cameras"}
<1> DEFINE e == Entries(img, s)
           ov == Checked(e, s.params)
<1>1. \A key \in DOMAIN ov : LaunchTakes(e, key, ov[key])
  <2>1. DOMAIN ov = DOMAIN s.params
    BY DEF Checked
  <2> QED
    BY <2>1, CheckedTaken
<1>2. ~CombinationRefused(e)
  BY DEF Accepted
<1> HIDE DEF e, ov
<1> QED
  BY <1>1, <1>2, LaunchRefusals DEF CombinationRefused, e, ov

(* And refuses every combination the agent refuses. *)
LEMMA CombinationsRefused ==
    ASSUME NEW img, NEW s, NEW h, IsImage(img), Lists(img),
           UpAnswer(MarkIsaac(img, h), s) = "combination"
    PROVE  Launch(img, s, NoFiles).refused
             \in {"backend", "profile", "scenario", "role", "requires", "clash"}
<1> DEFINE e == Entries(img, s)
           ov == NoFiles.json
<1>1. /\ Listed(MarkIsaac(img, h), s) /\ Available(MarkIsaac(img, h), s)
      /\ CombinationRefused(Entries(MarkIsaac(img, h), s))
  BY DEF UpAnswer
<1>2. Loads(img, s) /\ CombinationRefused(e)
  BY <1>1, MarkedAlike, AlikeChecked, ListedLoads
<1>3. DOMAIN ov = {}
  BY DEF NoFiles
<1>4. OverridesRefused(img, e, ov) = "none"
  <2> HIDE DEF e, ov
  <2> QED
    BY <1>3 DEF OverridesRefused, EntryKeys
<1>5. CASE Resolve(e) # "none"
  <2>1. LaunchRefused(img, s, ov) = Resolve(e) /\ Resolve(e) \in {"backend", "profile", "scenario"}
    <3> HIDE DEF ov
    <3> QED
      BY <1>2, <1>5 DEF LaunchRefused, Resolve
  <2> QED
    BY <2>1, LaunchOf
<1>6. CASE Resolve(e) = "none"
  <2>1. RolesRefused(e.robot, e.controller) \in {"clash", "role", "requires"}
    <3> HIDE DEF e
    <3> QED
      BY <1>2, <1>6 DEF Resolve, CombinationRefused, RolesRefused
  <2>2. LaunchRefused(img, s, ov) = RolesRefused(e.robot, e.controller)
    <3> HIDE DEF ov
    <3> QED
      BY <1>2, <1>4, <1>6, <2>1 DEF LaunchRefused
  <2> QED
    BY <2>1, <2>2, LaunchOf
<1> QED
  BY <1>5, <1>6

-----------------------------------------------------------------------------
(* The inductive invariant: what was answered and written follows from the *)
(* image that was read, and what was started from the one it came from.    *)

(* The catalog the agent has read, of an image that lists. *)
ReadInv ==
    /\ spec \in Specs /\ isaacHost \in BOOLEAN
    /\ doc # << >> => doc = <<doc[1]>> /\ doc[1] \in DOMAIN Catalogs /\ Lists(Catalogs[doc[1]])

Read == MarkIsaac(Catalogs[doc[1]], isaacHost)

AnswerInv ==
    /\ answer \in {"none", "invalid_spec", "catalog_unavailable", "unknown_entry",
                   "unavailable_entry", "combination", "param", "up"}
    /\ answer \in {"combination", "up"} => doc # << >> /\ UpAnswer(Read, spec) = answer

FilesInv ==
    LET e == Entries(Read, spec)
    IN  files = IF answer = "up"
                THEN [json |-> Checked(e, spec.params),
                      yaml |-> RosParams(e, Checked(e, spec.params))]
                ELSE NoFiles

FromInv ==
    /\ from = << >> => run = NotStarted
    /\ from # << >> =>
         /\ answer = "up" /\ from = <<from[1]>> /\ from[1] \in DOMAIN Catalogs
         /\ run = Launch(Catalogs[from[1]], spec, files)

RulesInv ==
    /\ image \in DOMAIN Catalogs /\ pulls \in 0..MaxPulls
    /\ ReadInv /\ AnswerInv /\ FilesInv /\ FromInv

LEMMA RulesStart == Init => RulesInv
BY RunRulesAssumption DEF Init, RulesInv, ReadInv, AnswerInv, FilesInv, FromInv

LEMMA RulesStep == RulesInv /\ [Next]_vars => RulesInv'
<1> SUFFICES ASSUME RulesInv, [Next]_vars PROVE RulesInv'
  OBVIOUS
<1> USE DEF RulesInv
<1>1. CASE Repull
  <2>1. UNCHANGED <<isaacHost, spec, doc, answer, files, from, run>>
    BY <1>1 DEF Repull
  <2>2. image' \in DOMAIN Catalogs /\ pulls' \in 0..MaxPulls
    BY <1>1, RunRulesAssumption DEF Repull
  <2> QED
    BY <2>1, <2>2 DEF ReadInv, AnswerInv, FilesInv, FromInv, Read
<1>2. CASE ReadCatalog
  <2>1. /\ answer = "none" /\ doc = << >> /\ UNCHANGED <<image, pulls, isaacHost, spec, files, from, run>>
        /\ answer' \in {"none", "invalid_spec", "catalog_unavailable"}
        /\ doc' # << >> => doc' = <<image>> /\ Lists(Catalogs[image])
    BY <1>2 DEF ReadCatalog
  <2>2. ReadInv'
    BY <2>1 DEF ReadInv
  <2>3. AnswerInv'
    BY <2>1 DEF AnswerInv
  <2>4. FilesInv'
    BY <2>1 DEF FilesInv
  <2>5. FromInv'
    BY <2>1 DEF FromInv
  <2> QED
    BY <2>1, <2>2, <2>3, <2>4, <2>5
<1>3. CASE Up
  <2>1. /\ answer = "none" /\ doc # << >> /\ answer' = UpAnswer(Read, spec)
        /\ files' = IF answer' = "up"
                    THEN [json |-> Checked(Entries(Read, spec), spec.params),
                          yaml |-> RosParams(Entries(Read, spec),
                                             Checked(Entries(Read, spec), spec.params))]
                    ELSE files
        /\ UNCHANGED <<image, pulls, isaacHost, spec, doc, from, run>>
    BY <1>3 DEF Up, Read
  <2>2. UpAnswer(Read, spec) \in {"unknown_entry", "unavailable_entry", "combination",
                                 "catalog_unavailable", "param", "up"}
    BY DEF UpAnswer
  <2>3. Read' = Read
    BY <2>1 DEF Read
  <2>4. ReadInv'
    BY <2>1 DEF ReadInv
  <2>5. AnswerInv'
    BY <2>1, <2>2, <2>3 DEF AnswerInv
  <2>6. FilesInv'
    BY <2>1, <2>3 DEF FilesInv
  <2>7. FromInv'
    BY <2>1 DEF FromInv
  <2> QED
    BY <2>1, <2>4, <2>5, <2>6, <2>7
<1>4. CASE Start
  <2>1. /\ answer = "up" /\ from' = <<image>> /\ run' = Launch(Catalogs[image], spec, files)
        /\ UNCHANGED <<image, pulls, isaacHost, spec, doc, answer, files>>
    BY <1>4 DEF Start
  <2>2. ReadInv' /\ AnswerInv' /\ FilesInv'
    BY <2>1 DEF ReadInv, AnswerInv, FilesInv, Read
  <2>3. FromInv'
    BY <2>1 DEF FromInv
  <2> QED
    BY <2>1, <2>2, <2>3
<1>5. CASE UNCHANGED vars
  BY <1>5 DEF vars, ReadInv, AnswerInv, FilesInv, FromInv, Read
<1> QED
  BY <1>1, <1>2, <1>3, <1>4, <1>5 DEF Next, Done

THEOREM RulesHold == Spec => []RulesInv
<1> QED
  BY RulesStart, RulesStep, PTL DEF Spec

-----------------------------------------------------------------------------
(* What a run that was accepted, or started, rests on. *)

(* The agent has accepted the spec, on the entries of the image it read. *)
LEMMA UpWasAccepted ==
    ASSUME RulesInv, answer = "up"
    PROVE  LET img == Catalogs[doc[1]]
               e == Entries(img, spec)
           IN  /\ IsImage(img) /\ IsSpec(spec) /\ Lists(img) /\ doc[1] \in DOMAIN Catalogs
               /\ Listed(img, spec) /\ Loads(img, spec) /\ Accepted(e, spec)
               /\ files.json = Checked(e, spec.params)
               /\ files.yaml = RosParams(e, Checked(e, spec.params))
<1> DEFINE img == Catalogs[doc[1]]
<1>1. IsImage(img) /\ IsSpec(spec) /\ Lists(img) /\ UpAnswer(MarkIsaac(img, isaacHost), spec) = "up"
      /\ doc[1] \in DOMAIN Catalogs
  BY CatalogsAssumption DEF RulesInv, ReadInv, AnswerInv, Read
<1>2. /\ files.json = Checked(Entries(Read, spec), spec.params)
      /\ files.yaml = RosParams(Entries(Read, spec), Checked(Entries(Read, spec), spec.params))
  BY DEF RulesInv, FilesInv
<1> QED
  BY <1>1, <1>2, UpAccepts, ListedLoads DEF Read

(* The agent's copy of the launch's rules: with one image for both, the launch
   refuses nothing the agent could have refused, and everything it did refuse as a
   combination (agent.py's combination_refusal and params.py, against run.py and
   fm_sim_bringup's params.py). *)
THEOREM RulesAreMirrored == Spec => []MirrorAgrees
<1>1. RulesInv => MirrorAgrees
  <2> SUFFICES ASSUME RulesInv PROVE MirrorAgrees
    OBVIOUS
  <2>1. ASSUME SameImage PROVE run.refused \in {"none", "clash", "entry", "world", "cameras"}
    <3>1. answer = "up" /\ run = Launch(Catalogs[doc[1]], spec, files)
      BY <2>1 DEF SameImage, RulesInv, FromInv
    <3> QED
      BY <3>1, UpWasAccepted, AcceptedLaunches, LaunchOf
  <2>2. ASSUME answer = "combination"
        PROVE  Launch(Catalogs[doc[1]], spec, NoFiles).refused
                 \in {"backend", "profile", "scenario", "role", "requires", "clash"}
    <3>1. /\ IsImage(Catalogs[doc[1]]) /\ Lists(Catalogs[doc[1]])
          /\ UpAnswer(MarkIsaac(Catalogs[doc[1]], isaacHost), spec) = "combination"
      BY <2>2, CatalogsAssumption, SMTT(30) DEF RulesInv, ReadInv, AnswerInv, Read
    <3> QED
      BY <3>1, CombinationsRefused
  <2> QED
    BY <2>1, <2>2 DEF MirrorAgrees
<1> QED
  BY <1>1, RulesHold, PTL

-----------------------------------------------------------------------------
(* Where an override goes.                                                 *)

(* A tunable a spec overrides is one its entry was checked with. *)
LEMMA OverrideDeclared ==
    ASSUME NEW img, NEW s, IsImage(img), IsSpec(s), Lists(img), Listed(img, s),
           Accepted(Entries(img, s), s), NEW key \in DOMAIN s.params
    PROVE  LET entry  == Entries(img, s)[key[1]]
               target == Param(Entries(img, s), key).target
           IN  /\ key[1] \in Dimensions /\ Declared(Entries(img, s), key)
               /\ IsEntry(key[1], entry) /\ CheckParam(entry, key[2])
               /\ Param(Entries(img, s), key) = entry.params[key[2]]
               /\ target.kind \in {"ros_param", "entry", "xacro", "mjcf"}
               /\ target.kind = "ros_param" => target.param \in Seq(STRING)
<1> DEFINE e == Entries(img, s)
           entry == e[key[1]]
<1>1. key[1] \in Dimensions
  BY DEF IsSpec
<1>2. entry \in img[key[1]]
  BY <1>1, EntryListed
<1>3. Declared(e, key)
  BY DEF Accepted, AgentTakes
<1> HIDE DEF e
<1>4. key[2] \in DOMAIN entry.params /\ Param(e, key) = entry.params[key[2]]
  BY <1>3 DEF Declared, Param
<1>5. Valid(img, key[1], entry) /\ IsEntry(key[1], entry)
  BY <1>1, <1>2 DEF Lists, IsImage
<1>6. CheckParam(entry, key[2])
  BY <1>4, <1>5 DEF Valid, CheckParams
<1>7. /\ Param(e, key).target.kind \in {"ros_param", "entry", "xacro", "mjcf"}
      /\ Param(e, key).target.kind = "ros_param" => Param(e, key).target.param \in Seq(STRING)
  BY <1>4, <1>5 DEF IsEntry
<1> QED
  BY <1>1, <1>3, <1>4, <1>5, <1>6, <1>7 DEF e

(* What the agent guards covers what the launch sets on its own nodes. *)
LEMMA GuardedCoversOwned ==
    ASSUME NEW on, NEW param, ~Guarded(on, param)
    PROVE  param[1] \notin OwnedOn(on)
<1>1. /\ on[1] = "scenario" => param[1] \notin ScenarioOwned
      /\ on[1] = "camera" => param[1] \notin CameraOwned
  BY DEF Guarded
<1>2. CASE on[1] = "camera"
  BY <1>1, <1>2 DEF OwnedOn, CameraParameters, CameraOwned
<1>3. CASE on[1] = "scenario"
  BY <1>1, <1>3 DEF OwnedOn, ScenarioParameters, ScenarioOwned
<1>4. CASE on[1] \notin {"camera", "scenario"}
  BY <1>4 DEF OwnedOn
<1> QED
  BY <1>2, <1>3, <1>4

(* No override reaches a parameter the launch owns, whatever image it came from. *)
LEMMA OwnedIsKept == RulesInv => OwnedKept
<1> SUFFICES ASSUME RulesInv, NEW at \in DOMAIN files.yaml
             PROVE  at[2][1] \notin OwnedOn(at[1])
  BY DEF OwnedKept
<1>1. answer = "up"
  <2> SUFFICES ASSUME answer # "up" PROVE FALSE
    OBVIOUS
  <2>1. files = NoFiles
    BY DEF RulesInv, FilesInv
  <2> QED
    BY <2>1 DEF NoFiles
<1> DEFINE e == Entries(Catalogs[doc[1]], spec)
           ov == Checked(e, spec.params)
<1>2. files.yaml = RosParams(e, ov) /\ DOMAIN ov = DOMAIN spec.params
  BY <1>1, UpWasAccepted DEF Checked
<1>3. PICK key \in RosKeys(e, ov) : at = At(Param(e, key).target)
  <2> HIDE DEF e, ov
  <2> QED
    BY <1>2 DEF RosParams
<1>4. key \in DOMAIN spec.params /\ Param(e, key).target.kind = "ros_param"
  <2> HIDE DEF e, ov
  <2> QED
    BY <1>2, <1>3 DEF RosKeys
<1>5. CheckParam(e[key[1]], key[2]) /\ Param(e, key) = e[key[1]].params[key[2]]
  BY <1>1, <1>4, UpWasAccepted, OverrideDeclared, SMTT(60)
<1>6. ~Guarded(Param(e, key).target.node, Param(e, key).target.param)
  <2> HIDE DEF e
  <2> QED
    BY <1>4, <1>5 DEF CheckParam
<1>7. at[1] = Param(e, key).target.node /\ at[2] = Param(e, key).target.param
  BY <1>3 DEF At
<1> QED
  BY <1>6, <1>7, GuardedCoversOwned

(* An entry's fields with its overrides. *)
LEMMA PatchedFields ==
    ASSUME NEW e, NEW ov, NEW d \in Dimensions, IsEntry(d, e[d])
    PROVE  LET keys(path) == {k \in EntryKeys(e, ov, d) : Param(e, k).target.path = path}
           IN  /\ DOMAIN Patched(e, ov)[d].fields = DOMAIN e[d].fields
               /\ \A path \in DOMAIN e[d].fields :
                    IF keys(path) = {} THEN Patched(e, ov)[d].fields[path] = e[d].fields[path]
                    ELSE \E k \in keys(path) :
                            Patched(e, ov)[d].fields[path] = CheckValue(Param(e, k), ov[k])
<1> DEFINE keys(path) == {k \in EntryKeys(e, ov, d) : Param(e, k).target.path = path}
           Value(path) == IF keys(path) = {} THEN e[d].fields[path]
                          ELSE LET k == CHOOSE k \in keys(path) : TRUE
                               IN  CheckValue(Param(e, k), ov[k])
<1>1. Patched(e, ov)[d] = [e[d] EXCEPT !.fields = [path \in DOMAIN e[d].fields |-> Value(path)]]
  BY DEF Patched
<1>2. Patched(e, ov)[d].fields = [path \in DOMAIN e[d].fields |-> Value(path)]
  <2> HIDE DEF Value
  <2> QED
    BY <1>1 DEF IsEntry
<1>3. ASSUME NEW path, keys(path) # {}
      PROVE  \E k \in keys(path) : Value(path) = CheckValue(Param(e, k), ov[k])
  <2>1. (CHOOSE k \in keys(path) : TRUE) \in keys(path)
    BY <1>3
  <2> QED
    BY <1>3, <2>1
<1>4. ASSUME NEW path, keys(path) = {} PROVE Value(path) = e[d].fields[path]
  BY <1>4
<1> HIDE DEF Value, keys
<1>5. /\ DOMAIN Patched(e, ov)[d].fields = DOMAIN e[d].fields
      /\ \A path \in DOMAIN e[d].fields :
           IF keys(path) = {} THEN Patched(e, ov)[d].fields[path] = e[d].fields[path]
           ELSE \E k \in keys(path) :
                   Patched(e, ov)[d].fields[path] = CheckValue(Param(e, k), ov[k])
  BY <1>2, <1>3, <1>4
<1> QED
  BY <1>5 DEF keys

(* The three places an override ends in. *)
LEMMA OverrideTakes ==
    ASSUME OverridesApart, RulesInv, SameImage, Started, NEW key \in DOMAIN spec.params
    PROVE  LET p == Param(Entries(Catalogs[doc[1]], spec), key)
               x == AgentCheckValue(p, spec.params[key])
           IN  /\ p.target.kind = "entry" => EntryValue(run.entries[key[1]], p.target.path) = x
               /\ p.target.kind = "ros_param" =>
                    Effective(files.yaml, p.target.node, p.target.param) = x
               /\ p.target.kind \in {"xacro", "mjcf"} => run.described[p.target.path] = x
<1> DEFINE img == Catalogs[doc[1]]
           e == Entries(img, spec)
           ov == Checked(e, spec.params)
           p == Param(e, key)
           x == AgentCheckValue(p, spec.params[key])
<1>1. answer = "up" /\ run = Launch(img, spec, files)
  BY DEF SameImage, RulesInv, FromInv
<1>2. /\ IsImage(img) /\ IsSpec(spec) /\ Lists(img) /\ Listed(img, spec) /\ Accepted(e, spec)
      /\ doc[1] \in DOMAIN Catalogs /\ spec \in Specs
      /\ files.json = ov /\ files.yaml = RosParams(e, ov)
  BY <1>1, UpWasAccepted DEF RulesInv, ReadInv
<1>3. run = Launched(e, ov)
  BY <1>1, <1>2, LaunchOf DEF Started
<1>4. run.entries = Patched(e, ov) /\ run.described = Described(e, ov)
  <2> HIDE DEF e, ov
  <2> QED
    BY <1>3 DEF Launched
<1>5. \A k \in DOMAIN spec.params :
        /\ k[1] \in Dimensions /\ Declared(e, k) /\ IsEntry(k[1], e[k[1]])
        /\ CheckParam(e[k[1]], k[2]) /\ Param(e, k) = e[k[1]].params[k[2]]
        /\ Param(e, k).target.kind = "ros_param" => Param(e, k).target.param \in Seq(STRING)
  BY <1>2, OverrideDeclared
<1>6. DOMAIN ov = DOMAIN spec.params /\ ov[key] = x /\ CheckValue(p, ov[key]) = x
  BY <1>2, CheckedTaken DEF Checked
<1>7. \A a, b \in DOMAIN spec.params : OneTarget(e, a, b) => a = b
  BY <1>2, <1>5 DEF OverridesApart
<1> HIDE DEF e, ov, x
<1>8. ASSUME p.target.kind = "entry"
      PROVE  EntryValue(run.entries[key[1]], p.target.path) = x
  <2> DEFINE d == key[1]
             path == p.target.path
             keys == {k \in EntryKeys(e, ov, d) : Param(e, k).target.path = path}
  <2>1. path \in DOMAIN e[d].fields
    <3>1. /\ CheckValue(p, p.default) # Refused
          /\ EntryValue(e[d], path) = CheckValue(p, p.default)
      BY <1>5, <1>8 DEF CheckParam
    <3> QED
      BY <3>1, SMTT(30) DEF EntryValue
  <2>2. key \in keys
    BY <1>6, <1>8 DEF EntryKeys
  <2>3. ASSUME NEW k \in keys PROVE k = key
    <3>1. /\ k \in DOMAIN spec.params /\ k[1] = d /\ Param(e, k).target.kind = "entry"
          /\ Param(e, k).target.path = path
      BY <1>6, <2>3 DEF EntryKeys
    <3>2. OneTarget(e, k, key)
      BY <1>8, <3>1 DEF OneTarget
    <3> QED
      BY <1>7, <3>1, <3>2
  <2>4. /\ d \in Dimensions /\ IsEntry(d, e[d])
    BY <1>5
  <2>5. /\ path \in DOMAIN Patched(e, ov)[d].fields
        /\ \E k \in keys : Patched(e, ov)[d].fields[path] = CheckValue(Param(e, k), ov[k])
    BY <2>1, <2>2, <2>4, PatchedFields
  <2>6. Patched(e, ov)[d].fields[path] = x
    BY <1>6, <2>3, <2>5
  <2> QED
    BY <1>4, <2>5, <2>6 DEF EntryValue
<1>9. ASSUME p.target.kind = "ros_param"
      PROVE  Effective(files.yaml, p.target.node, p.target.param) = x
  <2> DEFINE at == At(p.target)
  <2>1. key \in RosKeys(e, ov)
    BY <1>6, <1>9 DEF RosKeys
  <2>2. at \in DOMAIN files.yaml
    BY <1>2, <2>1, SMTT(30) DEF RosParams
  <2>3. p.target.param[1] \notin OwnedOn(p.target.node)
    BY <1>5, <1>9, GuardedCoversOwned DEF CheckParam
  <2>4. ASSUME NEW k \in RosKeys(e, ov), At(Param(e, k).target) = at PROVE k = key
    <3>1. Param(e, k).target.node = p.target.node /\ Param(e, k).target.param = p.target.param
      BY <2>4 DEF At
    <3>2. IsPrefix(p.target.param, p.target.param)
      BY <1>5, <1>9 DEF IsPrefix
    <3>3. Overlapping(Param(e, k).target, p.target)
      BY <3>1, <3>2 DEF Overlapping
    <3>4. k \in RosKeys(e, spec.params) /\ key \in RosKeys(e, spec.params)
      BY <1>6, <2>1, <2>4 DEF RosKeys
    <3> QED
      BY <1>2, <3>3, <3>4 DEF Accepted, RosClash
  <2>5. files.yaml[at] = ov[CHOOSE k \in RosKeys(e, ov) : At(Param(e, k).target) = at]
    BY <1>2, <2>1 DEF RosParams
  <2>6. (CHOOSE k \in RosKeys(e, ov) : At(Param(e, k).target) = at) = key
    BY <2>1, <2>4
  <2>7. files.yaml[at] = x
    BY <1>6, <2>5, <2>6
  <2> QED
    BY <2>2, <2>3, <2>7 DEF Effective, At
<1>10. ASSUME p.target.kind \in {"xacro", "mjcf"} PROVE run.described[p.target.path] = x
  <2> DEFINE path == p.target.path
             keys == {k \in DOMAIN ov : Param(e, k).target.kind \in {"xacro", "mjcf"}}
             Of(q) == CHOOSE k \in keys : Param(e, k).target.path = q
             Value(q) == CheckValue(Param(e, Of(q)), ov[Of(q)])
  <2>1. key \in keys
    BY <1>6, <1>10
  <2>2. ASSUME NEW k \in keys, Param(e, k).target.path = path PROVE k = key
    <3>1. k \in DOMAIN spec.params /\ OneTarget(e, k, key)
      BY <1>6, <1>10, <2>2 DEF OneTarget
    <3> QED
      BY <1>7, <3>1
  <2>3. Of(path) = key
    BY <2>1, <2>2
  <2>4. run.described[path] = Value(path)
    <3>1. run.described = [q \in {Param(e, k).target.path : k \in keys} |-> Value(q)]
      BY <1>4 DEF Described
    <3> HIDE DEF Value, keys
    <3> QED
      BY <2>1, <3>1
  <2> QED
    BY <1>6, <2>3, <2>4
<1> QED
  BY <1>8, <1>9, <1>10 DEF e, x

(* An override holds in the run where its tunable says: in the entry the launch
   builds from, in the description, or at the node, where neither another override
   nor the launch's own parameters replace it; and none reaches a parameter the launch
   sets on a node of its own (params.py on both sides, run.py's apply_overrides and
   description_overrides). *)
THEOREM OverridesAreKept == OverridesApart => (Spec => []OverridesKept)
<1> SUFFICES ASSUME OverridesApart PROVE Spec => []OverridesKept
  OBVIOUS
<1>1. RulesInv => OverridesKept
  <2> SUFFICES ASSUME RulesInv PROVE OverridesKept
    OBVIOUS
  <2>1. OverridesTake
    <3> SUFFICES ASSUME Started, SameImage, NEW key \in DOMAIN spec.params
                 PROVE  LET p == Param(Entries(Catalogs[doc[1]], spec), key)
                            x == AgentCheckValue(p, spec.params[key])
                        IN  CASE p.target.kind = "entry" ->
                                    EntryValue(run.entries[key[1]], p.target.path) = x
                              [] p.target.kind = "ros_param" ->
                                    Effective(files.yaml, p.target.node, p.target.param) = x
                              [] OTHER -> run.described[p.target.path] = x
      BY DEF OverridesTake
    <3> DEFINE p == Param(Entries(Catalogs[doc[1]], spec), key)
    <3>1. p.target.kind \in {"ros_param", "entry", "xacro", "mjcf"}
      <4>1. answer = "up"
        BY DEF SameImage, RulesInv, FromInv
      <4> QED
        BY <4>1, UpWasAccepted, OverrideDeclared
    <3>2. CASE p.target.kind = "entry"
      BY <3>2, OverrideTakes
    <3>3. CASE p.target.kind = "ros_param"
      BY <3>3, OverrideTakes
    <3>4. CASE p.target.kind \in {"xacro", "mjcf"}
      BY <3>4, OverrideTakes
    <3> QED
      BY <3>1, <3>2, <3>3, <3>4
  <2> QED
    BY <2>1, OwnedIsKept DEF OverridesKept
<1> QED
  BY <1>1, RulesHold, PTL

-----------------------------------------------------------------------------
(* What a launch starts, from whatever image its container came.           *)

LEMMA StartedFrom ==
    ASSUME RulesInv, Started
    PROVE  LET img == Catalogs[from[1]]
               e   == Entries(img, spec)
           IN  /\ from # << >> /\ from[1] \in DOMAIN Catalogs /\ answer = "up"
               /\ IsImage(img) /\ Loads(img, spec) /\ Resolve(e) = "none"
               /\ OverridesRefused(img, e, files.json) = "none"
               /\ RolesRefused(e.robot, e.controller) = "none"
               /\ run = Launched(e, files.json)
<1> DEFINE img == Catalogs[from[1]]
           e == Entries(img, spec)
<1>1. /\ from # << >> /\ from[1] \in DOMAIN Catalogs /\ answer = "up"
      /\ run = Launch(img, spec, files) /\ run.refused = "none"
  BY DEF Started, RulesInv, FromInv
<1>2. IsImage(img)
  BY <1>1, CatalogsAssumption
<1>3. run = Launched(e, files.json) /\ LaunchRefused(img, spec, files.json) = "none"
  BY <1>1, LaunchOf
<1>4. /\ Resolve(e) \in {"backend", "profile", "scenario", "none"}
      /\ OverridesRefused(img, e, files.json) \in {"override", "entry", "none"}
      /\ RolesRefused(e.robot, e.controller) \in {"clash", "role", "requires", "none"}
  BY DEF Resolve, OverridesRefused, RolesRefused
<1> HIDE DEF e
<1>5. /\ Loads(img, spec) /\ Resolve(e) = "none" /\ OverridesRefused(img, e, files.json) = "none"
      /\ RolesRefused(e.robot, e.controller) = "none"
  BY <1>3, <1>4 DEF LaunchRefused, e
<1> QED
  BY <1>1, <1>2, <1>3, <1>5 DEF e

(* Overrides change an entry's fields and nothing else of it. *)
LEMMA PatchedElse ==
    ASSUME NEW e, NEW ov, NEW d \in Dimensions, IsEntry(d, e[d])
    PROVE  /\ Patched(e, ov)[d].name = e[d].name
           /\ d = "scenario" => Patched(e, ov)[d].scenario = e[d].scenario
           /\ d = "controller" => Patched(e, ov)[d].scenarios = e[d].scenarios
           /\ DOMAIN Patched(e, ov)[d] = DOMAIN e[d]
<1>1. PICK fields : Patched(e, ov)[d] = [e[d] EXCEPT !.fields = fields]
  BY DEF Patched
<1> QED
  BY <1>1 DEF IsEntry

LEMMA ScenarioOfFields ==
    ASSUME NEW a, NEW b, a.scenario = b.scenario, DOMAIN a.fields = DOMAIN b.fields,
           \A path \in DOMAIN a.fields : a.fields[path] = b.fields[path]
    PROVE  ScenarioOf(a) = ScenarioOf(b)
<1> DEFINE objects(entry) ==
             [i \in DOMAIN a.scenario.objects |->
                IF <<"objects", a.scenario.objects[i].name, "spawn">> \in DOMAIN entry.fields
                THEN [a.scenario.objects[i] EXCEPT !.spawn =
                        entry.fields[<<"objects", a.scenario.objects[i].name, "spawn">>].v]
                ELSE a.scenario.objects[i]]
<1>1. objects(a) = objects(b)
  OBVIOUS
<1>2. ScenarioOf(a) = [a.scenario EXCEPT !.objects = objects(a)]
  BY DEF ScenarioOf
<1>3. ScenarioOf(b) = [a.scenario EXCEPT !.objects = objects(b)]
  BY DEF ScenarioOf
<1> QED
  BY <1>1, <1>2, <1>3

(* A scenario that is started has passed the checks as it is started. *)
LEMMA StartedScenario ==
    ASSUME NEW img, NEW s, NEW ov, IsImage(img), Loads(img, s),
           OverridesRefused(img, Entries(img, s), ov) = "none"
    PROVE  ScenarioCheck(ScenarioOf(Patched(Entries(img, s), ov).scenario))
<1> DEFINE e == Entries(img, s)
           d == "scenario"
           patched == Patched(e, ov)[d]
<1>1. d \in Dimensions /\ e[d] \in img[d] /\ Valid(img, d, e[d])
  BY EntryListed DEF Loads, Dimensions
<1>2. IsEntry(d, e[d])
  BY <1>1 DEF IsImage
<1> HIDE DEF e
<1>3. CASE EntryKeys(e, ov, d) = {}
  <2>1. /\ DOMAIN patched.fields = DOMAIN e[d].fields
        /\ \A path \in DOMAIN e[d].fields : patched.fields[path] = e[d].fields[path]
    BY <1>1, <1>2, <1>3, PatchedFields
  <2>2. ScenarioOf(patched) = ScenarioOf(e[d])
    BY <1>1, <1>2, <2>1, PatchedElse, ScenarioOfFields
  <2> QED
    BY <1>1, <2>2 DEF Valid, e
<1>4. CASE EntryKeys(e, ov, d) # {}
  <2> DEFINE again == [patched EXCEPT !.params = << >>]
  <2>1. Valid(img, d, again)
    BY <1>1, <1>4 DEF OverridesRefused, e
  <2>2. again.scenario = patched.scenario /\ again.fields = patched.fields
    <3>1. {"scenario", "fields"} \subseteq DOMAIN patched
      BY <1>1, <1>2, PatchedElse DEF IsEntry
    <3> HIDE DEF patched
    <3> QED
      BY <3>1
  <2> HIDE DEF again, patched
  <2>3. ScenarioOf(again) = ScenarioOf(patched)
    BY <2>2, ScenarioOfFields
  <2> QED
    BY <2>1, <2>3 DEF Valid, patched, e
<1> QED
  BY <1>3, <1>4

LEMMA StartedValid == RulesInv => StartedIsValid
<1> SUFFICES ASSUME RulesInv, Started
             PROVE  /\ ScenarioCheck(ScenarioOf(run.entries.scenario))
                    /\ run.entries.backend.name \in run.robot.supported
                    /\ run.entries.controller.scenarios # {} =>
                         run.entries.scenario.name \in run.entries.controller.scenarios
  BY DEF StartedIsValid
<1> DEFINE img == Catalogs[from[1]]
           e == Entries(img, spec)
           ov == files.json
<1>1. /\ IsImage(img) /\ Loads(img, spec) /\ Resolve(e) = "none"
      /\ OverridesRefused(img, e, ov) = "none" /\ run = Launched(e, ov)
  BY StartedFrom
<1>2. ScenarioCheck(ScenarioOf(Patched(e, ov).scenario))
  BY <1>1, StartedScenario
<1>3. \A d \in Dimensions : IsEntry(d, e[d])
  BY <1>1, EntryListed DEF IsImage, Loads
<1> HIDE DEF e, ov
<1>4. run.entries = Patched(e, ov) /\ run.robot = e.robot
  BY <1>1 DEF Launched
<1>5. /\ Patched(e, ov)["backend"].name = e["backend"].name
      /\ Patched(e, ov)["scenario"].name = e["scenario"].name
      /\ Patched(e, ov)["controller"].scenarios = e["controller"].scenarios
  BY <1>3, PatchedElse DEF Dimensions
<1>6. /\ e.backend.name \in e.robot.supported
      /\ e.controller.scenarios # {} => e.scenario.name \in e.controller.scenarios
  BY <1>1 DEF Resolve
<1> QED
  BY <1>2, <1>4, <1>5, <1>6

(* Of roles the launch accepts, those that are active are roles of the robot, and
   hold every controller a started launch role requires. *)
LEMMA ActiveAreRoles ==
    ASSUME NEW robot, NEW controller, RolesRefused(robot, controller) = "none",
           "broadcasters" \in DOMAIN robot.roles
    PROVE  /\ ActiveRoles(robot, controller) \subseteq DOMAIN robot.roles
           /\ "broadcasters" \in ActiveRoles(robot, controller)
           /\ \A role \in LaunchRoles(robot, controller) :
                robot.launches[role] \subseteq ActiveRoles(robot, controller)
<1>1. \A role \in ToSet(controller.activate) : RoleOf(robot, role) \subseteq DOMAIN robot.roles
  BY DEF RolesRefused
<1>2. \A role \in LaunchRoles(robot, controller) :
        role \in ToSet(controller.activate) /\ RoleOf(robot, role) = robot.launches[role]
  BY DEF LaunchRoles, RoleOf
<1>3. \A role \in LaunchRoles(robot, controller) : robot.launches[role] \subseteq DOMAIN robot.roles
  BY <1>1, <1>2
<1> QED
  BY <1>3 DEF ActiveRoles

LEMMA StartedReady ==
    ASSUME RolesApart, RulesInv PROVE RolesReady
<1> SUFFICES ASSUME Started
             PROVE  /\ \A role \in run.roles :
                          Controllers(run.robot, run.robot.launches[role]) \subseteq run.active
                    /\ run.active \cap run.inactive = {}
                    /\ run.active \cup run.inactive = Controllers(run.robot, DOMAIN run.robot.roles)
                    /\ SameImage => /\ Broadcasters(run.robot) # {}
                                    /\ Broadcasters(run.robot) \subseteq run.active
  BY DEF RolesReady
<1> DEFINE img == Catalogs[from[1]]
           e == Entries(img, spec)
           robot == e.robot
           controller == e.controller
           activated == ActiveRoles(robot, controller)
<1>1. /\ from # << >> /\ from[1] \in DOMAIN Catalogs /\ answer = "up"
      /\ IsImage(img) /\ Loads(img, spec)
      /\ RolesRefused(robot, controller) = "none" /\ run = Launched(e, files.json)
  BY StartedFrom
<1>2. robot \in img["robot"] /\ "broadcasters" \in DOMAIN robot.roles
  <2>1. e["robot"] \in img["robot"]
    BY <1>1, EntryListed DEF Loads, Dimensions
  <2> QED
    BY <1>1, <2>1 DEF IsImage, IsEntry, Dimensions
<1>3. /\ activated \subseteq DOMAIN robot.roles /\ "broadcasters" \in activated
      /\ \A role \in LaunchRoles(robot, controller) : robot.launches[role] \subseteq activated
  BY <1>1, <1>2, ActiveAreRoles
<1>4. \A a, b \in DOMAIN robot.roles : a # b => robot.roles[a] \cap robot.roles[b] = {}
  BY <1>1, <1>2 DEF RolesApart
<1>5. SameImage => Broadcasters(robot) # {}
  <2> SUFFICES ASSUME SameImage PROVE Broadcasters(robot) # {}
    OBVIOUS
  <2>1. from[1] = doc[1]
    BY DEF SameImage
  <2> QED
    BY <1>1, <2>1, UpWasAccepted DEF Accepted
<1> HIDE DEF e
<1>6. /\ run.robot = robot /\ run.roles = LaunchRoles(robot, controller)
      /\ run.active = Controllers(robot, activated)
      /\ run.inactive = Controllers(robot, DOMAIN robot.roles \ activated)
  BY <1>1 DEF Launched
<1> HIDE DEF robot, activated
<1>7. \A role \in run.roles : Controllers(robot, robot.launches[role]) \subseteq run.active
  BY <1>3, <1>6 DEF Controllers
<1>8. run.active \cap run.inactive = {}
  BY <1>3, <1>4, <1>6 DEF Controllers
<1>9. run.active \cup run.inactive = Controllers(robot, DOMAIN robot.roles)
  BY <1>3, <1>6 DEF Controllers
<1>10. SameImage => Broadcasters(robot) # {} /\ Broadcasters(robot) \subseteq run.active
  <2>1. Broadcasters(robot) = robot.roles["broadcasters"]
    BY <1>2 DEF Broadcasters
  <2> QED
    BY <1>3, <1>5, <1>6, <2>1 DEF Controllers
<1> QED
  BY <1>6, <1>7, <1>8, <1>9, <1>10

LEMMA RulesTyped == RulesInv => TypeOK
<1> SUFFICES ASSUME RulesInv PROVE TypeOK
  OBVIOUS
<1>1. /\ image \in DOMAIN Catalogs /\ pulls \in 0..MaxPulls /\ isaacHost \in BOOLEAN
      /\ doc = << >> \/ doc[1] \in DOMAIN Catalogs
      /\ from = << >> \/ from[1] \in DOMAIN Catalogs
      /\ run = NotStarted \/ answer = "up"
  BY DEF RulesInv, ReadInv, FromInv
<1>2. DOMAIN files.json \subseteq DOMAIN spec.params
  <2>1. CASE answer = "up"
    BY <2>1, UpWasAccepted DEF Checked
  <2>2. CASE answer # "up"
    BY <2>2 DEF RulesInv, FilesInv, NoFiles
  <2> QED
    BY <2>1, <2>2
<1> QED
  BY <1>1, <1>2 DEF TypeOK, RulesInv, AnswerInv

(* Whatever image the container came from, what starts is a scenario that holds
   together as the overrides leave it, on a backend its robot runs on, with every
   controller its launch roles require active and no controller both active and
   inactive; from the image the agent read, also with the broadcasters it will wait
   for (run.py's _active_roles and controller_sets, catalog.py's validate). *)
THEOREM StartedRunsAreWhole == RolesApart => (Spec => []StartsWhole)
<1> SUFFICES ASSUME RolesApart PROVE Spec => []StartsWhole
  OBVIOUS
<1>1. RulesInv => StartsWhole
  BY RulesTyped, StartedValid, StartedReady DEF StartsWhole
<1> QED
  BY <1>1, RulesHold, PTL

-----------------------------------------------------------------------------
(* How an engine inside a run is shut down (ProcessGroup).                 *)

(* Before launch's SIGTERM an engine that was told has its watchdog, SIGINT has
   let the wrapper wait again, and a wrapper that leaves or a watchdog that is
   done has seen the engine end. *)
EngineInv ==
    /\ Engine!TypeOK
    /\ inbox \subseteq sent
    /\ "TERM" \notin sent =>
         /\ signalled # {} => watch # Engine!Unset
         /\ wrapper = "waiting again" => "INT" \notin inbox
         /\ wrapper = "leaving" => ~job
         /\ watch = Engine!Done => ~job

LEMMA EngineStarts == Engine!Init => EngineInv
<1> USE PartsAssumption
<1> QED
  BY DEF Engine!Init, EngineInv, Engine!TypeOK, Engine!Signals, Engine!Waiting, Engine!Unset, Engine!Done

LEMMA TimeBound == MaxTime \in Nat
  BY PartsAssumption

LEMMA EngineStep == EngineInv /\ Engine!Next => EngineInv'
<1> SUFFICES ASSUME EngineInv, Engine!Next PROVE EngineInv'
  OBVIOUS
<1> USE TimeBound
    DEF EngineInv, Engine!TypeOK, Engine!Signals, Engine!Waiting, Engine!Unset, Engine!Done
<1>0. MaxTime \in Nat /\ now \in 0..MaxTime /\ watch \in 0..MaxTime \cup {-1, -2}
  OBVIOUS
<1>1. CASE Engine!Tick
  <2>1. now' = now + 1 /\ now < MaxTime
    BY <1>1 DEF Engine!Tick
  <2>2. UNCHANGED <<heeds, sent, inbox, wrapper, watch, job, signalled>>
    BY <1>1 DEF Engine!Tick
  <2>3. now' \in 0..MaxTime
    BY ONLY <1>0, <2>1
  <2> QED
    BY <2>2, <2>3
<1>2. CASE Engine!SendTerm
  <2>1. "TERM" \in sent' /\ sent' = sent \cup {"TERM"} /\ inbox' = inbox \cup {"TERM"}
    BY <1>2 DEF Engine!SendTerm
  <2>2. UNCHANGED <<heeds, now, wrapper, watch, job, signalled>>
    BY <1>2 DEF Engine!SendTerm
  <2>3. Engine!TypeOK'
    BY <2>1, <2>2
  <2>4. inbox' \subseteq sent'
    BY <2>1
  <2> QED
    BY <2>1, <2>3, <2>4
<1>3. CASE Engine!SendKill
  BY <1>3 DEF Engine!SendKill
<1>4. ASSUME NEW s \in Engine!Signals, Engine!Trap(s) PROVE EngineInv'
  <2>1. s \in inbox /\ inbox' = inbox \ {s} /\ sent' = sent
    BY <1>4 DEF Engine!Trap
  <2>2. signalled' = signalled \cup {s} /\ heeds' = heeds /\ now' = now /\ job' = job
    BY <1>4 DEF Engine!Trap
  <2>3. watch' = IF watch = Engine!Unset THEN now ELSE watch
    BY <1>4 DEF Engine!Trap
  <2>4. wrapper \in Engine!Waiting /\ wrapper' = IF wrapper = "waiting" THEN "waiting again" ELSE "leaving"
    BY <1>4 DEF Engine!Trap, Engine!AfterTrap
  <2>5. Engine!TypeOK'
    <3>1. watch' \in 0..MaxTime \cup {Engine!Unset, Engine!Done}
      BY ONLY <1>0, <2>3 DEF Engine!Unset, Engine!Done
    <3>2. signalled' \subseteq Engine!Signals /\ inbox' \subseteq Engine!Signals
      BY <2>1, <2>2, <1>4
    <3>3. wrapper' \in Engine!Waiting \cup {"leaving", "gone"}
      BY <2>4
    <3> QED
      BY <2>1, <2>2, <3>1, <3>2, <3>3
  <2>6. inbox' \subseteq sent'
    BY <2>1
  <2>7. ASSUME "TERM" \notin sent' PROVE s = "INT" /\ wrapper = "waiting" /\ watch' # Engine!Unset
    <3>1. s = "INT"
      BY <2>1, <2>7, <1>4
    <3>2. wrapper # "waiting again"
      BY <3>1, <2>1, <2>7
    <3>3. wrapper = "waiting"
      BY <3>2, <2>4
    <3>4. watch' # Engine!Unset
      BY ONLY <1>0, <2>3 DEF Engine!Unset
    <3> QED
      BY <3>1, <3>3, <3>4
  <2>8. "TERM" \notin sent' => wrapper' = "waiting again" /\ "INT" \notin inbox'
    BY <2>7, <2>4, <2>1
  <2>9. watch' = Engine!Done => watch = Engine!Done
    BY ONLY <1>0, <2>3 DEF Engine!Unset, Engine!Done
  <2>10. "TERM" \notin sent' /\ watch' = Engine!Done => ~job'
    BY <2>9, <2>1, <2>2
  <2> QED
    BY <2>5, <2>6, <2>7, <2>8, <2>10
<1>5. CASE Engine!Reap
  BY <1>5 DEF Engine!Reap
<1>6. CASE Engine!Leave
  BY <1>6 DEF Engine!Leave
<1>7. CASE Engine!Bark
  <2>1. UNCHANGED <<heeds, now, sent, inbox, wrapper, signalled>> /\ watch' = Engine!Done /\ job' = FALSE
    BY <1>7 DEF Engine!Bark
  <2>2. Engine!Done # Engine!Unset
    BY ONLY DEF Engine!Done, Engine!Unset
  <2> HIDE DEF Engine!Done, Engine!Unset
  <2> QED
    BY <2>1, <2>2
<1>8. CASE Engine!EngineEnds
  <2>1. UNCHANGED <<heeds, now, sent, inbox, wrapper, watch, signalled>> /\ job' = FALSE
    BY <1>8 DEF Engine!EngineEnds
  <2> QED
    BY <2>1
<1> QED
  BY <1>1, <1>2, <1>3, <1>4, <1>5, <1>6, <1>7, <1>8 DEF Engine!Next

(* An engine is guarded against a wrapper that is killed, at any moment. *)
LEMMA EngineGuarded == EngineInv => Engine!TypeOK /\ Engine!GuardedAgainstKill
  BY DEF EngineInv, Engine!TypeOK, Engine!GuardedAgainstKill, Engine!Guarded, Engine!Watches, Engine!Unset,
         Engine!Done

-----------------------------------------------------------------------------
(* The catalog that is read from an image and kept (AgentReads).           *)

LEMMA ReadBounds == MaxImage \in Nat \ {0} /\ MaxCatalogs \in Nat /\ None \notin Int
  BY PartsAssumption

Images == 1..MaxImage

(* A caller holds ids and catalogs read no earlier than it came, each no later
   than the next, and so is the cache. *)
CallsBy(t) ==
    {[at |-> "away"]}
      \cup {v \in [at: {"asking", "held"}, from: Images] : v.from <= t}
      \cup {v \in [at: {"read"}, from: Images, id: Images] : v.from <= v.id /\ v.id <= t}
      \cup {v \in [at: {"fetched"}, from: Images, id: Images, doc: Images] :
              v.from <= v.id /\ v.id <= v.doc /\ v.doc <= t}
      \cup {v \in [at: {"answered"}, from: Images, doc: Images \cup {None}] :
              v.doc # None => v.from <= v.doc}
CachesBy(t) == {v \in [id: Images, doc: Images] : v.id <= v.doc /\ v.doc <= t} \cup {None}

MeshesTyped ==
    /\ imageBox \in [{} -> Images \cup {Catalog!Gone, None}]
    /\ described \in [{} -> BOOLEAN] /\ meshesRead \in [{} -> BOOLEAN]
    /\ reader = [r \in {} |-> None] /\ kept = [m \in {} |-> None] /\ keptImage = None

CatalogInv ==
    /\ tag \in Images
    /\ call \in [CatalogCallers -> CallsBy(tag)]
    /\ flight \in CatalogCallers \cup {None}
    /\ cached \in CachesBy(tag)
    /\ failed \in BOOLEAN /\ asks \in [CatalogCallers -> 0..MaxCatalogs]
    /\ MeshesTyped

LEMMA CatalogStarts == Catalog!Init => CatalogInv
<1> SUFFICES ASSUME Catalog!Init PROVE CatalogInv
  OBVIOUS
<1>1. tag \in Images
  BY ReadBounds DEF Catalog!Init, Images
<1>2. call \in [CatalogCallers -> CallsBy(tag)]
  BY DEF Catalog!Init, CallsBy, Catalog!Away
<1>3. cached \in CachesBy(tag) /\ flight \in CatalogCallers \cup {None} /\ failed \in BOOLEAN
  BY DEF Catalog!Init, CachesBy
<1>4. asks \in [CatalogCallers -> 0..MaxCatalogs]
  BY ReadBounds DEF Catalog!Init
<1>5. MeshesTyped
  BY DEF Catalog!Init, MeshesTyped
<1> QED
  BY <1>1, <1>2, <1>3, <1>4, <1>5 DEF CatalogInv

(* What was no later than a tag is no later than the next. *)
LEMMA LaterTag ==
    ASSUME NEW t \in Int
    PROVE  CallsBy(t) \subseteq CallsBy(t + 1) /\ CachesBy(t) \subseteq CachesBy(t + 1)
<1>1. \A i \in Images : i <= t => i <= t + 1
  BY DEF Images
<1>2. CallsBy(t) \subseteq CallsBy(t + 1)
  <2> SUFFICES ASSUME NEW v \in CallsBy(t) PROVE v \in CallsBy(t + 1)
    OBVIOUS
  <2>1. CASE v \in [at: {"asking", "held"}, from: Images]
    <3>1. v.from \in Images /\ v.from <= t
      BY <2>1 DEF CallsBy
    <3> QED
      BY <1>1, <2>1, <3>1 DEF CallsBy
  <2>2. CASE v \in [at: {"read"}, from: Images, id: Images]
    <3>1. v.id \in Images /\ v.from <= v.id /\ v.id <= t
      BY <2>2 DEF CallsBy
    <3> QED
      BY <1>1, <2>2, <3>1 DEF CallsBy
  <2>3. CASE v \in [at: {"fetched"}, from: Images, id: Images, doc: Images]
    <3>1. v.doc \in Images /\ v.from <= v.id /\ v.id <= v.doc /\ v.doc <= t
      BY <2>3 DEF CallsBy
    <3> QED
      BY <1>1, <2>3, <3>1 DEF CallsBy
  <2> QED
    BY <2>1, <2>2, <2>3 DEF CallsBy
<1>3. CachesBy(t) \subseteq CachesBy(t + 1)
  BY <1>1 DEF CachesBy
<1> QED
  BY <1>2, <1>3

(* The calls a caller may be in at each place. *)
LEMMA CallAt ==
    ASSUME NEW t \in Int, NEW v \in CallsBy(t)
    PROVE  /\ v.at \in {"asking", "held"} =>
                v = [at |-> v.at, from |-> v.from] /\ v.from \in Images /\ v.from <= t
           /\ v.at = "read" => v.from \in Images /\ v.id \in Images /\ v.from <= v.id /\ v.id <= t
           /\ v.at = "fetched" =>
                /\ v.from \in Images /\ v.id \in Images /\ v.doc \in Images
                /\ v.from <= v.id /\ v.id <= v.doc /\ v.doc <= t
           /\ v.at = "answered" /\ v.doc # None => v.from <= v.doc
  BY DEF CallsBy

LEMMA CallsMade ==
    ASSUME NEW t \in Images, NEW f \in Images, f <= t
    PROVE  /\ [at |-> "asking", from |-> f] \in CallsBy(t) /\ [at |-> "held", from |-> f] \in CallsBy(t)
           /\ [at |-> "read", from |-> f, id |-> t] \in CallsBy(t)
           /\ \A i \in Images : f <= i /\ i <= t =>
                [at |-> "fetched", from |-> f, id |-> i, doc |-> t] \in CallsBy(t)
           /\ \A d \in Images \cup {None} : (d # None => f <= d) =>
                [at |-> "answered", from |-> f, doc |-> d] \in CallsBy(t)
<1>1. t \in Int /\ t <= t
  BY DEF Images
<1> HIDE DEF Images
<1> QED
  BY <1>1 DEF CallsBy

LEMMA CatalogStep == CatalogInv /\ Catalog!Next => CatalogInv'
<1> SUFFICES ASSUME CatalogInv, Catalog!Next PROVE CatalogInv'
  OBVIOUS
<1> DEFINE Ours == <<imageBox, described, reader, meshesRead, kept, keptImage>>
<1>1. tag \in Images /\ tag \in Int /\ MaxImage \in Int
  BY ReadBounds DEF CatalogInv, Images
<1>2. call \in [CatalogCallers -> CallsBy(tag)] /\ cached \in CachesBy(tag) /\ MeshesTyped
  BY DEF CatalogInv
<1>3. flight \in CatalogCallers \cup {None} /\ failed \in BOOLEAN /\ asks \in [CatalogCallers -> 0..MaxCatalogs]
  BY DEF CatalogInv
<1>4. CASE Catalog!Pull
  <2>1. tag' = tag + 1 /\ tag < MaxImage
    BY <1>4 DEF Catalog!Pull
  <2>2. UNCHANGED <<call, flight, cached, failed, asks>> /\ UNCHANGED Ours
    BY <1>4 DEF Catalog!Pull, Catalog!catalogVars, Catalog!meshVars
  <2>3. tag' \in Images
    BY ONLY <1>1, <2>1 DEF Images
  <2>4. CallsBy(tag) \subseteq CallsBy(tag') /\ CachesBy(tag) \subseteq CachesBy(tag')
    BY ONLY <1>1, <2>1, LaterTag
  <2>5. MeshesTyped'
    BY <1>2, <2>2 DEF MeshesTyped
  <2> QED
    BY <1>2, <1>3, <2>2, <2>3, <2>4, <2>5 DEF CatalogInv
<1>5. CASE Catalog!Forget
  BY <1>5 DEF Catalog!Forget, Catalog!meshVars, CatalogInv, MeshesTyped
<1>6. ASSUME NEW c \in CatalogCallers,
             \/ Catalog!Come(c) \/ Catalog!Enter(c) \/ Catalog!Remembered(c) \/ Catalog!Fail(c)
             \/ Catalog!ReadId(c) \/ Catalog!Hit(c) \/ Catalog!Fetch(c) \/ Catalog!Store(c) \/ Catalog!Leave(c)
      PROVE  CatalogInv'
  <2> DEFINE v == call[c]
  <2>1. v \in CallsBy(tag)
    BY <1>2
  <2>2. /\ v.at \in {"asking", "held"} =>
             v = [at |-> v.at, from |-> v.from] /\ v.from \in Images /\ v.from <= tag
        /\ v.at = "read" => v.from \in Images /\ v.id \in Images /\ v.from <= v.id /\ v.id <= tag
        /\ v.at = "fetched" =>
             /\ v.from \in Images /\ v.id \in Images /\ v.doc \in Images
             /\ v.from <= v.id /\ v.id <= v.doc /\ v.doc <= tag
    BY ONLY <1>1, <2>1, CallAt
  <2>3. v.at \in {"asking", "held", "read", "fetched"} => v.from \in Images /\ v.from <= tag
    BY ONLY <1>1, <2>2 DEF Images
  <2>4. tag' = tag /\ UNCHANGED Ours
    BY <1>6
    DEF Catalog!Come, Catalog!Enter, Catalog!Remembered, Catalog!Fail, Catalog!ReadId, Catalog!Hit, Catalog!Fetch,
        Catalog!Store, Catalog!Leave, Catalog!meshVars
  <2>5. MeshesTyped'
    BY <1>2, <2>4 DEF MeshesTyped
  <2>6. SUFFICES /\ \E w \in CallsBy(tag) : call' = [call EXCEPT ![c] = w]
                 /\ flight' \in CatalogCallers \cup {None} /\ cached' \in CachesBy(tag)
                 /\ failed' \in BOOLEAN /\ asks' \in [CatalogCallers -> 0..MaxCatalogs]
    BY <1>1, <1>2, <2>4, <2>5 DEF CatalogInv
  <2>7. CASE Catalog!Come(c)
    <3>1. call' = [call EXCEPT ![c] = [at |-> "asking", from |-> tag]]
      BY <2>7 DEF Catalog!Come
    <3>2. [at |-> "asking", from |-> tag] \in CallsBy(tag)
      <4>1. tag <= tag
        BY <1>1
      <4> QED
        BY <1>1, <4>1, CallsMade
    <3>3. UNCHANGED <<flight, cached, failed>> /\ asks[c] < MaxCatalogs /\ asks' = [asks EXCEPT ![c] = asks[c] + 1]
      BY <2>7 DEF Catalog!Come
    <3>4. asks[c] + 1 \in 0..MaxCatalogs
      BY ONLY <1>3, <3>3, ReadBounds
    <3> QED
      BY <1>2, <1>3, <3>1, <3>2, <3>3, <3>4
  <2>8. CASE Catalog!Enter(c)
    <3>1. v.at = "asking" /\ flight' = c /\ call' = [call EXCEPT ![c].at = "held"]
      BY <2>8 DEF Catalog!Enter
    <3>2. [v EXCEPT !.at = "held"] = [at |-> "held", from |-> v.from]
      BY <2>2, <3>1
    <3>3. call' = [call EXCEPT ![c] = [at |-> "held", from |-> v.from]]
      BY <3>1, <3>2
    <3>4. [at |-> "held", from |-> v.from] \in CallsBy(tag)
      BY <1>1, <2>3, <3>1, CallsMade
    <3> QED
      BY <1>2, <1>3, <2>8, <3>1, <3>3, <3>4 DEF Catalog!Enter
  <2>9. ASSUME NEW d \in Images \cup {None}, Catalog!Answer(c, d), d # None => v.from <= d,
               v.at \in {"held", "read", "fetched"}
        PROVE  (\E w \in CallsBy(tag) : call' = [call EXCEPT ![c] = w]) /\ flight' \in CatalogCallers \cup {None}
    <3>1. call' = [call EXCEPT ![c] = [at |-> "answered", from |-> v.from, doc |-> d]] /\ flight' = None
      BY <2>9 DEF Catalog!Answer
    <3>2. [at |-> "answered", from |-> v.from, doc |-> d] \in CallsBy(tag)
      BY <1>1, <2>3, <2>9, CallsMade
    <3> QED
      BY <3>1, <3>2
  <2>10. CASE Catalog!Remembered(c) \/ Catalog!Fail(c)
    <3>1. v.at \in {"held", "read"} /\ Catalog!Answer(c, None)
      BY <2>10 DEF Catalog!Remembered, Catalog!Fail
    <3>2. UNCHANGED <<cached, asks>> /\ failed' \in BOOLEAN
      BY <1>3, <2>10 DEF Catalog!Remembered, Catalog!Fail
    <3> QED
      BY <1>2, <1>3, <2>9, <3>1, <3>2
  <2>11. CASE Catalog!ReadId(c)
    <3>1. v.at = "held" /\ call' = [call EXCEPT ![c] = [at |-> "read", from |-> v.from, id |-> tag]]
      BY <2>11 DEF Catalog!ReadId
    <3>2. [at |-> "read", from |-> v.from, id |-> tag] \in CallsBy(tag)
      BY <1>1, <2>3, <3>1, CallsMade
    <3> QED
      BY <1>2, <1>3, <2>11, <3>1, <3>2 DEF Catalog!ReadId
  <2>12. CASE Catalog!Hit(c)
    <3>1. v.at = "read" /\ Catalog!Hits(v.id) /\ Catalog!Answer(c, cached.doc)
      BY <2>12 DEF Catalog!Hit
    <3>2. cached # None /\ cached.id = v.id
      BY <3>1 DEF Catalog!Hits
    <3>3. cached.doc \in Images /\ cached.id <= cached.doc
      BY <1>2, <3>2 DEF CachesBy
    <3>4. v.from <= cached.doc
      BY ONLY <2>2, <3>1, <3>2, <3>3 DEF Images
    <3>5. UNCHANGED <<cached, failed, asks>>
      BY <2>12 DEF Catalog!Hit
    <3> QED
      BY <1>2, <1>3, <2>9, <3>1, <3>3, <3>4, <3>5
  <2>13. CASE Catalog!Fetch(c)
    <3>1. /\ v.at = "read"
          /\ call' = [call EXCEPT ![c] = [at |-> "fetched", from |-> v.from, id |-> v.id, doc |-> tag]]
      BY <2>13 DEF Catalog!Fetch
    <3>2. [at |-> "fetched", from |-> v.from, id |-> v.id, doc |-> tag] \in CallsBy(tag)
      BY <1>1, <2>2, <2>3, <3>1, CallsMade
    <3> QED
      BY <1>2, <1>3, <2>13, <3>1, <3>2 DEF Catalog!Fetch
  <2>14. CASE Catalog!Store(c)
    <3>1. v.at = "fetched" /\ Catalog!Answer(c, v.doc) /\ cached' = [id |-> v.id, doc |-> v.doc]
      BY <2>14 DEF Catalog!Store
    <3>2. v.from <= v.doc /\ v.doc \in Images
      BY ONLY <2>2, <3>1 DEF Images
    <3>3. cached' \in CachesBy(tag)
      BY <2>2, <3>1 DEF CachesBy
    <3>4. failed' = FALSE /\ asks' = asks
      BY <2>14 DEF Catalog!Store
    <3> QED
      BY <1>3, <2>9, <3>1, <3>2, <3>3, <3>4
  <2>15. CASE Catalog!Leave(c)
    <3>1. call' = [call EXCEPT ![c] = [at |-> "away"]] /\ [at |-> "away"] \in CallsBy(tag)
      BY <2>15 DEF Catalog!Leave, Catalog!Away, CallsBy
    <3> QED
      BY <1>2, <1>3, <2>15, <3>1 DEF Catalog!Leave
  <2> QED
    BY <1>6, <2>7, <2>8, <2>10, <2>11, <2>12, <2>13, <2>14, <2>15
<1> QED
  BY <1>4, <1>5, <1>6 DEF Catalog!Next

LEMMA CatalogKept == CatalogInv => Catalog!TypeOK /\ Catalog!KeptOfImage
<1> SUFFICES ASSUME CatalogInv PROVE Catalog!TypeOK /\ Catalog!KeptOfImage
  OBVIOUS
<1>1. tag \in Int
  BY DEF CatalogInv, Images
<1>2. call \in [CatalogCallers -> {[at |-> "away"]} \cup [at: {"asking", "held"}, from: Images]
                   \cup [at: {"read"}, from: Images, id: Images]
                   \cup [at: {"fetched"}, from: Images, id: Images, doc: Images]
                   \cup [at: {"answered"}, from: Images, doc: Images \cup {None}]]
  BY DEF CatalogInv, CallsBy
<1>3. cached \in [id: Images, doc: Images] \cup {None}
  BY DEF CatalogInv, CachesBy
<1>4. Catalog!TypeOK
  BY <1>2, <1>3 DEF CatalogInv, MeshesTyped, Catalog!TypeOK, Catalog!Images, Images, Catalog!Away, Catalog!Maybe
<1>5. Catalog!CatalogFresh
  <2> SUFFICES ASSUME NEW c \in CatalogCallers, call[c].at = "answered", call[c].doc # None
               PROVE  call[c].doc >= call[c].from
    BY DEF Catalog!CatalogFresh
  <2>1. call[c] \in CallsBy(tag)
    BY DEF CatalogInv
  <2>2. call[c].from \in Int /\ call[c].doc \in Int /\ call[c].from <= call[c].doc
    BY <2>1 DEF CallsBy, Images
  <2> QED
    BY ONLY <2>2
<1>6. Catalog!OneImage /\ Catalog!MeshesOfImage
  BY DEF Catalog!OneImage, Catalog!MeshesOfImage
<1> QED
  BY <1>4, <1>5, <1>6 DEF Catalog!KeptOfImage

-----------------------------------------------------------------------------
(* The meshes that are read from a run and kept (AgentReads).              *)

ReaderPlaces ==
    {None} \cup [at: {"started", "done"}]
      \cup [at: {"wants"}, image: Images, wanted: SUBSET Meshes]
      \cup {v \in [at: {"found"}, image: Images, wanted: SUBSET Meshes, of: Images] : v.of = v.image}

CatalogIdle ==
    /\ call = [c \in {} |-> MeshReads!Away] /\ asks = [c \in {} |-> 0]
    /\ flight = None /\ cached = None /\ failed = FALSE

(* With no pull under a run, a container that is up is of the image the tag
   names, and a reader has asked of the image it reads from. *)
MeshInv ==
    /\ tag \in Images /\ CatalogIdle
    /\ imageBox \in [MeshRuns -> Images \cup {MeshReads!Gone, None}]
    /\ described \in [MeshRuns -> BOOLEAN] /\ meshesRead \in [MeshRuns -> BOOLEAN]
    /\ reader \in [MeshRuns -> ReaderPlaces]
    /\ kept \in [Meshes -> [image: Images, by: Images] \cup {None}] /\ keptImage \in Images \cup {None}
    /\ \A r \in MeshRuns :
         /\ imageBox[r] \in Images => imageBox[r] = tag
         /\ imageBox[r] = None => reader[r] = None
         /\ reader[r] # None /\ reader[r].at = "wants" /\ imageBox[r] \in Images =>
              reader[r].image = imageBox[r]
    /\ \A m \in Meshes : kept[m] # None => kept[m].image = keptImage /\ kept[m].by = keptImage

LEMMA MeshesStart == MeshReads!Init => MeshInv
<1> SUFFICES ASSUME MeshReads!Init PROVE MeshInv
  OBVIOUS
<1>1. tag \in Images
  BY ReadBounds DEF MeshReads!Init, Images
<1>2. CatalogIdle
  BY DEF MeshReads!Init, CatalogIdle
<1>3. None \notin Images
  BY ReadBounds DEF Images
<1>4. reader \in [MeshRuns -> ReaderPlaces]
  BY DEF MeshReads!Init, ReaderPlaces
<1> QED
  BY <1>1, <1>2, <1>3, <1>4 DEF MeshReads!Init, MeshInv

LEMMA MeshesStep == MeshInv /\ MeshReads!Next => MeshInv'
<1> SUFFICES ASSUME MeshInv, MeshReads!Next PROVE MeshInv'
  OBVIOUS
<1>1. None \notin Images /\ MeshReads!Gone \notin Images /\ MeshReads!Gone # None
  BY ReadBounds DEF Images, MeshReads!Gone
<1>2. MeshReads!Images = Images
  BY DEF MeshReads!Images, Images
<1>3. CASE MeshReads!Pull
  <2>1. tag' = tag + 1 /\ tag < MaxImage
    BY <1>3 DEF MeshReads!Pull
  <2>2. UNCHANGED <<call, flight, cached, failed, asks, imageBox, described, reader, meshesRead, kept, keptImage>>
    BY <1>3 DEF MeshReads!Pull, MeshReads!catalogVars, MeshReads!meshVars
  <2>3. tag' \in Images
    <3>1. tag \in Images /\ MaxImage \in Nat
      BY ReadBounds DEF MeshInv
    <3> QED
      BY ONLY <2>1, <3>1 DEF Images
  <2>4. \A r \in MeshRuns : imageBox[r] \notin Images
    BY <1>1, <1>3 DEF MeshReads!Pull
  <2> QED
    BY <2>2, <2>3, <2>4 DEF MeshInv, CatalogIdle
<1>4. CASE MeshReads!Forget
  BY <1>4 DEF MeshReads!Forget, MeshInv, CatalogIdle
<1>5. ASSUME NEW r \in MeshRuns,
             \/ MeshReads!Start(r) \/ MeshReads!End(r) \/ MeshReads!Describe(r)
             \/ MeshReads!ReaderWants(r) \/ MeshReads!ReaderFinds(r)
             \/ MeshReads!ReaderFails(r) \/ MeshReads!ReaderStores(r)
      PROVE  MeshInv'
  <2>1. UNCHANGED <<tag, call, flight, cached, failed, asks>>
    BY <1>5
    DEF MeshReads!Start, MeshReads!End, MeshReads!Describe, MeshReads!ReaderWants, MeshReads!ReaderFinds,
        MeshReads!ReaderFails, MeshReads!ReaderStores, MeshReads!catalogVars
  <2>2. tag' \in Images /\ CatalogIdle'
    BY <2>1 DEF MeshInv, CatalogIdle
  <2>3. CASE MeshReads!Start(r)
    <3>1. imageBox[r] = None /\ imageBox' = [imageBox EXCEPT ![r] = tag]
      BY <2>3 DEF MeshReads!Start
    <3>2. UNCHANGED <<described, reader, meshesRead, kept, keptImage>>
      BY <2>3 DEF MeshReads!Start
    <3>3. reader[r] = None /\ tag \in Images
      BY <3>1 DEF MeshInv
    <3> QED
      BY <1>1, <2>1, <2>2, <3>1, <3>2, <3>3 DEF MeshInv
  <2>4. CASE MeshReads!End(r)
    <3>1. imageBox' = [imageBox EXCEPT ![r] = MeshReads!Gone]
      BY <2>4 DEF MeshReads!End
    <3>2. UNCHANGED <<described, reader, meshesRead, kept, keptImage>>
      BY <2>4 DEF MeshReads!End
    <3> QED
      BY <1>1, <2>1, <2>2, <3>1, <3>2 DEF MeshInv
  <2>5. CASE MeshReads!Describe(r)
    <3>1. imageBox[r] \in Images /\ reader' = [reader EXCEPT ![r] = [at |-> "started"]]
      BY <1>2, <2>5 DEF MeshReads!Describe
    <3>2. described' = [described EXCEPT ![r] = TRUE] /\ UNCHANGED <<imageBox, meshesRead, kept, keptImage>>
      BY <2>5 DEF MeshReads!Describe
    <3>3. [at |-> "started"] \in ReaderPlaces
      BY DEF ReaderPlaces
    <3>4. reader' \in [MeshRuns -> ReaderPlaces] /\ described' \in [MeshRuns -> BOOLEAN]
      BY <3>1, <3>2, <3>3 DEF MeshInv
    <3> QED
      BY <1>1, <2>1, <2>2, <3>1, <3>2, <3>4 DEF MeshInv
  <2>6. ASSUME MeshReads!Done(r), reader[r] # None, imageBox' = imageBox
        PROVE  /\ reader' \in [MeshRuns -> ReaderPlaces] /\ meshesRead' \in [MeshRuns -> BOOLEAN]
               /\ \A q \in MeshRuns :
                    /\ imageBox[q] = None => reader'[q] = None
                    /\ reader'[q] # None /\ reader'[q].at = "wants" /\ imageBox[q] \in Images =>
                         reader'[q].image = imageBox[q]
    <3>1. reader' = [reader EXCEPT ![r] = [at |-> "done"]] /\ meshesRead' = [meshesRead EXCEPT ![r] = TRUE]
      BY <2>6 DEF MeshReads!Done
    <3>2. [at |-> "done"] \in ReaderPlaces
      BY DEF ReaderPlaces
    <3>3. imageBox[r] # None
      BY <2>6 DEF MeshInv
    <3> QED
      BY <3>1, <3>2, <3>3 DEF MeshInv
  <2>7. CASE MeshReads!ReaderWants(r)
    <3>1. /\ reader[r] # None /\ keptImage' = tag /\ kept' = MeshReads!Emptied
          /\ UNCHANGED <<imageBox, described>>
      BY <2>7 DEF MeshReads!ReaderWants
    <3>2. /\ kept' \in [Meshes -> [image: Images, by: Images] \cup {None}] /\ keptImage' \in Images \cup {None}
          /\ \A m \in Meshes : kept'[m] # None => kept'[m].image = keptImage' /\ kept'[m].by = keptImage'
      BY <3>1 DEF MeshReads!Emptied, MeshInv
    <3>3. CASE MeshReads!Done(r)
      BY <2>1, <2>2, <2>6, <3>1, <3>2, <3>3 DEF MeshInv
    <3>4. CASE ~MeshReads!Done(r)
      <4> DEFINE wanted == {m \in Meshes : kept'[m] = None}
                 w == [at |-> "wants", image |-> tag, wanted |-> wanted]
      <4>1. reader' = [reader EXCEPT ![r] = w] /\ meshesRead' = meshesRead
        BY <2>7, <3>4 DEF MeshReads!ReaderWants
      <4>2. w \in ReaderPlaces /\ w.image = tag
        BY DEF ReaderPlaces, MeshInv
      <4>3. imageBox[r] # None /\ (imageBox[r] \in Images => imageBox[r] = tag)
        BY <3>1 DEF MeshInv
      <4> HIDE DEF w
      <4>4. reader' \in [MeshRuns -> ReaderPlaces]
        BY <4>1, <4>2 DEF MeshInv
      <4>5. \A q \in MeshRuns :
              /\ imageBox[q] = None => reader'[q] = None
              /\ reader'[q] # None /\ reader'[q].at = "wants" /\ imageBox[q] \in Images =>
                   reader'[q].image = imageBox[q]
        BY <4>1, <4>2, <4>3 DEF MeshInv
      <4> QED
        BY <2>1, <2>2, <3>1, <3>2, <4>1, <4>4, <4>5 DEF MeshInv
    <3> QED
      BY <3>3, <3>4
  <2>8. CASE MeshReads!ReaderFinds(r)
    <3>1. /\ reader[r] # None /\ reader[r].at = "wants" /\ imageBox[r] \in Images
          /\ UNCHANGED <<imageBox, described, meshesRead, kept, keptImage>>
      BY <1>2, <2>8 DEF MeshReads!ReaderFinds
    <3>2. PICK found \in SUBSET reader[r].wanted :
            reader' = [reader EXCEPT ![r] = [at |-> "found", image |-> reader[r].image,
                                             wanted |-> found, of |-> imageBox[r]]]
      BY <2>8 DEF MeshReads!ReaderFinds
    <3> DEFINE w == [at |-> "found", image |-> reader[r].image, wanted |-> found, of |-> imageBox[r]]
    <3>3. reader[r] \in ReaderPlaces /\ reader[r].image = imageBox[r]
      BY <3>1 DEF MeshInv
    <3>4. reader[r].wanted \in SUBSET Meshes
      BY <3>1, <3>3 DEF ReaderPlaces
    <3>5. w \in ReaderPlaces /\ w.at = "found"
      BY <3>1, <3>3, <3>4 DEF ReaderPlaces
    <3>6. reader' = [reader EXCEPT ![r] = w]
      BY <3>2
    <3>7. imageBox[r] # None
      BY <1>1, <3>1
    <3> HIDE DEF w
    <3>8. reader' \in [MeshRuns -> ReaderPlaces]
      BY <3>5, <3>6 DEF MeshInv
    <3> QED
      BY <2>1, <2>2, <3>1, <3>5, <3>6, <3>7, <3>8 DEF MeshInv
  <2>9. CASE MeshReads!ReaderFails(r)
    <3>1. reader[r] # None /\ MeshReads!Done(r) /\ UNCHANGED <<imageBox, described, kept, keptImage>>
      BY <2>9 DEF MeshReads!ReaderFails
    <3> QED
      BY <2>1, <2>2, <2>6, <3>1 DEF MeshInv
  <2>10. CASE MeshReads!ReaderStores(r)
    <3>1. /\ reader[r] # None /\ reader[r].at = "found" /\ MeshReads!Done(r)
          /\ UNCHANGED <<imageBox, described, keptImage>>
      BY <2>10 DEF MeshReads!ReaderStores
    <3>2. PICK fits \in SUBSET reader[r].wanted :
            kept' = IF MeshReads!StillOf(r)
                    THEN [m \in Meshes |-> IF m \in fits
                                           THEN [image |-> reader[r].of, by |-> reader[r].image]
                                           ELSE kept[m]]
                    ELSE kept
      BY <2>10 DEF MeshReads!ReaderStores
    <3>3. reader[r] \in ReaderPlaces
      BY DEF MeshInv
    <3>4. reader[r].of = reader[r].image /\ reader[r].image \in Images
      BY <3>1, <3>3 DEF ReaderPlaces
    <3>5. /\ kept' \in [Meshes -> [image: Images, by: Images] \cup {None}]
          /\ \A m \in Meshes : kept'[m] # None => kept'[m].image = keptImage /\ kept'[m].by = keptImage
      BY <3>2, <3>4 DEF MeshReads!StillOf, MeshInv
    <3> QED
      BY <2>1, <2>2, <2>6, <3>1, <3>5 DEF MeshInv
  <2> QED
    BY <1>5, <2>3, <2>4, <2>5, <2>7, <2>8, <2>9, <2>10
<1> QED
  BY <1>3, <1>4, <1>5 DEF MeshReads!Next

LEMMA MeshesKept == MeshInv => MeshReads!TypeOK /\ MeshReads!KeptOfImage
<1> SUFFICES ASSUME MeshInv PROVE MeshReads!TypeOK /\ MeshReads!KeptOfImage
  OBVIOUS
<1>1. MeshReads!Images = Images
  BY DEF MeshReads!Images, Images
<1>2. reader \in [MeshRuns -> {None} \cup [at: {"started", "done"}]
                     \cup [at: {"wants"}, image: Images, wanted: SUBSET Meshes]
                     \cup [at: {"found"}, image: Images, wanted: SUBSET Meshes, of: Images]]
  BY DEF MeshInv, ReaderPlaces
<1>3. /\ flight \in MeshReads!Maybe({}) /\ cached \in MeshReads!Maybe([id: Images, doc: Images]) /\ failed \in BOOLEAN
      /\ asks \in [{} -> 0..0]
      /\ call \in [{} -> {MeshReads!Away} \cup [at: {"asking", "held"}, from: Images]
                   \cup [at: {"read"}, from: Images, id: Images]
                   \cup [at: {"fetched"}, from: Images, id: Images, doc: Images]
                   \cup [at: {"answered"}, from: Images, doc: MeshReads!Maybe(Images)]]
  BY DEF MeshInv, CatalogIdle, MeshReads!Maybe
<1>4. MeshReads!TypeOK
  <2>1. /\ imageBox \in [MeshRuns -> MeshReads!Maybe(Images \cup {MeshReads!Gone})]
        /\ kept \in [Meshes -> MeshReads!Maybe([image: Images, by: Images])] /\ keptImage \in MeshReads!Maybe(Images)
        /\ reader \in [MeshRuns -> MeshReads!Maybe([at: {"started", "done"}])
                     \cup [at: {"wants"}, image: Images, wanted: SUBSET Meshes]
                     \cup [at: {"found"}, image: Images, wanted: SUBSET Meshes, of: Images]]
    BY <1>2 DEF MeshInv, MeshReads!Maybe
  <2> QED
    BY <1>1, <1>3, <2>1 DEF MeshInv, MeshReads!TypeOK
<1>5. MeshReads!CatalogFresh
  BY DEF MeshReads!CatalogFresh
<1>6. MeshReads!OneImage /\ MeshReads!MeshesOfImage
  BY DEF MeshInv, MeshReads!OneImage, MeshReads!MeshesOfImage
<1> QED
  BY <1>4, <1>5, <1>6 DEF MeshReads!KeptOfImage

-----------------------------------------------------------------------------
(* The containers of a run (RunStack).                                     *)

(* What the stop has passed is gone, or docker would not remove it. *)
Left(b) == box[b] \in {"up", "exited"} => b \in stuck
Swept(s) ==
    /\ stop[s] \in {"bridge", "isaac", "run", "ended"} => ~marked
    /\ stop[s] \in {"isaac", "run", "ended"} => Left("bridge")
    /\ stop[s] \in {"run", "ended"} => Left("isaac")
    /\ stop[s] = "ended" => Left("run")

(* A stop that came where start() is over, or that start() itself has left to
   its worker, passes everything there is. *)
StopInv ==
    /\ ours => \A s \in Stack!Stoppers : stop[s] = "idle"
    /\ start \in {"started", "raised"} /\ ~ours =>
         \E s \in Stack!Stoppers : stop[s] # "idle" /\ Swept(s)

WatchInv ==
    /\ "isaac" \in wants /\ start \in {"isaac", "bridge", "returned", "started"} /\ ours => marked
    /\ active /\ "isaac" \in wants => ready
    /\ ours /\ waiter \in {"waiting", "woken"} => marked
    /\ waiter # "off" => logs # "off"
    /\ ours /\ waiter = "done" => logs # "following"

LaunchInv ==
    /\ isaac # "broken"
    /\ start \in {"new", "prepare", "run"} => launch = "off" /\ box["run"] = "none"
    /\ launch \in {"off", "setup"} => world = "none"
    /\ launch = "over" => world # "made"

StackInv == Stack!TypeOK /\ StopInv /\ WatchInv /\ LaunchInv

LEMMA StackStarts == Stack!Init => StackInv
  BY DEF Stack!Init, StackInv, Stack!TypeOK, StopInv, WatchInv, LaunchInv, Stack!InDocker, Stack!StopPc, Stack!Boxes,
     Stack!Sidecars, Stack!Stoppers

LEMMA StackWhole == StackInv => Stack!TypeOK /\ Stack!RunWhole
<1> SUFFICES ASSUME StackInv PROVE Stack!TypeOK /\ Stack!RunWhole
  OBVIOUS
<1>1. Stack!NothingLeft
  <2> SUFFICES ASSUME Stack!Quiet, start # "new"
               PROVE  ~marked /\ \A b \in Stack!Boxes : box[b] \in {"up", "exited"} => b \in stuck
    BY DEF Stack!NothingLeft
  <2>1. PICK s \in Stack!Stoppers : stop[s] # "idle" /\ Swept(s)
    BY DEF Stack!Quiet, StackInv, StopInv
  <2>2. stop[s] = "ended"
    BY <2>1 DEF Stack!Quiet
  <2> QED
    BY <2>1, <2>2 DEF Swept, Left, Stack!Boxes, Stack!Sidecars
<1> QED
  BY <1>1
  DEF StackInv, WatchInv, LaunchInv, Stack!RunWhole, Stack!UpMeansPlaying, Stack!StageWhole, Stack!StageLost,
      Stack!WorldGone

(* What is typed, but for the flags, and the flags. *)
StackPlaces ==
    /\ wants \subseteq Stack!Sidecars
    /\ start \in {"new", "started", "raised"} \cup Stack!InDocker
    /\ stop \in [Stack!Stoppers -> Stack!StopPc]
    /\ box \in [Stack!Boxes -> {"none", "up", "exited", "gone"}] /\ stuck \subseteq Stack!Boxes
    /\ launch \in {"off", "setup", "building", "up", "over", "killed"}
    /\ world \in {"none", "made", "removed"} /\ writing \in {"no", "began", "done"}
    /\ spawner \in {"waiting", "active", "failed"}
    /\ isaac \in {"off", "waiting", "loading", "playing", "broken", "over"}
    /\ logs \in {"off", "following", "ended"} /\ waiter \in {"off", "waiting", "woken", "done"}

StackFlags ==
    /\ hasRoles \in BOOLEAN /\ marked \in BOOLEAN /\ ours \in BOOLEAN
    /\ active \in BOOLEAN /\ roles \in BOOLEAN /\ ready \in BOOLEAN

LEMMA StackTyped == StackInv /\ Stack!Next => Stack!TypeOK'
<1> SUFFICES ASSUME StackInv, Stack!Next PROVE Stack!TypeOK'
  OBVIOUS
<1> USE DEF StackInv, Stack!TypeOK, Stack!startVars, Stack!stopVars, Stack!launchVars, Stack!isaacVars,
            Stack!watchVars, Stack!Sidecars, Stack!Boxes, Stack!Stoppers, Stack!InDocker, Stack!StopPc
<1>1. CASE Stack!EnterDockerRun
  BY <1>1 DEF Stack!EnterDockerRun
<1>2. CASE Stack!Prepare
  BY <1>2 DEF Stack!Prepare
<1>3. CASE Stack!Mark
  BY <1>3 DEF Stack!Mark
<1>4. CASE Stack!LeaveDockerRun
  BY <1>4 DEF Stack!LeaveDockerRun
<1>5. CASE Stack!Down
  <2>1. ours' = FALSE /\ (stop' = stop \/ stop' = [stop EXCEPT !["fin"] = "discard"])
    BY <1>5 DEF Stack!Down
  <2>2. stop' \in [Stack!Stoppers -> Stack!StopPc]
    BY <2>1
  <2>3. UNCHANGED <<wants, hasRoles, start, marked, stuck, box, launch, world, writing, spawner, roles, isaac, ready,
                    logs, waiter, active>>
    BY <1>5 DEF Stack!Down
  <2>5. StackPlaces'
    BY <2>1, <2>2, <2>3 DEF StackPlaces
  <2>6. StackFlags'
    BY <2>1, <2>2, <2>3 DEF StackFlags
  <2> QED
    BY ONLY <2>5, <2>6 DEF Stack!TypeOK, StackPlaces, StackFlags
<1>6. CASE Stack!StartRun
  <2>1. PICK b \in Stack!Boxes, then \in Stack!InDocker : Stack!DockerRun(b, then)
    BY <1>6 DEF Stack!StartRun, Stack!AfterRun, Stack!AfterIsaac
  <2>2. \E made \in BOOLEAN : box' = IF made THEN [box EXCEPT ![b] = "up"] ELSE box
    BY <2>1 DEF Stack!DockerRun
  <2>3. box' \in [Stack!Boxes -> {"none", "up", "exited", "gone"}]
    BY <2>2
  <2>4. start' \in Stack!InDocker
    BY <2>1 DEF Stack!DockerRun
  <2>5. launch' \in {launch, "setup"} /\ isaac' \in {isaac, "waiting"}
    BY <2>1 DEF Stack!DockerRun
  <2>6. UNCHANGED <<wants, hasRoles, marked, stop, stuck, ours, world, writing, spawner, roles, ready, logs, waiter, active>>
    BY <2>1 DEF Stack!DockerRun
  <2> QED
    BY <2>3, <2>4, <2>5, <2>6
<1>7. CASE Stack!StartIsaac
  <2>1. PICK b \in Stack!Boxes, then \in Stack!InDocker : Stack!DockerRun(b, then)
    BY <1>7 DEF Stack!StartIsaac, Stack!AfterRun, Stack!AfterIsaac
  <2>2. \E made \in BOOLEAN : box' = IF made THEN [box EXCEPT ![b] = "up"] ELSE box
    BY <2>1 DEF Stack!DockerRun
  <2>3. box' \in [Stack!Boxes -> {"none", "up", "exited", "gone"}]
    BY <2>2
  <2>4. start' \in Stack!InDocker
    BY <2>1 DEF Stack!DockerRun
  <2>5. launch' \in {launch, "setup"} /\ isaac' \in {isaac, "waiting"}
    BY <2>1 DEF Stack!DockerRun
  <2>6. UNCHANGED <<wants, hasRoles, marked, stop, stuck, ours, world, writing, spawner, roles, ready, logs, waiter, active>>
    BY <2>1 DEF Stack!DockerRun
  <2> QED
    BY <2>3, <2>4, <2>5, <2>6
<1>8. CASE Stack!StartBridge
  <2>1. PICK b \in Stack!Boxes, then \in Stack!InDocker : Stack!DockerRun(b, then)
    BY <1>8 DEF Stack!StartBridge, Stack!AfterRun, Stack!AfterIsaac
  <2>2. \E made \in BOOLEAN : box' = IF made THEN [box EXCEPT ![b] = "up"] ELSE box
    BY <2>1 DEF Stack!DockerRun
  <2>3. box' \in [Stack!Boxes -> {"none", "up", "exited", "gone"}]
    BY <2>2
  <2>4. start' \in Stack!InDocker
    BY <2>1 DEF Stack!DockerRun
  <2>5. launch' \in {launch, "setup"} /\ isaac' \in {isaac, "waiting"}
    BY <2>1 DEF Stack!DockerRun
  <2>6. UNCHANGED <<wants, hasRoles, marked, stop, stuck, ours, world, writing, spawner, roles, ready, logs, waiter, active>>
    BY <2>1 DEF Stack!DockerRun
  <2> QED
    BY <2>3, <2>4, <2>5, <2>6
<1>9. ASSUME NEW s \in Stack!Stoppers, Stack!Discard(s) PROVE Stack!TypeOK'
  <2>1. marked' = FALSE /\ stop' = [stop EXCEPT ![s] = "bridge"]
    BY <1>9 DEF Stack!Discard
  <2>2. stop' \in [Stack!Stoppers -> Stack!StopPc]
    BY <2>1
  <2>3. UNCHANGED <<wants, hasRoles, start, ours, stuck, box, launch, world, writing, spawner, roles, isaac, ready,
                    logs, waiter, active>>
    BY <1>9 DEF Stack!Discard
  <2>5. StackPlaces'
    BY <2>1, <2>2, <2>3 DEF StackPlaces
  <2>6. StackFlags'
    BY <2>1, <2>2, <2>3 DEF StackFlags
  <2> QED
    BY ONLY <2>5, <2>6 DEF Stack!TypeOK, StackPlaces, StackFlags
<1>10. ASSUME NEW s \in Stack!Stoppers, Stack!StopBridge(s) \/ Stack!StopIsaac(s) \/ Stack!StopRun(s)
      PROVE  Stack!TypeOK'
  <2>1. PICK b \in Stack!Boxes, then \in Stack!StopPc : Stack!Step(s, b, then)
    BY <1>10 DEF Stack!StopBridge, Stack!StopIsaac, Stack!StopRun
  <2>2. /\ stop' = [stop EXCEPT ![s] = then] /\ Stack!Remove(s, b)
        /\ UNCHANGED <<wants, hasRoles, start, marked, ours, writing, spawner, roles, ready, logs, waiter, active>>
    BY <2>1 DEF Stack!Step, Stack!HasIsaac
  <2>3. /\ stuck' \subseteq Stack!Boxes /\ box' \in [Stack!Boxes -> {"none", "up", "exited", "gone"}]
        /\ isaac' \in {"off", "waiting", "loading", "playing", "broken", "over"}
    BY <2>2 DEF Stack!Remove
  <2>4. launch' \in {"off", "setup", "building", "up", "over", "killed"} /\ world' \in {"none", "made", "removed"}
    BY <2>2 DEF Stack!Remove, Stack!Shutdown
  <2> QED
    BY <2>2, <2>3, <2>4
<1>11. CASE Stack!LaunchChecks
  BY <1>11 DEF Stack!LaunchChecks, Stack!LaunchStep, Stack!LaunchEnds, Stack!CleanUp
<1>12. CASE Stack!LaunchBuilds
  BY <1>12 DEF Stack!LaunchBuilds, Stack!LaunchStep, Stack!LaunchEnds, Stack!CleanUp
<1>13. CASE Stack!WriteStage
  BY <1>13 DEF Stack!WriteStage, Stack!LaunchStep, Stack!LaunchEnds, Stack!CleanUp
<1>14. CASE Stack!SpawnerEnds
  BY <1>14 DEF Stack!SpawnerEnds, Stack!LaunchStep, Stack!LaunchEnds, Stack!CleanUp
<1>15. CASE Stack!AfterActive
  <2>1. launch' \in {launch, "over"} /\ world' \in {world, "removed"} /\ (roles' = roles \/ roles' = TRUE)
    BY <1>15 DEF Stack!AfterActive, Stack!LaunchEnds
  <2>2. box' = box \/ box' = [box EXCEPT !["run"] = "exited"]
    BY <1>15 DEF Stack!AfterActive, Stack!LaunchEnds
  <2>3. UNCHANGED <<wants, hasRoles, start, marked, stop, stuck, ours, isaac, ready, logs, waiter, active, writing, spawner>>
    BY <1>15 DEF Stack!AfterActive, Stack!LaunchEnds, Stack!LaunchStep
  <2>4. box' \in [Stack!Boxes -> {"none", "up", "exited", "gone"}]
    BY <2>2
  <2>5. StackPlaces'
    BY <2>1, <2>3, <2>4 DEF StackPlaces
  <2>6. StackFlags'
    BY <2>1, <2>3, <2>4 DEF StackFlags
  <2> QED
    BY ONLY <2>5, <2>6 DEF Stack!TypeOK, StackPlaces, StackFlags
<1>16. CASE Stack!LaunchExits
  BY <1>16 DEF Stack!LaunchExits, Stack!LaunchStep, Stack!LaunchEnds, Stack!CleanUp
<1>17. CASE Stack!FindStage
  BY <1>17 DEF Stack!FindStage, Stack!IsaacStep
<1>18. CASE Stack!Play
  BY <1>18 DEF Stack!Play, Stack!IsaacStep
<1>19. CASE Stack!IsaacExits
  BY <1>19 DEF Stack!IsaacExits, Stack!IsaacStep
<1>20. CASE Stack!BridgeExits
  BY <1>20 DEF Stack!BridgeExits, Stack!IsaacStep
<1>21. CASE Stack!Follow
  BY <1>21 DEF Stack!Follow, Stack!WatchStep
<1>22. CASE Stack!RunEnds
  BY <1>22 DEF Stack!RunEnds, Stack!WatchStep
<1>23. CASE Stack!Wake
  BY <1>23 DEF Stack!Wake, Stack!WatchStep
<1>24. CASE Stack!EndWithIsaac
  BY <1>24 DEF Stack!EndWithIsaac, Stack!WatchStep
<1>25. CASE Stack!ListControllers
  BY <1>25 DEF Stack!ListControllers, Stack!WatchStep
<1> QED
  BY <1>1, <1>2, <1>3, <1>4, <1>5, <1>6, <1>7, <1>8, <1>9, <1>10, <1>11, <1>12, <1>13, <1>14, <1>15, <1>16, <1>17, <1>18, <1>19, <1>20, <1>21, <1>22, <1>23, <1>24, <1>25 DEF Stack!Next

(* What keeps a stop that has swept what it has passed. *)
LEMMA SweptStays ==
    ASSUME NEW s, Swept(s), stop'[s] = stop[s], marked' => marked,
           \A b \in Stack!Boxes : Left(b) => Left(b)'
    PROVE  Swept(s)'
  BY DEF Swept, Stack!Boxes, Stack!Sidecars

LEMMA StopsHeld ==
    ASSUME StackInv, UNCHANGED <<start, stop, ours, marked, stuck>>,
           \A b \in Stack!Boxes : box'[b] = box[b] \/ box[b] = "up"
    PROVE  StopInv'
<1>1. \A b \in Stack!Boxes : Left(b) => Left(b)'
  BY DEF Left
<1>2. \A s : Swept(s) => Swept(s)'
  BY <1>1, SweptStays
<1> QED
  BY <1>2 DEF StackInv, StopInv

(* docker took the container away, or left it and is known to have. *)
LEMMA RemoveLeaves ==
    ASSUME StackInv, NEW s, NEW b \in Stack!Boxes, Stack!Remove(s, b)
    PROVE  Left(b)' /\ \A x \in Stack!Boxes : Left(x) => Left(x)'
<1>0. box \in [Stack!Boxes -> {"none", "up", "exited", "gone"}]
  BY DEF StackInv, Stack!TypeOK
<1>1. CASE box[b] # "none" /\ stuck' = stuck \cup {b} /\ box' = box
  BY <1>1 DEF Left
<1>2. CASE stuck' = stuck \ {b} /\ box' = (IF box[b] = "none" THEN box ELSE [box EXCEPT ![b] = "gone"])
  <2>1. Left(b)'
    BY <1>0, <1>2 DEF Left
  <2>2. \A x \in Stack!Boxes : x # b => box'[x] = box[x] /\ (x \in stuck' <=> x \in stuck)
    BY <1>0, <1>2
  <2> QED
    BY <2>1, <2>2 DEF Left
<1> QED
  BY <1>1, <1>2 DEF Stack!Remove

LEMMA StopStep == StackInv /\ Stack!Next => StopInv'
<1> SUFFICES ASSUME StackInv, Stack!Next PROVE StopInv'
  OBVIOUS
<1> USE DEF Stack!startVars, Stack!stopVars, Stack!launchVars, Stack!isaacVars, Stack!watchVars
<1>0. /\ start \in {"new", "started", "raised"} \cup Stack!InDocker /\ stop \in [Stack!Stoppers -> Stack!StopPc]
      /\ box \in [Stack!Boxes -> {"none", "up", "exited", "gone"}]
  BY DEF StackInv, Stack!TypeOK
<1>1. ASSUME start' \notin {"started", "raised"}, UNCHANGED <<stop, ours>>
      PROVE  StopInv'
  BY <1>1 DEF StackInv, StopInv
<1>2. CASE Stack!EnterDockerRun \/ Stack!Prepare \/ Stack!Mark
  BY <1>1, <1>2 DEF Stack!EnterDockerRun, Stack!Prepare, Stack!Mark
<1>3. CASE Stack!StartRun \/ Stack!StartIsaac \/ Stack!StartBridge
  <2>1. start' \notin {"started", "raised"}
    BY <1>3 DEF Stack!StartRun, Stack!StartIsaac, Stack!StartBridge, Stack!DockerRun, Stack!AfterRun, Stack!AfterIsaac
  <2>2. UNCHANGED <<stop, ours>>
    BY <1>3 DEF Stack!StartRun, Stack!StartIsaac, Stack!StartBridge, Stack!DockerRun
  <2> QED
    BY <1>1, <2>1, <2>2
<1>4. CASE Stack!LeaveDockerRun
  <2>1. ours' = ours /\ stop' = IF ours THEN stop ELSE [stop EXCEPT !["late"] = "discard"]
    BY <1>4 DEF Stack!LeaveDockerRun
  <2>2. CASE ours
    BY <2>1, <2>2 DEF StackInv, StopInv
  <2>3. CASE ~ours
    <3>1. stop'["late"] = "discard" /\ "late" \in Stack!Stoppers
      BY <1>0, <2>1, <2>3 DEF Stack!Stoppers
    <3>2. Swept("late")'
      BY <3>1 DEF Swept
    <3> QED
      BY <2>1, <2>3, <3>1, <3>2 DEF StopInv
  <2> QED
    BY <2>2, <2>3
<1>5. CASE Stack!Down
  <2>1. ours' = FALSE /\ start' = start
    BY <1>5 DEF Stack!Down
  <2>2. CASE start \in Stack!InDocker
    BY <2>1, <2>2 DEF StopInv, Stack!InDocker
  <2>3. CASE start \notin Stack!InDocker
    <3>1. stop' = [stop EXCEPT !["fin"] = "discard"]
      BY <1>5, <2>3 DEF Stack!Down
    <3>2. stop'["fin"] = "discard" /\ "fin" \in Stack!Stoppers
      BY <1>0, <3>1 DEF Stack!Stoppers
    <3>3. Swept("fin")'
      BY <3>2 DEF Swept
    <3> QED
      BY <2>1, <3>2, <3>3 DEF StopInv
  <2> QED
    BY <2>2, <2>3
<1>6. ASSUME NEW s \in Stack!Stoppers, NEW then \in Stack!StopPc, then # "idle", stop[s] # "idle",
             stop' = [stop EXCEPT ![s] = then], UNCHANGED <<start, ours>>, marked' => marked,
             \A b \in Stack!Boxes : Left(b) => Left(b)', Swept(s) => Swept(s)'
      PROVE  StopInv'
  <2>1. ~ours
    BY <1>6 DEF StackInv, StopInv
  <2>2. CASE start \in {"started", "raised"}
    <3>1. PICK q \in Stack!Stoppers : stop[q] # "idle" /\ Swept(q)
      BY <2>1, <2>2 DEF StackInv, StopInv
    <3>2. q # s => stop'[q] = stop[q]
      BY <1>0, <1>6
    <3>3. Swept(q)'
      BY <1>6, <3>1, <3>2, SweptStays
    <3>4. stop'[q] # "idle"
      BY <1>0, <1>6, <3>1
    <3> QED
      BY <1>6, <2>1, <3>3, <3>4 DEF StopInv
  <2>3. CASE start \notin {"started", "raised"}
    BY <1>6, <2>1, <2>3 DEF StopInv
  <2> QED
    BY <2>2, <2>3
<1>7. ASSUME NEW s \in Stack!Stoppers, Stack!Discard(s) PROVE StopInv'
  <2>1. stop[s] = "discard" /\ stop' = [stop EXCEPT ![s] = "bridge"] /\ marked' = FALSE
    BY <1>7 DEF Stack!Discard
  <2>2. UNCHANGED <<start, ours, stuck, box>>
    BY <1>7 DEF Stack!Discard
  <2>3. \A b \in Stack!Boxes : Left(b) => Left(b)'
    BY <2>2 DEF Left
  <2>4. stop'[s] = "bridge"
    BY <1>0, <2>1
  <2>5. Swept(s)'
    BY <2>1, <2>4 DEF Swept
  <2> QED
    BY <1>6, <2>1, <2>2, <2>3, <2>5 DEF Stack!StopPc
<1>8. ASSUME NEW s \in Stack!Stoppers, Stack!StopBridge(s) \/ Stack!StopIsaac(s) \/ Stack!StopRun(s)
      PROVE  StopInv'
  <2>1. PICK b \in Stack!Boxes, then \in Stack!StopPc :
          /\ Stack!Step(s, b, then)
          /\ <<b, then>> \in {<<"bridge", "isaac">>, <<"isaac", "run">>, <<"run", "ended">>}
    BY <1>8 DEF Stack!StopBridge, Stack!StopIsaac, Stack!StopRun, Stack!StopPc, Stack!Boxes, Stack!Sidecars
  <2>2. stop[s] = b /\ stop' = [stop EXCEPT ![s] = then] /\ Stack!Remove(s, b)
    BY <2>1 DEF Stack!Step, Stack!HasIsaac
  <2>3. UNCHANGED <<start, ours, marked>>
    BY <2>1 DEF Stack!Step
  <2>4. Left(b)' /\ \A x \in Stack!Boxes : Left(x) => Left(x)'
    BY <2>2, RemoveLeaves
  <2>5. stop'[s] = then
    BY <1>0, <2>2
  <2>6. b # "idle" /\ then # "idle"
    BY <2>1
  <2>7. Swept(s) => Swept(s)'
    <3>1. CASE b = "bridge" /\ then = "isaac"
      BY <2>2, <2>3, <2>4, <2>5, <3>1 DEF Swept
    <3>2. CASE b = "isaac" /\ then = "run"
      BY <2>2, <2>3, <2>4, <2>5, <3>2 DEF Swept, Stack!Boxes, Stack!Sidecars
    <3>3. CASE b = "run" /\ then = "ended"
      BY <2>2, <2>3, <2>4, <2>5, <3>3 DEF Swept, Stack!Boxes, Stack!Sidecars
    <3> QED
      BY <2>1, <3>1, <3>2, <3>3
  <2> QED
    BY <1>6, <2>2, <2>3, <2>4, <2>6, <2>7
<1>9. CASE \/ Stack!LaunchChecks \/ Stack!LaunchBuilds \/ Stack!WriteStage \/ Stack!SpawnerEnds
           \/ Stack!AfterActive \/ Stack!LaunchExits
  <2>1. box["run"] = "up" /\ (box' = box \/ box' = [box EXCEPT !["run"] = "exited"])
    BY <1>9
    DEF Stack!LaunchChecks, Stack!LaunchBuilds, Stack!WriteStage, Stack!SpawnerEnds, Stack!AfterActive,
        Stack!LaunchExits, Stack!LaunchStep, Stack!LaunchEnds
  <2>2. UNCHANGED <<start, stop, ours, marked, stuck>>
    BY <1>9
    DEF Stack!LaunchChecks, Stack!LaunchBuilds, Stack!WriteStage, Stack!SpawnerEnds, Stack!AfterActive,
        Stack!LaunchExits, Stack!LaunchStep
  <2>3. \A b \in Stack!Boxes : box'[b] = box[b] \/ box[b] = "up"
    BY <1>0, <2>1
  <2> QED
    BY <2>2, <2>3, StopsHeld
<1>10. CASE Stack!FindStage \/ Stack!Play \/ Stack!IsaacExits \/ Stack!BridgeExits
  <2>1. box' = box \/ \E b \in Stack!Boxes : box[b] = "up" /\ box' = [box EXCEPT ![b] = "exited"]
    BY <1>10 DEF Stack!FindStage, Stack!Play, Stack!IsaacExits, Stack!BridgeExits, Stack!IsaacStep, Stack!Boxes,
                 Stack!Sidecars
  <2>2. UNCHANGED <<start, stop, ours, marked, stuck>>
    BY <1>10 DEF Stack!FindStage, Stack!Play, Stack!IsaacExits, Stack!BridgeExits, Stack!IsaacStep
  <2>3. \A b \in Stack!Boxes : box'[b] = box[b] \/ box[b] = "up"
    BY <1>0, <2>1
  <2> QED
    BY <2>2, <2>3, StopsHeld
<1>11. CASE Stack!Follow \/ Stack!RunEnds \/ Stack!Wake \/ Stack!EndWithIsaac \/ Stack!ListControllers
  <2>1. UNCHANGED <<start, stop, ours, marked, stuck, box>>
    BY <1>11 DEF Stack!Follow, Stack!RunEnds, Stack!Wake, Stack!EndWithIsaac, Stack!ListControllers, Stack!WatchStep
  <2> QED
    BY <2>1, StopsHeld
<1> QED
  BY <1>2, <1>3, <1>4, <1>5, <1>7, <1>8, <1>9, <1>10, <1>11 DEF Stack!Next

(* A step keeps what the waiter and the log stream go by, and how far the launch
   and Isaac Sim are. *)
LEMMA WatchStep == StackInv /\ Stack!Next => WatchInv'
<1> SUFFICES ASSUME StackInv, Stack!Next PROVE WatchInv'
  OBVIOUS
<1> USE DEF Stack!startVars, Stack!stopVars, Stack!launchVars, Stack!isaacVars, Stack!watchVars
<1>0. WatchInv /\ (ours => \A s \in Stack!Stoppers : stop[s] = "idle")
  BY DEF StackInv, StopInv
<1>1. ASSUME UNCHANGED <<wants, ours, active, ready, waiter, logs>>, marked' = marked,
             "isaac" \in wants /\ start' \in {"isaac", "bridge", "returned", "started"} /\ ours => marked
      PROVE  WatchInv'
  BY <1>0, <1>1 DEF WatchInv
<1>2. CASE Stack!EnterDockerRun \/ Stack!Prepare
  BY <1>1, <1>2 DEF Stack!EnterDockerRun, Stack!Prepare
<1>3. CASE Stack!StartRun \/ Stack!StartIsaac \/ Stack!StartBridge
  <2>1. UNCHANGED <<wants, ours, active, ready, waiter, logs>> /\ marked' = marked
    BY <1>3 DEF Stack!StartRun, Stack!StartIsaac, Stack!StartBridge, Stack!DockerRun
  <2>2. "isaac" \in wants /\ start' \in {"isaac", "bridge", "returned", "started"} /\ ours => marked
    BY <1>0, <1>3
    DEF Stack!StartRun, Stack!StartIsaac, Stack!StartBridge, Stack!DockerRun, Stack!AfterRun, Stack!AfterIsaac, WatchInv
  <2> QED
    BY <1>1, <2>1, <2>2
<1>4. CASE Stack!Mark
  <2>1. marked' = TRUE /\ UNCHANGED <<wants, ours, active, ready, waiter, logs>>
    BY <1>4 DEF Stack!Mark
  <2> QED
    BY <1>0, <2>1 DEF WatchInv
<1>5. CASE Stack!LeaveDockerRun
  <2>1. UNCHANGED <<wants, ours, active, ready, waiter, logs>> /\ marked' = marked
    BY <1>5 DEF Stack!LeaveDockerRun
  <2>2. "isaac" \in wants /\ start' \in {"isaac", "bridge", "returned", "started"} /\ ours => marked
    BY <1>0, <1>5 DEF Stack!LeaveDockerRun, WatchInv
  <2> QED
    BY <1>1, <2>1, <2>2
<1>6. CASE Stack!Down
  <2>1. ours' = FALSE /\ UNCHANGED <<wants, active, ready, waiter, logs>>
    BY <1>6 DEF Stack!Down
  <2> QED
    BY <1>0, <2>1 DEF WatchInv
<1>7. ASSUME NEW s \in Stack!Stoppers, Stack!Discard(s) PROVE WatchInv'
  <2>1. ~ours /\ UNCHANGED <<wants, ours, active, ready, waiter, logs>>
    BY <1>0, <1>7 DEF Stack!Discard
  <2> QED
    BY <1>0, <2>1 DEF WatchInv
<1>8. ASSUME NEW s \in Stack!Stoppers, Stack!StopBridge(s) \/ Stack!StopIsaac(s) \/ Stack!StopRun(s)
      PROVE  WatchInv'
  <2>1. UNCHANGED <<wants, start, marked, ours, active, ready, waiter, logs>>
    BY <1>8 DEF Stack!StopBridge, Stack!StopIsaac, Stack!StopRun, Stack!Step
  <2> QED
    BY <1>0, <2>1 DEF WatchInv
<1>9. CASE \/ Stack!LaunchChecks \/ Stack!LaunchBuilds \/ Stack!WriteStage \/ Stack!SpawnerEnds
           \/ Stack!AfterActive \/ Stack!LaunchExits \/ Stack!BridgeExits
  <2>1. UNCHANGED <<wants, start, marked, ours, active, ready, waiter, logs>>
    BY <1>9
    DEF Stack!LaunchChecks, Stack!LaunchBuilds, Stack!WriteStage, Stack!SpawnerEnds, Stack!AfterActive,
        Stack!LaunchExits, Stack!LaunchStep, Stack!BridgeExits
  <2> QED
    BY <1>0, <2>1 DEF WatchInv
<1>10. CASE Stack!FindStage \/ Stack!Play \/ Stack!IsaacExits
  <2>1. UNCHANGED <<wants, start, marked, ours, active, waiter, logs>> /\ (ready => ready')
    BY <1>10 DEF Stack!FindStage, Stack!Play, Stack!IsaacExits, Stack!IsaacStep
  <2> QED
    BY <1>0, <2>1 DEF WatchInv
<1>11. CASE Stack!Follow
  <2>1. UNCHANGED <<wants, start, marked, ours, active, ready>> /\ logs' = "following"
    BY <1>11 DEF Stack!Follow, Stack!WatchStep
  <2>2. waiter' = IF marked THEN "waiting" ELSE "off"
    BY <1>11 DEF Stack!Follow
  <2> QED
    BY <1>0, <2>1, <2>2 DEF WatchInv
<1>12. CASE Stack!RunEnds
  <2>1. UNCHANGED <<wants, start, marked, ours, active, ready, waiter>> /\ logs' = "ended"
    BY <1>12 DEF Stack!RunEnds, Stack!WatchStep
  <2> QED
    BY <1>0, <2>1 DEF WatchInv
<1>13. CASE Stack!Wake
  <2>1. UNCHANGED <<wants, start, marked, ours, active, ready, logs>> /\ waiter = "waiting" /\ waiter' = "woken"
    BY <1>13 DEF Stack!Wake, Stack!WatchStep
  <2> QED
    BY <1>0, <2>1 DEF WatchInv
<1>14. CASE Stack!EndWithIsaac
  <2>1. UNCHANGED <<wants, start, marked, ours, active, ready>> /\ waiter = "woken" /\ waiter' = "done"
    BY <1>14 DEF Stack!EndWithIsaac, Stack!WatchStep
  <2>2. logs' = IF logs = "following" /\ marked THEN "ended" ELSE logs
    BY <1>14 DEF Stack!EndWithIsaac, Stack!EndsStream
  <2> QED
    BY <1>0, <2>1, <2>2 DEF WatchInv
<1>15. CASE Stack!ListControllers
  <2>1. UNCHANGED <<wants, start, marked, ours, ready, waiter, logs>>
    BY <1>15 DEF Stack!ListControllers, Stack!WatchStep
  <2>2. start = "started" /\ ours /\ (marked => ready)
    BY <1>15 DEF Stack!ListControllers, Stack!Lists
  <2> QED
    BY <1>0, <2>1, <2>2 DEF WatchInv
<1> QED
  BY <1>2, <1>3, <1>4, <1>5, <1>6, <1>7, <1>8, <1>9, <1>10, <1>11, <1>12, <1>13, <1>14, <1>15 DEF Stack!Next

LEMMA LaunchStep == StackInv /\ Stack!Next => LaunchInv'
<1> SUFFICES ASSUME StackInv, Stack!Next PROVE LaunchInv'
  OBVIOUS
<1> USE DEF Stack!startVars, Stack!stopVars, Stack!launchVars, Stack!isaacVars, Stack!watchVars
<1>0. /\ LaunchInv /\ box \in [Stack!Boxes -> {"none", "up", "exited", "gone"}]
      /\ launch \in {"off", "setup", "building", "up", "over", "killed"} /\ world \in {"none", "made", "removed"}
      /\ "run" \in Stack!Boxes
  BY DEF StackInv, Stack!TypeOK, Stack!Boxes
<1>1. CASE Stack!EnterDockerRun \/ Stack!Prepare
  BY <1>0, <1>1 DEF Stack!EnterDockerRun, Stack!Prepare, LaunchInv
<1>2. CASE Stack!StartRun \/ Stack!StartIsaac \/ Stack!StartBridge
  <2>1. PICK b \in Stack!Boxes, then \in {"mark", "bridge", "returned"} : Stack!DockerRun(b, then)
    BY <1>2
    DEF Stack!StartRun, Stack!StartIsaac, Stack!StartBridge, Stack!AfterRun, Stack!AfterIsaac, Stack!Boxes, Stack!Sidecars
  <2>2. /\ start = b /\ start' \in {"mark", "bridge", "returned", "failed"} /\ world' = world
        /\ launch' = IF b = "run" /\ box'[b] = "up" THEN "setup" ELSE launch
        /\ isaac' \in {isaac, "waiting"}
    BY <2>1 DEF Stack!DockerRun
  <2>3. b = "run" => launch = "off"
    BY <1>0, <2>2 DEF LaunchInv
  <2> QED
    BY <1>0, <2>2, <2>3 DEF LaunchInv
<1>3. CASE Stack!Mark \/ Stack!LeaveDockerRun \/ Stack!Down
  <2>1. UNCHANGED <<box, isaac, launch, world>> /\ (start' \in {"new", "prepare", "run"} => start' = start)
    BY <1>3 DEF Stack!Mark, Stack!LeaveDockerRun, Stack!Down
  <2> QED
    BY <1>0, <2>1 DEF LaunchInv
<1>4. ASSUME NEW s \in Stack!Stoppers, Stack!Discard(s) PROVE LaunchInv'
  BY <1>0, <1>4 DEF Stack!Discard, LaunchInv
<1>5. ASSUME NEW s \in Stack!Stoppers, Stack!StopBridge(s) \/ Stack!StopIsaac(s) \/ Stack!StopRun(s)
      PROVE  LaunchInv'
  <2>1. PICK b \in Stack!Boxes, then \in Stack!StopPc : Stack!Step(s, b, then)
    BY <1>5 DEF Stack!StopBridge, Stack!StopIsaac, Stack!StopRun, Stack!StopPc, Stack!Boxes, Stack!Sidecars
  <2>2. Stack!Remove(s, b) /\ start' = start
    BY <2>1 DEF Stack!Step, Stack!HasIsaac
  <2>3. box["run"] = "none" => box'["run"] = "none"
    BY <1>0, <2>2 DEF Stack!Remove
  <2>4. isaac' # "broken"
    BY <1>0, <2>2 DEF Stack!Remove, LaunchInv
  <2>5. <<launch', world'>> = <<launch, world>> \/ <<launch', world'>> \in Stack!Shutdown(launch, world)
    <3>1. CASE <<launch', world'>> = <<launch, world>>
      BY <3>1
    <3>2. CASE \E end \in Stack!Shutdown(launch, world) : launch' = end[1] /\ world' = end[2]
      <4>1. PICK end \in Stack!Shutdown(launch, world) : launch' = end[1] /\ world' = end[2]
        BY <3>2
      <4>2. \E l, w : end = <<l, w>>
        BY DEF Stack!Shutdown
      <4> QED
        BY <4>1, <4>2
    <3> QED
      BY <2>2, <3>1, <3>2 DEF Stack!Remove
  <2>6. /\ launch = "off" => launch' = "off" /\ world' = world
        /\ launch' \in {"off", "setup"} => launch' = launch /\ world' = world
        /\ launch' = "over" => world' # "made"
    BY <1>0, <2>5 DEF Stack!Shutdown, LaunchInv
  <2> QED
    BY <1>0, <2>2, <2>3, <2>4, <2>6 DEF LaunchInv
<1>6. CASE Stack!LaunchChecks \/ Stack!LaunchBuilds \/ Stack!WriteStage \/ Stack!SpawnerEnds \/ Stack!AfterActive \/ Stack!LaunchExits
  <2>1. UNCHANGED <<start, isaac>> /\ launch \in {"setup", "building", "up"}
    BY <1>6
    DEF Stack!LaunchChecks, Stack!LaunchBuilds, Stack!WriteStage, Stack!SpawnerEnds, Stack!AfterActive,
        Stack!LaunchExits, Stack!LaunchStep
  <2>2. \/ launch' = launch /\ world' = world
        \/ launch' = "building"
        \/ launch' = "up"
        \/ launch' = "over" /\ (world' = "removed" \/ (launch = "setup" /\ world' = world))
    <3>1. CASE Stack!LaunchChecks
      BY <3>1 DEF Stack!LaunchChecks, Stack!LaunchEnds
    <3>2. CASE Stack!LaunchBuilds
      BY <3>2 DEF Stack!LaunchBuilds, Stack!LaunchEnds, Stack!CleanUp
    <3>3. CASE Stack!WriteStage \/ Stack!SpawnerEnds
      BY <3>3 DEF Stack!WriteStage, Stack!SpawnerEnds
    <3>4. CASE Stack!AfterActive \/ Stack!LaunchExits
      BY <3>4 DEF Stack!AfterActive, Stack!LaunchExits, Stack!LaunchEnds
    <3> QED
      BY <1>6, <3>1, <3>2, <3>3, <3>4
  <2> QED
    BY <1>0, <2>1, <2>2 DEF LaunchInv
<1>7. CASE Stack!FindStage \/ Stack!Play \/ Stack!IsaacExits \/ Stack!BridgeExits
  <2>0. box' \in {box, [box EXCEPT !["isaac"] = "exited"], [box EXCEPT !["bridge"] = "exited"]}
    BY <1>7 DEF Stack!FindStage, Stack!Play, Stack!IsaacExits, Stack!BridgeExits, Stack!IsaacStep
  <2>1. UNCHANGED <<start, launch, world>> /\ box'["run"] = box["run"]
    <3>1. UNCHANGED <<start, launch, world>>
      BY <1>7 DEF Stack!FindStage, Stack!Play, Stack!IsaacExits, Stack!BridgeExits, Stack!IsaacStep
    <3> QED
      BY <1>0, <2>0, <3>1
  <2>2. isaac' # "broken"
    BY <1>0, <1>7
    DEF Stack!FindStage, Stack!Play, Stack!IsaacExits, Stack!BridgeExits, Stack!StageFile, LaunchInv
  <2> QED
    BY <1>0, <2>1, <2>2 DEF LaunchInv
<1>8. CASE Stack!Follow \/ Stack!RunEnds \/ Stack!Wake \/ Stack!EndWithIsaac \/ Stack!ListControllers
  <2>1. UNCHANGED <<start, box, isaac, launch, world>>
    BY <1>8 DEF Stack!Follow, Stack!RunEnds, Stack!Wake, Stack!EndWithIsaac, Stack!ListControllers, Stack!WatchStep
  <2> QED
    BY <1>0, <2>1 DEF LaunchInv
<1> QED
  BY <1>1, <1>2, <1>3, <1>4, <1>5, <1>6, <1>7, <1>8 DEF Stack!Next

LEMMA StackStep == StackInv /\ Stack!Next => StackInv'
  BY StackTyped, StopStep, WatchStep, LaunchStep DEF StackInv

-----------------------------------------------------------------------------
(* What a summary says of the run's outcome (RunOutcome).                  *)

Pending == requests \cup (IF serving = None THEN {} ELSE {serving})

Told(o) == IF o = None THEN {} ELSE {o}

(* What is known of an episode somewhere: by the node, its verdicts, what was
   collected and what is filed. *)
Known ==
    {[seed |-> node.seed, episode |-> node.episode]} \cup Told(pub) \cup Told(latch) \cup Told(outcome)
      \cup (IF query = None THEN {} ELSE Told(query.got))

SeedsAsked == {r.seed : r \in asked} \cup {BootSeed}

(* One call at a time, and bring-up's is the first. *)
OneCall ==
    /\ \A c, d \in Outcome!Threads : caller[c].at # "free" /\ caller[d].at # "free" => c = d
    /\ caller[BringUp].at # "free" \/ phase = "starting" =>
         resetSeed = None /\ told = 0 /\ \A r \in asked : r.by = BringUp
    /\ phase = "starting" => \A c \in Callers : caller[c].at = "free"
    /\ phase = "running" => caller[BringUp].at = "free"
    /\ caller[BringUp].at = "asked" => asked = {} /\ caller[BringUp].seed = SpecSeed
    /\ \A r \in asked : r.by = BringUp => r.seed = SpecSeed

(* A seed is asked for once, and no episode has it before it is served. *)
SeedsOnce ==
    /\ IsFiniteSet(asked) /\ Pending \subseteq asked /\ serving \notin requests
    /\ \A r, q \in asked : r.seed = q.seed => r = q
    /\ \A r \in asked : r.seed # BootSeed
    /\ \A k \in Known : k.seed \in SeedsAsked
    /\ \A r \in Pending : \A k \in Known : k.seed # r.seed
    /\ node.episode <= Cardinality(asked \ Pending) + 1
    /\ Cardinality(asked) <= MaxResets + 1

(* The episodes known under the seed a call carries, or under the one in force,
   are no older than that call's, or than one a caller was told of. *)
EpisodesOrdered ==
    /\ told <= node.episode
    /\ \A k \in Known : k.episode <= node.episode /\ (k.episode = node.episode => k.seed = node.seed)
    /\ \A k \in Known : k.seed = Outcome!SeedInForce => k.episode >= told
    /\ \A c \in Outcome!Threads :
         /\ caller[c].at = "asked" => caller[c].seed \notin SeedsAsked
         /\ caller[c].at = "waiting" => caller[c].req \in asked /\ caller[c].req.by = c
         /\ caller[c].at = "noting" =>
              /\ c = BringUp => caller[c].seed = SpecSeed
              /\ told < caller[c].episode /\ caller[c].episode <= node.episode
              /\ \A k \in Known : k.seed = caller[c].seed => k.episode >= caller[c].episode

(* Where nothing was given up on, the node's episode is under the seed the agent
   notes or has noted. *)
SeedNoted ==
    /\ \A r \in Pending : caller[r.by].at = "waiting" /\ caller[r.by].req = r
    /\ \A c \in Outcome!Threads : caller[c].at = "noting" => node.seed = caller[c].seed
    /\ told > 0 /\ (\A c \in Outcome!Threads : caller[c].at # "noting") => Outcome!SeedInForce = node.seed

Filed == outcome # None => phase = "closed" /\ outcome.episode >= told

OutcomeInv ==
    Outcome!TypeOK /\ OneCall /\ SeedsOnce /\ EpisodesOrdered /\ (gaveUp \/ SeedNoted) /\ Filed

(* One caller at a time, and seeds that tell the episodes apart. *)
Apart == FreshSeeds /\ BootSeed # SpecSeed /\ \A c, d \in Callers : c = d

LEMMA OutcomeConstants ==
    /\ BootSeed \in Seeds /\ SpecSeed \in Seeds /\ None \notin Seeds /\ BringUp \notin Callers
    /\ MaxResets \in Nat /\ None \notin Outcome!Request
  BY PartsAssumption DEF Outcome!OutcomeAssumption

LEMMA OutcomeStarts == Outcome!Init => OutcomeInv
<1> SUFFICES ASSUME Outcome!Init PROVE OutcomeInv
  OBVIOUS
<1>1. Outcome!TypeOK
  <2>1. 1 \in Outcome!Episodes /\ 0 \in 0..(MaxResets + 2)
    BY OutcomeConstants DEF Outcome!Episodes
  <2>2. node \in [seed: Seeds, episode: Outcome!Episodes, judged: BOOLEAN]
    BY <2>1, OutcomeConstants DEF Outcome!Init
  <2> QED
    BY <2>1, <2>2 DEF Outcome!Init, Outcome!TypeOK, Outcome!Free, Outcome!Maybe
<1>2. Pending = {} /\ Known = {[seed |-> BootSeed, episode |-> 1]} /\ asked = {}
  BY DEF Outcome!Init, Pending, Known, Told
<1>3. \A c \in Outcome!Threads : caller[c].at = "free"
  BY DEF Outcome!Init, Outcome!Free
<1>4. OneCall
  BY <1>2, <1>3 DEF Outcome!Init, OneCall, Outcome!Threads
<1>5. SeedsOnce
  <2>1. IsFiniteSet(asked) /\ Cardinality(asked) = 0 /\ asked \ Pending = {}
    BY <1>2, FS_EmptySet
  <2>2. node.episode <= Cardinality(asked \ Pending) + 1 /\ Cardinality(asked) <= MaxResets + 1
    BY <1>2, <2>1, OutcomeConstants DEF Outcome!Init
  <2> QED
    BY <1>2, <2>1, <2>2 DEF SeedsOnce, SeedsAsked, Outcome!Init
<1>6. EpisodesOrdered
  BY <1>2, <1>3 DEF EpisodesOrdered, Outcome!Init
<1>7. SeedNoted
  BY <1>2, <1>3 DEF SeedNoted, Outcome!Init
<1> QED
  BY <1>1, <1>4, <1>5, <1>6, <1>7 DEF OutcomeInv, Filed, Outcome!Init

LEMMA EpisodesAreInts == Outcome!Episodes \subseteq Int
  BY OutcomeConstants DEF Outcome!Episodes

(* The calls, by where they are. *)
LEMMA CallerAt ==
    ASSUME Outcome!TypeOK, NEW c \in Outcome!Threads
    PROVE  /\ caller[c].at \in {"free", "asked", "waiting", "noting"}
           /\ caller[c].at = "asked" => caller[c].seed \in Seeds
           /\ caller[c].at = "waiting" =>
                caller[c] = [at |-> "waiting", req |-> caller[c].req] /\ caller[c].req \in Outcome!Request
           /\ caller[c].at = "noting" => caller[c].seed \in Seeds /\ caller[c].episode \in Outcome!Episodes
<1>1. caller[c] \in {Outcome!Free} \cup [at: {"asked"}, seed: Seeds] \cup [at: {"waiting"}, req: Outcome!Request]
                      \cup [at: {"noting"}, seed: Seeds, episode: Outcome!Episodes]
  BY DEF Outcome!TypeOK
<1> QED
  BY <1>1 DEF Outcome!Free

LEMMA KnownTyped ==
    ASSUME Outcome!TypeOK
    PROVE  \A k \in Known : k \in Outcome!Outcome /\ k.seed \in Seeds /\ k.episode \in Int
<1>1. node.seed \in Seeds /\ node.episode \in Outcome!Episodes
  BY DEF Outcome!TypeOK
<1>2. Known \subseteq Outcome!Outcome
  BY <1>1 DEF Outcome!TypeOK, Known, Told, Outcome!Outcome, Outcome!Maybe
<1> QED
  BY <1>2, EpisodesAreInts DEF Outcome!Outcome

(* The episodes are numbers. *)
LEMMA EpisodesTyped ==
    ASSUME Outcome!TypeOK
    PROVE  node.seed \in Seeds /\ node.episode \in Int /\ node.episode >= 1 /\ told \in Int /\ told >= 0
  BY OutcomeConstants DEF Outcome!TypeOK, Outcome!Episodes

(* A step of the node's verdicts, of the run's phase or of the query. *)
LEMMA OtherSteps ==
    ASSUME OutcomeInv, UNCHANGED <<caller, asked, requests, serving, resetSeed, told, gaveUp>>,
           node'.seed = node.seed, node'.episode = node.episode, Known' \subseteq Known,
           phase' \in {"starting", "running"} => phase' = phase
    PROVE  OneCall' /\ SeedsOnce' /\ EpisodesOrdered' /\ (gaveUp \/ SeedNoted)'
<1>1. Pending' = Pending /\ SeedsAsked' = SeedsAsked /\ Outcome!SeedInForce' = Outcome!SeedInForce
  BY DEF Pending, SeedsAsked, Outcome!SeedInForce
<1>2. OneCall'
  BY DEF OutcomeInv, OneCall
<1>3. SeedsOnce'
  BY <1>1 DEF OutcomeInv, SeedsOnce
<1>4. EpisodesOrdered'
  BY <1>1 DEF OutcomeInv, EpisodesOrdered
<1>5. (gaveUp \/ SeedNoted)'
  BY <1>1 DEF OutcomeInv, SeedNoted
<1> QED
  BY <1>2, <1>3, <1>4, <1>5

LEMMA OutcomeAsk ==
    ASSUME Apart, OutcomeInv, NEW c \in Outcome!Threads, Outcome!Ask(c)
    PROVE  OutcomeInv'
<1>1. UNCHANGED <<requests, serving, node, pub, latch, phase, resetSeed, query, outcome, told, asked, gaveUp>>
  BY DEF Outcome!Ask, Outcome!nodeVars, Outcome!agentVars
<1>2. Pending' = Pending /\ Known' = Known /\ SeedsAsked' = SeedsAsked /\ Outcome!SeedInForce' = Outcome!SeedInForce
  BY <1>1 DEF Pending, Known, SeedsAsked, Outcome!SeedInForce
<1>3. PICK s \in Seeds :
        /\ caller' = [caller EXCEPT ![c] = [at |-> "asked", seed |-> s]]
        /\ IF c = BringUp THEN s = SpecSeed ELSE s \notin {r.seed : r \in asked} \cup {BootSeed, SpecSeed}
  <2>1. CASE c = BringUp
    BY <2>1, OutcomeConstants DEF Outcome!Ask
  <2>2. CASE c # BringUp
    BY <2>2 DEF Outcome!Ask, Apart
  <2> QED
    BY <2>1, <2>2
<1>4. caller[c].at = "free" /\ IF c = BringUp THEN phase = "starting" /\ (\A r \in asked : r.by # BringUp)
                                             ELSE phase = "running"
  BY DEF Outcome!Ask, Outcome!Free
<1> DEFINE w == [at |-> "asked", seed |-> s]
<1>5. w \in [at: {"asked"}, seed: Seeds] /\ w.at = "asked" /\ w.seed = s
  BY <1>3
<1>6. caller' = [caller EXCEPT ![c] = w] /\ DOMAIN caller = Outcome!Threads
  BY <1>3 DEF OutcomeInv, Outcome!TypeOK
<1> HIDE DEF w
<1>7. caller'[c] = w /\ \A d \in Outcome!Threads : d # c => caller'[d] = caller[d]
  BY <1>6
<1>8. Outcome!TypeOK'
  BY <1>1, <1>5, <1>6 DEF OutcomeInv, Outcome!TypeOK
<1>9. c = BringUp => asked = {}
  BY <1>4 DEF OutcomeInv, OneCall
<1>10. \A d \in Outcome!Threads : d # c => caller[d].at = "free"
  <2>1. CASE c = BringUp
    BY <1>4, <2>1 DEF OutcomeInv, OneCall, Outcome!Threads
  <2>2. CASE c # BringUp
    BY <1>4, <2>2 DEF OutcomeInv, OneCall, Outcome!Threads, Apart
  <2> QED
    BY <2>1, <2>2
<1>11. OneCall'
  <2>1. BringUp \in Outcome!Threads /\ Callers \subseteq Outcome!Threads
    BY DEF Outcome!Threads
  <2>2. \A d, e \in Outcome!Threads : caller'[d].at # "free" /\ caller'[e].at # "free" => d = e
    BY <1>7, <1>10
  <2>3. caller'[BringUp].at # "free" => c = BringUp
    BY <1>7, <1>10, <2>1
  <2>4. caller'[BringUp].at # "free" \/ phase = "starting" =>
          resetSeed = None /\ told = 0 /\ \A r \in asked : r.by = BringUp
    BY <1>4, <2>3 DEF OutcomeInv, OneCall
  <2>5. phase = "starting" => \A d \in Callers : caller'[d].at = "free"
    BY <1>4, <1>7, <1>10, <2>1, OutcomeConstants
  <2>6. phase = "running" => caller'[BringUp].at = "free"
    BY <1>4, <1>7, <2>1 DEF OutcomeInv, OneCall
  <2>7. caller'[BringUp].at = "asked" => asked = {} /\ caller'[BringUp].seed = SpecSeed
    BY <1>3, <1>5, <1>7, <1>9, <2>1, <2>3
  <2> QED
    BY <1>1, <2>2, <2>4, <2>5, <2>6, <2>7 DEF OutcomeInv, OneCall
<1>12. SeedsOnce'
  BY <1>1, <1>2 DEF OutcomeInv, SeedsOnce
<1>13. s \notin SeedsAsked
  <2>1. CASE c = BringUp
    BY <1>3, <1>9, <2>1 DEF SeedsAsked, Apart
  <2>2. CASE c # BringUp
    BY <1>3, <2>2 DEF SeedsAsked
  <2> QED
    BY <2>1, <2>2
<1>14. EpisodesOrdered'
  BY <1>1, <1>2, <1>5, <1>7, <1>13 DEF OutcomeInv, EpisodesOrdered
<1>15. SeedNoted => SeedNoted'
  <2> SUFFICES ASSUME SeedNoted PROVE SeedNoted'
    OBVIOUS
  <2>1. \A r \in Pending : r \in Outcome!Request /\ r.by \in Outcome!Threads
    BY DEF OutcomeInv, SeedsOnce, Outcome!TypeOK, Outcome!Request
  <2>2. \A r \in Pending : caller'[r.by].at = "waiting" /\ caller'[r.by].req = r
    BY <1>4, <1>7, <2>1 DEF SeedNoted
  <2>3. \A d \in Outcome!Threads : caller'[d].at = "noting" <=> caller[d].at = "noting"
    BY <1>4, <1>5, <1>7
  <2>4. \A d \in Outcome!Threads : caller'[d].at = "noting" => node'.seed = caller'[d].seed
    BY <1>1, <1>5, <1>7, <2>3 DEF SeedNoted
  <2> QED
    BY <1>1, <1>2, <2>2, <2>3, <2>4 DEF SeedNoted
<1> QED
  BY <1>1, <1>8, <1>11, <1>12, <1>14, <1>15 DEF OutcomeInv, Filed

(* A call is over: its caller is free again. *)
LEMMA OutcomeFreed ==
    ASSUME OutcomeInv, NEW c \in Outcome!Threads, caller[c].at # "free",
           caller' = [caller EXCEPT ![c] = Outcome!Free],
           \/ phase' = phase
           \/ c = BringUp /\ phase = "starting" /\ phase' \in {"running", "closed"},
           UNCHANGED <<asked, requests, node, pub, latch, resetSeed, query, outcome, told>>,
           serving' \in {serving, None},
           gaveUp' \/ gaveUp' = gaveUp,
           ~gaveUp' /\ SeedNoted => caller[c].at # "noting" /\ \A r \in Pending' : r.by # c
    PROVE  OutcomeInv'
<1>0. BringUp \in Outcome!Threads /\ Callers \subseteq Outcome!Threads
  BY DEF Outcome!Threads
<1>1. Known' = Known /\ SeedsAsked' = SeedsAsked /\ Outcome!SeedInForce' = Outcome!SeedInForce
  BY DEF Known, SeedsAsked, Outcome!SeedInForce
<1>2. Pending' \subseteq Pending /\ None \notin requests
  BY OutcomeConstants DEF Pending, OutcomeInv, Outcome!TypeOK
<1>3. caller'[c].at = "free" /\ \A d \in Outcome!Threads : d # c => caller'[d] = caller[d]
  BY DEF OutcomeInv, Outcome!TypeOK, Outcome!Free
<1>4. Outcome!TypeOK'
  <2>1. caller' \in [Outcome!Threads -> {Outcome!Free} \cup [at: {"asked"}, seed: Seeds]
                     \cup [at: {"waiting"}, req: Outcome!Request]
                     \cup [at: {"noting"}, seed: Seeds, episode: Outcome!Episodes]]
    BY DEF OutcomeInv, Outcome!TypeOK
  <2>2. phase' \in {"starting", "running", "stopping", "closed"}
    BY DEF OutcomeInv, Outcome!TypeOK
  <2>3. gaveUp' \in BOOLEAN
    BY DEF OutcomeInv, Outcome!TypeOK
  <2>4. serving' \in Outcome!Maybe(Outcome!Request)
    BY DEF OutcomeInv, Outcome!TypeOK, Outcome!Maybe
  <2> QED
    BY <2>1, <2>2, <2>3, <2>4 DEF OutcomeInv, Outcome!TypeOK
<1>5. OneCall'
  <2>1. \A d, e \in Outcome!Threads : caller'[d].at # "free" /\ caller'[e].at # "free" => d = e
    BY <1>3 DEF OutcomeInv, OneCall
  <2>2. \A d \in Outcome!Threads : caller'[d].at # "free" => caller[d].at # "free" /\ caller'[d] = caller[d]
    BY <1>3
  <2>3. phase' = "starting" => phase = "starting"
    OBVIOUS
  <2>4. phase' = "running" => caller'[BringUp].at = "free"
    BY <1>0, <1>3 DEF OutcomeInv, OneCall
  <2> QED
    BY <1>0, <2>1, <2>2, <2>3, <2>4 DEF OutcomeInv, OneCall
<1>6. SeedsOnce'
  <2>1. IsFiniteSet(asked \ Pending) /\ IsFiniteSet(asked \ Pending')
    BY FS_Difference DEF OutcomeInv, SeedsOnce
  <2>2. asked \ Pending \subseteq asked \ Pending'
    BY <1>2
  <2>3. Cardinality(asked \ Pending) <= Cardinality(asked \ Pending')
    BY <2>1, <2>2, FS_Subset
  <2>4. Cardinality(asked \ Pending) \in Nat /\ Cardinality(asked \ Pending') \in Nat
    BY <2>1, FS_CardinalityType
  <2>5. node.episode \in Int /\ node.episode <= Cardinality(asked \ Pending) + 1
    BY EpisodesTyped DEF OutcomeInv, SeedsOnce
  <2>6. node.episode <= Cardinality(asked \ Pending') + 1
    BY ONLY <2>3, <2>4, <2>5
  <2>7. serving' \notin requests
    BY <1>2 DEF OutcomeInv, SeedsOnce
  <2> QED
    BY <1>1, <1>2, <2>6, <2>7 DEF OutcomeInv, SeedsOnce
<1>7. EpisodesOrdered'
  BY <1>1, <1>3 DEF OutcomeInv, EpisodesOrdered
<1>8. ~gaveUp' /\ SeedNoted => SeedNoted'
  <2> SUFFICES ASSUME ~gaveUp', SeedNoted PROVE SeedNoted'
    OBVIOUS
  <2>1. \A r \in Pending : r.by \in Outcome!Threads
    BY DEF OutcomeInv, SeedsOnce, Outcome!TypeOK, Outcome!Request
  <2>2. \A r \in Pending' : caller'[r.by].at = "waiting" /\ caller'[r.by].req = r
    BY <1>2, <1>3, <2>1 DEF SeedNoted
  <2>3. \A d \in Outcome!Threads : caller'[d].at = "noting" <=> caller[d].at = "noting"
    BY <1>3
  <2>4. \A d \in Outcome!Threads : caller'[d].at = "noting" => node'.seed = caller'[d].seed
    BY <1>3, <2>3 DEF SeedNoted
  <2> QED
    BY <1>1, <2>2, <2>3, <2>4 DEF SeedNoted
<1>9. (gaveUp \/ SeedNoted)'
  BY <1>8 DEF OutcomeInv
<1>10. Filed'
  BY DEF OutcomeInv, Filed
<1> QED
  BY <1>4, <1>5, <1>6, <1>7, <1>9, <1>10 DEF OutcomeInv

LEMMA OutcomeNotServed ==
    ASSUME OutcomeInv, NEW c \in Outcome!Threads, Outcome!NotServed(c) \/ Outcome!GiveUp(c)
    PROVE  OutcomeInv'
<1>1. caller[c].at \in {"asked", "waiting"} /\ caller' = [caller EXCEPT ![c] = Outcome!Free]
  BY DEF Outcome!NotServed, Outcome!GiveUp, Outcome!Refused
<1>2. \/ phase' = phase
      \/ c = BringUp /\ phase = "starting" /\ phase' \in {"running", "closed"}
  BY DEF Outcome!NotServed, Outcome!GiveUp, Outcome!Refused
<1>3. UNCHANGED <<asked, requests, serving, node, pub, latch, resetSeed, query, outcome, told>>
  BY DEF Outcome!NotServed, Outcome!GiveUp, Outcome!nodeVars
<1>4. (caller[c].at = "asked" /\ gaveUp' = gaveUp) \/ gaveUp'
  BY DEF Outcome!NotServed, Outcome!GiveUp
<1>5. ~gaveUp' /\ SeedNoted => caller[c].at # "noting" /\ \A r \in Pending' : r.by # c
  BY <1>1, <1>3, <1>4 DEF SeedNoted, Pending
<1> QED
  BY <1>1, <1>2, <1>3, <1>4, <1>5, OutcomeFreed

LEMMA OutcomeServedNot ==
    ASSUME OutcomeInv, Outcome!ServedNot
    PROVE  OutcomeInv'
<1>1. serving # None /\ serving' = None /\ UNCHANGED <<asked, requests, node, pub, latch, resetSeed, query, outcome, told, gaveUp>>
  BY DEF Outcome!ServedNot
<1>2. serving \in Outcome!Request /\ serving.by \in Outcome!Threads
  BY <1>1 DEF OutcomeInv, Outcome!TypeOK, Outcome!Maybe, Outcome!Request
<1>3. Pending = requests \cup {serving} /\ Pending' = requests /\ serving \notin requests
  BY <1>1 DEF Pending, OutcomeInv, SeedsOnce
<1> DEFINE c == serving.by
           waits == caller[c] = [at |-> "waiting", req |-> serving]
<1>4. CASE waits
  <2>1. caller[c].at = "waiting" /\ caller[c].req = serving
    BY <1>4
  <2>2. /\ caller' = [caller EXCEPT ![c] = Outcome!Free]
        /\ phase' = IF c = BringUp /\ phase = "starting" THEN "closed" ELSE phase
    BY <1>4 DEF Outcome!ServedNot, Outcome!Refused
  <2>3. SeedNoted => caller[c].at # "noting" /\ \A r \in Pending' : r.by # c
    BY <1>3, <2>1 DEF SeedNoted
  <2> QED
    BY <1>1, <1>2, <2>1, <2>2, <2>3, OutcomeFreed
<1>5. CASE ~waits
  <2>1. UNCHANGED <<caller, phase>>
    BY <1>5 DEF Outcome!ServedNot
  <2>2. ~(caller[c].at = "waiting" /\ caller[c].req = serving)
    BY <1>2, <1>5, CallerAt DEF OutcomeInv
  <2>3. gaveUp
    BY <1>3, <2>2 DEF OutcomeInv, SeedNoted
  <2>4. Known' = Known /\ SeedsAsked' = SeedsAsked /\ Outcome!SeedInForce' = Outcome!SeedInForce
    BY <1>1 DEF Known, SeedsAsked, Outcome!SeedInForce
  <2>5. Outcome!TypeOK'
    BY <1>1, <2>1 DEF OutcomeInv, Outcome!TypeOK, Outcome!Maybe
  <2>6. OneCall' /\ Filed' /\ EpisodesOrdered'
    BY <1>1, <2>1, <2>4 DEF OutcomeInv, OneCall, Filed, EpisodesOrdered
  <2>7. SeedsOnce'
    <3>1. IsFiniteSet(asked \ Pending) /\ IsFiniteSet(asked \ Pending')
      BY FS_Difference DEF OutcomeInv, SeedsOnce
    <3>2. asked \ Pending \subseteq asked \ Pending'
      BY <1>3
    <3>3. Cardinality(asked \ Pending) <= Cardinality(asked \ Pending')
      BY <3>1, <3>2, FS_Subset
    <3>4. Cardinality(asked \ Pending) \in Nat /\ Cardinality(asked \ Pending') \in Nat
      BY <3>1, FS_CardinalityType
    <3>5. node.episode \in Int /\ node.episode <= Cardinality(asked \ Pending) + 1
      BY EpisodesTyped DEF OutcomeInv, SeedsOnce
    <3>6. node.episode <= Cardinality(asked \ Pending') + 1
      BY ONLY <3>3, <3>4, <3>5
    <3>7. None \notin requests
      BY OutcomeConstants DEF OutcomeInv, Outcome!TypeOK
    <3>8. Pending' \subseteq Pending
      BY <1>3
    <3> QED
      BY <1>1, <2>4, <3>6, <3>7, <3>8 DEF OutcomeInv, SeedsOnce
  <2> QED
    BY <1>1, <2>3, <2>5, <2>6, <2>7 DEF OutcomeInv
<1> QED
  BY <1>4, <1>5

(* The module's own name for the cardinality. *)
LEMMA SameCardinality == ASSUME NEW S PROVE Outcome!Cardinality(S) = Cardinality(S)
  BY DEF Outcome!Cardinality, Cardinality

(* While a call is made every other caller is free. *)
LEMMA Alone ==
    ASSUME OutcomeInv, NEW c \in Outcome!Threads, caller[c].at # "free"
    PROVE  \A d \in Outcome!Threads : d # c => caller[d].at = "free"
  BY DEF OutcomeInv, OneCall

LEMMA OutcomeSend ==
    ASSUME OutcomeInv, NEW c \in Outcome!Threads, Outcome!Send(c)
    PROVE  OutcomeInv'
<1> DEFINE r == [by |-> c, n |-> Cardinality(asked) + 1, seed |-> caller[c].seed]
           w == [at |-> "waiting", req |-> r]
<1>0. BringUp \in Outcome!Threads /\ Callers \subseteq Outcome!Threads
  BY DEF Outcome!Threads
<1>1. /\ caller[c].at = "asked" /\ r.n <= MaxResets + 1
      /\ requests' = requests \cup {r} /\ asked' = asked \cup {r} /\ caller' = [caller EXCEPT ![c] = w]
  <2>1. [by |-> c, n |-> Outcome!Cardinality(asked) + 1, seed |-> caller[c].seed] = r
    BY SameCardinality
  <2> HIDE DEF r
  <2> QED
    BY <2>1 DEF Outcome!Send
<1>2. UNCHANGED <<phase, resetSeed, query, outcome, told, serving, node, pub, latch, gaveUp>>
  BY DEF Outcome!Send, Outcome!agentVars
<1>3. caller[c].seed \in Seeds /\ caller[c].seed \notin SeedsAsked
  BY <1>1, CallerAt DEF OutcomeInv, EpisodesOrdered
<1>4. Cardinality(asked) \in Nat
  BY FS_CardinalityType DEF OutcomeInv, SeedsOnce
<1>5. r \in Outcome!Request /\ r.by = c /\ r.seed = caller[c].seed
  <2>1. r.n \in 1..(MaxResets + 1)
    <3>1. r.n = Cardinality(asked) + 1
      OBVIOUS
    <3> HIDE DEF r
    <3> QED
      BY ONLY <1>1, <1>4, <3>1, OutcomeConstants
  <2> QED
    BY <1>3, <2>1 DEF Outcome!Request
<1>6. Cardinality(asked) + 1 <= MaxResets + 1
  BY <1>1
<1>7. w.at = "waiting" /\ w.req = r /\ w \in [at: {"waiting"}, req: Outcome!Request]
  BY <1>5
<1> HIDE DEF r, w
<1>8. caller'[c] = w /\ \A d \in Outcome!Threads : d # c => caller'[d] = caller[d]
  BY <1>1 DEF OutcomeInv, Outcome!TypeOK
<1>9. \A d \in Outcome!Threads : d # c => caller[d].at = "free"
  BY <1>1, Alone
<1>10. r \notin asked /\ \A q \in asked : q.seed # r.seed
  BY <1>3, <1>5 DEF SeedsAsked
<1>11. Known' = Known /\ Outcome!SeedInForce' = Outcome!SeedInForce
  BY <1>2 DEF Known, Outcome!SeedInForce
<1>12. SeedsAsked \subseteq SeedsAsked'
  BY <1>1 DEF SeedsAsked
<1>13. Pending' = Pending \cup {r} /\ Pending \subseteq asked
  BY <1>1, <1>2 DEF Pending, OutcomeInv, SeedsOnce
<1>14. Outcome!TypeOK'
  <2>1. requests' \subseteq Outcome!Request /\ asked' \subseteq Outcome!Request
    BY <1>1, <1>5 DEF OutcomeInv, Outcome!TypeOK
  <2>2. caller' \in [Outcome!Threads -> {Outcome!Free} \cup [at: {"asked"}, seed: Seeds]
                     \cup [at: {"waiting"}, req: Outcome!Request]
                     \cup [at: {"noting"}, seed: Seeds, episode: Outcome!Episodes]]
    BY <1>1, <1>7 DEF OutcomeInv, Outcome!TypeOK
  <2> QED
    BY <1>2, <2>1, <2>2 DEF OutcomeInv, Outcome!TypeOK
<1>15. OneCall'
  <2>1. \A d, e \in Outcome!Threads : caller'[d].at # "free" /\ caller'[e].at # "free" => d = e
    BY <1>8, <1>9
  <2>2. c # BringUp => caller[BringUp].at = "free" /\ phase # "starting"
    BY <1>0, <1>1, <1>9 DEF OutcomeInv, OneCall, Outcome!Threads
  <2>3. c = BringUp => r.seed = SpecSeed /\ phase # "running" /\ resetSeed = None /\ told = 0
                       /\ \A q \in asked : q.by = BringUp
    BY <1>1, <1>5 DEF OutcomeInv, OneCall
  <2>4. c # BringUp => caller'[BringUp].at = "free"
    BY <1>0, <1>8, <1>9
  <2>5. phase = "starting" => \A d \in Callers : caller'[d].at = "free"
    BY <1>0, <1>8, <1>9, <2>2, OutcomeConstants
  <2>6. caller'[BringUp].at # "asked"
    BY <1>0, <1>7, <1>8, <1>9
  <2>7. \A q \in asked' : q.by = BringUp => q.seed = SpecSeed
    BY <1>1, <1>5, <2>3 DEF OutcomeInv, OneCall
  <2>8. caller'[BringUp].at # "free" \/ phase = "starting" =>
          resetSeed = None /\ told = 0 /\ \A q \in asked' : q.by = BringUp
    BY <1>1, <1>5, <2>2, <2>3, <2>4
  <2>9. phase = "running" => caller'[BringUp].at = "free"
    BY <2>3, <2>4
  <2> QED
    BY <1>2, <2>1, <2>5, <2>6, <2>7, <2>8, <2>9 DEF OneCall
<1>16. SeedsOnce'
  <2>1. IsFiniteSet(asked') /\ Cardinality(asked') = Cardinality(asked) + 1
    BY <1>1, <1>10, FS_AddElement DEF OutcomeInv, SeedsOnce
  <2>2. asked' \ Pending' = asked \ Pending
    BY <1>1, <1>10, <1>13
  <2>3. Cardinality(asked') <= MaxResets + 1
    BY <1>6, <2>1
  <2>4. \A p, q \in asked' : p.seed = q.seed => p = q
    BY <1>1, <1>10 DEF OutcomeInv, SeedsOnce
  <2>5. \A q \in asked' : q.seed # BootSeed
    BY <1>1, <1>3, <1>5 DEF OutcomeInv, SeedsOnce, SeedsAsked
  <2>6. \A k \in Known : k.seed \in SeedsAsked' /\ k.seed # r.seed
    BY <1>3, <1>5, <1>12 DEF OutcomeInv, SeedsOnce
  <2>7. \A q \in Pending' : \A k \in Known : k.seed # q.seed
    BY <1>13, <2>6 DEF OutcomeInv, SeedsOnce
  <2>8. serving' \notin requests'
    <3>1. serving # r
      BY <1>5, <1>10, <1>13, OutcomeConstants DEF Pending
    <3> QED
      BY <1>1, <1>2, <3>1 DEF OutcomeInv, SeedsOnce
  <2>9. Pending' \subseteq asked'
    BY <1>1, <1>13
  <2> QED
    BY <1>2, <1>11, <2>1, <2>2, <2>3, <2>4, <2>5, <2>6, <2>7, <2>8, <2>9 DEF OutcomeInv, SeedsOnce
<1>17. EpisodesOrdered'
  <2>1. \A d \in Outcome!Threads : d # c => caller'[d].at = "free"
    BY <1>8, <1>9
  <2>2. \A d \in Outcome!Threads :
         /\ caller'[d].at # "asked" /\ caller'[d].at # "noting"
         /\ caller'[d].at = "waiting" => caller'[d].req \in asked' /\ caller'[d].req.by = d
    BY <1>1, <1>5, <1>7, <1>8, <2>1
  <2> QED
    BY <1>2, <1>11, <2>2 DEF OutcomeInv, EpisodesOrdered
<1>18. SeedNoted => SeedNoted'
  <2> SUFFICES ASSUME SeedNoted PROVE SeedNoted'
    OBVIOUS
  <2>1. \A q \in Pending : q.by \in Outcome!Threads /\ caller[q.by].at = "waiting"
    BY DEF OutcomeInv, SeedsOnce, Outcome!TypeOK, Outcome!Request, SeedNoted
  <2>2. Pending = {}
    BY <1>1, <1>9, <2>1
  <2>3. \A q \in Pending' : caller'[q.by].at = "waiting" /\ caller'[q.by].req = q
    BY <1>5, <1>7, <1>8, <1>13, <2>2
  <2>4. \A d \in Outcome!Threads : caller'[d].at # "noting" /\ caller[d].at # "noting"
    BY <1>1, <1>7, <1>8, <1>9
  <2> QED
    BY <1>2, <1>11, <2>3, <2>4 DEF SeedNoted
<1>19. Filed'
  BY <1>2 DEF OutcomeInv, Filed
<1> QED
  BY <1>2, <1>14, <1>15, <1>16, <1>17, <1>18, <1>19 DEF OutcomeInv

LEMMA OutcomeNote ==
    ASSUME OutcomeInv, NEW c \in Outcome!Threads, Outcome!Note(c)
    PROVE  OutcomeInv'
<1>0. BringUp \in Outcome!Threads /\ Callers \subseteq Outcome!Threads
  BY DEF Outcome!Threads
<1>1. /\ caller[c].at = "noting" /\ caller' = [caller EXCEPT ![c] = Outcome!Free]
      /\ resetSeed' = IF c = BringUp THEN resetSeed ELSE caller[c].seed
      /\ phase' = IF c = BringUp /\ phase = "starting" THEN "running" ELSE phase
      /\ told' = IF phase \in {"starting", "running"} /\ caller[c].episode > told THEN caller[c].episode ELSE told
  BY DEF Outcome!Note
<1>2. UNCHANGED <<requests, serving, node, pub, latch, query, outcome, asked, gaveUp>>
  BY DEF Outcome!Note, Outcome!nodeVars
<1>3. caller[c].seed \in Seeds /\ caller[c].episode \in Outcome!Episodes /\ caller[c].episode \in Int
  BY <1>1, CallerAt, EpisodesAreInts DEF OutcomeInv
<1>4. caller'[c].at = "free" /\ \A d \in Outcome!Threads : d # c => caller'[d] = caller[d]
  BY <1>1 DEF OutcomeInv, Outcome!TypeOK, Outcome!Free
<1>5. \A d \in Outcome!Threads : caller'[d].at = "free"
  BY <1>1, <1>4, Alone
<1>6. Known' = Known /\ SeedsAsked' = SeedsAsked /\ Pending' = Pending
  BY <1>2 DEF Known, SeedsAsked, Pending
<1>7. Outcome!SeedInForce' = caller[c].seed
  <2>1. CASE c = BringUp
    <3>1. resetSeed = None /\ caller[c].seed = SpecSeed
      BY <1>1, <2>1 DEF OutcomeInv, OneCall, EpisodesOrdered
    <3> QED
      BY <1>1, <2>1, <3>1 DEF Outcome!SeedInForce
  <2>2. CASE c # BringUp
    BY <1>1, <1>3, <2>2, OutcomeConstants DEF Outcome!SeedInForce
  <2> QED
    BY <2>1, <2>2
<1>8. told < caller[c].episode /\ caller[c].episode <= node.episode
  BY <1>1 DEF OutcomeInv, EpisodesOrdered
<1>9. told' \in Int /\ told' <= caller[c].episode /\ told' <= node.episode
  BY <1>1, <1>3, <1>8, EpisodesTyped DEF OutcomeInv
<1>10. Outcome!TypeOK'
  <2>1. caller' \in [Outcome!Threads -> {Outcome!Free} \cup [at: {"asked"}, seed: Seeds]
                     \cup [at: {"waiting"}, req: Outcome!Request]
                     \cup [at: {"noting"}, seed: Seeds, episode: Outcome!Episodes]]
    BY <1>1 DEF OutcomeInv, Outcome!TypeOK
  <2>2. phase' \in {"starting", "running", "stopping", "closed"}
    BY <1>1 DEF OutcomeInv, Outcome!TypeOK
  <2>3. resetSeed' \in Outcome!Maybe(Seeds)
    BY <1>1, <1>3 DEF OutcomeInv, Outcome!TypeOK, Outcome!Maybe
  <2>4. told' \in 0..(MaxResets + 2)
    <3>1. told \in 0..(MaxResets + 2)
      BY DEF OutcomeInv, Outcome!TypeOK
    <3> QED
      BY <1>1, <1>3, <3>1, OutcomeConstants DEF Outcome!Episodes
  <2> QED
    BY <1>2, <2>1, <2>2, <2>3, <2>4 DEF OutcomeInv, Outcome!TypeOK
<1>11. OneCall'
  <2>1. phase' # "starting"
    <3>1. c # BringUp => phase # "starting"
      BY <1>1 DEF OutcomeInv, OneCall, Outcome!Threads
    <3> QED
      BY <1>1, <3>1
  <2> QED
    BY <1>0, <1>2, <1>5, <2>1 DEF OutcomeInv, OneCall
<1>12. SeedsOnce'
  BY <1>2, <1>6 DEF OutcomeInv, SeedsOnce
<1>13. EpisodesOrdered'
  <2>1. \A k \in Known : k.seed = caller[c].seed => k.episode >= told'
    <3> SUFFICES ASSUME NEW k \in Known, k.seed = caller[c].seed PROVE k.episode >= told'
      OBVIOUS
    <3>1. k.episode >= caller[c].episode /\ k.episode \in Int
      BY <1>1, KnownTyped DEF OutcomeInv, EpisodesOrdered
    <3> QED
      BY ONLY <1>3, <1>9, <3>1
  <2> QED
    BY <1>2, <1>5, <1>6, <1>7, <1>9, <2>1 DEF OutcomeInv, EpisodesOrdered
<1>14. SeedNoted => SeedNoted'
  <2> SUFFICES ASSUME SeedNoted PROVE SeedNoted'
    OBVIOUS
  <2>1. \A q \in Pending : q.by \in Outcome!Threads /\ caller[q.by].at = "waiting"
    BY DEF OutcomeInv, SeedsOnce, Outcome!TypeOK, Outcome!Request, SeedNoted
  <2>2. Pending = {}
    BY <1>1, <2>1, Alone
  <2>3. node.seed = caller[c].seed
    BY <1>1 DEF SeedNoted
  <2> QED
    BY <1>2, <1>5, <1>6, <1>7, <2>2, <2>3 DEF SeedNoted
<1>15. Filed'
  <2>1. phase = "closed" => told' = told /\ phase' = "closed"
    BY <1>1
  <2> QED
    BY <1>2, <2>1 DEF OutcomeInv, Filed
<1> QED
  BY <1>2, <1>10, <1>11, <1>12, <1>13, <1>14, <1>15 DEF OutcomeInv

LEMMA OutcomeServe ==
    ASSUME OutcomeInv, Outcome!Serve
    PROVE  OutcomeInv'
<1>1. PICK r \in requests : serving' = r /\ requests' = requests \ {r}
  BY DEF Outcome!Serve
<1>2. serving = None /\ UNCHANGED <<phase, resetSeed, query, outcome, told, caller, asked, node, pub, latch, gaveUp>>
  BY DEF Outcome!Serve, Outcome!agentVars
<1>3. r \in Outcome!Request /\ r # None
  BY OutcomeConstants DEF OutcomeInv, Outcome!TypeOK
<1>4. Pending' = Pending
  BY <1>1, <1>2, <1>3 DEF Pending
<1>5. Known' = Known /\ SeedsAsked' = SeedsAsked /\ Outcome!SeedInForce' = Outcome!SeedInForce
  BY <1>2 DEF Known, SeedsAsked, Outcome!SeedInForce
<1>6. Outcome!TypeOK'
  <2>1. requests' \subseteq Outcome!Request /\ serving' \in Outcome!Maybe(Outcome!Request)
    BY <1>1, <1>3 DEF OutcomeInv, Outcome!TypeOK, Outcome!Maybe
  <2> QED
    BY <1>2, <2>1 DEF OutcomeInv, Outcome!TypeOK
<1>7. OneCall' /\ Filed' /\ EpisodesOrdered'
  BY <1>2, <1>5 DEF OutcomeInv, OneCall, Filed, EpisodesOrdered
<1>8. SeedsOnce'
  <2>1. serving' \notin requests'
    BY <1>1
  <2> QED
    BY <1>2, <1>4, <1>5, <2>1 DEF OutcomeInv, SeedsOnce
<1>9. SeedNoted => SeedNoted'
  BY <1>2, <1>4, <1>5 DEF SeedNoted
<1> QED
  BY <1>2, <1>6, <1>7, <1>8, <1>9 DEF OutcomeInv

(* The next episode opens: it is the only one of its seed. *)
LEMMA OutcomeServed ==
    ASSUME OutcomeInv, Outcome!Served
    PROVE  OutcomeInv'
<1> DEFINE e == node.episode + 1
           new == [seed |-> serving.seed, episode |-> e]
           heard(c) == caller[c] = [at |-> "waiting", req |-> serving]
           w == [at |-> "noting", seed |-> serving.seed, episode |-> e]
<1>1. /\ serving # None /\ serving' = None /\ node' = [seed |-> serving.seed, episode |-> e, judged |-> FALSE]
      /\ caller' = [c \in Outcome!Threads |-> IF heard(c) THEN w ELSE caller[c]]
  BY DEF Outcome!Served
<1>2. UNCHANGED <<phase, resetSeed, query, outcome, told, asked, requests, pub, latch, gaveUp>>
  BY DEF Outcome!Served, Outcome!agentVars
<1>3. serving \in Outcome!Request /\ serving.seed \in Seeds /\ serving.by \in Outcome!Threads
  BY <1>1 DEF OutcomeInv, Outcome!TypeOK, Outcome!Maybe, Outcome!Request
<1>4. Pending = requests \cup {serving} /\ Pending' = requests /\ serving \in asked /\ serving \notin requests
  BY <1>1, <1>2 DEF Pending, OutcomeInv, SeedsOnce
<1>5. node.episode \in Int /\ node.episode >= 1 /\ told \in Int
  BY EpisodesTyped DEF OutcomeInv
<1>6. Known' \subseteq Known \cup {new} /\ SeedsAsked' = SeedsAsked /\ Outcome!SeedInForce' = Outcome!SeedInForce
  BY <1>1, <1>2 DEF Known, SeedsAsked, Outcome!SeedInForce
<1>7. new.seed = serving.seed /\ new.episode = e /\ node'.seed = serving.seed /\ node'.episode = e
  BY <1>1
<1>8. w.at = "noting" /\ w.seed = serving.seed /\ w.episode = e
  OBVIOUS
<1>9. e \in Int /\ e > node.episode /\ e > told /\ e \in Nat
  BY <1>5 DEF OutcomeInv, EpisodesOrdered
<1>10. \A k \in Known : k.seed # serving.seed /\ k.episode <= node.episode /\ k.episode \in Int
  BY <1>4, KnownTyped DEF OutcomeInv, SeedsOnce, EpisodesOrdered
<1>11. /\ IsFiniteSet(asked \ Pending) /\ IsFiniteSet(asked)
       /\ asked \ Pending' = (asked \ Pending) \cup {serving} /\ serving \notin asked \ Pending
  BY <1>4, FS_Difference DEF OutcomeInv, SeedsOnce
<1>12. Cardinality(asked \ Pending') = Cardinality(asked \ Pending) + 1 /\ Cardinality(asked \ Pending) \in Nat
  BY <1>11, FS_AddElement, FS_CardinalityType
<1>13. Cardinality(asked \ Pending') <= Cardinality(asked) /\ Cardinality(asked) \in Nat
  <2>1. asked \ Pending' \subseteq asked
    OBVIOUS
  <2> QED
    BY <1>11, <2>1, FS_Subset, FS_CardinalityType
<1>14. e <= Cardinality(asked \ Pending') + 1 /\ e <= MaxResets + 2
  <2>1. node.episode <= Cardinality(asked \ Pending) + 1 /\ Cardinality(asked) <= MaxResets + 1
    BY DEF OutcomeInv, SeedsOnce
  <2>2. e = node.episode + 1 /\ MaxResets \in Nat
    BY OutcomeConstants
  <2> HIDE DEF e
  <2> QED
    BY ONLY <1>5, <1>12, <1>13, <2>1, <2>2
<1>15. e \in Outcome!Episodes
  BY <1>5, <1>14, OutcomeConstants DEF Outcome!Episodes
<1>16. w \in [at: {"noting"}, seed: Seeds, episode: Outcome!Episodes]
  BY <1>3, <1>15
<1>17. node' \in [seed: Seeds, episode: Outcome!Episodes, judged: BOOLEAN]
  BY <1>1, <1>3, <1>15
<1> HIDE DEF e, new, w
<1>18. \A c \in Outcome!Threads : heard(c) => caller[c].at = "waiting" /\ caller[c].req = serving /\ c = serving.by
  <2>1. \A c \in Outcome!Threads : heard(c) => caller[c].at = "waiting" /\ caller[c].req = serving
    OBVIOUS
  <2> QED
    BY <2>1 DEF OutcomeInv, EpisodesOrdered
<1>19. \A c \in Outcome!Threads : caller'[c] = caller[c] \/ (heard(c) /\ caller'[c] = w)
  BY <1>1
<1> HIDE DEF heard
<1>20. Outcome!TypeOK'
  <2>1. caller' \in [Outcome!Threads -> {Outcome!Free} \cup [at: {"asked"}, seed: Seeds]
                     \cup [at: {"waiting"}, req: Outcome!Request]
                     \cup [at: {"noting"}, seed: Seeds, episode: Outcome!Episodes]]
    BY <1>1, <1>16 DEF OutcomeInv, Outcome!TypeOK
  <2>2. serving' \in Outcome!Maybe(Outcome!Request)
    BY <1>1 DEF Outcome!Maybe
  <2> QED
    BY <1>2, <1>17, <2>1, <2>2 DEF OutcomeInv, Outcome!TypeOK
<1>21. \A c \in Outcome!Threads : caller'[c].at = "free" <=> caller[c].at = "free"
  BY <1>8, <1>18, <1>19
<1>22. \A c \in Outcome!Threads : caller'[c].at \in {"free", "asked", "waiting"} => caller'[c] = caller[c]
  BY <1>8, <1>19
<1>23. OneCall'
  <2>1. BringUp \in Outcome!Threads /\ Callers \subseteq Outcome!Threads
    BY DEF Outcome!Threads
  <2> QED
    BY <1>2, <1>21, <1>22, <2>1 DEF OutcomeInv, OneCall
<1>24. SeedsOnce'
  <2>1. \A k \in Known' : k.seed \in SeedsAsked
    BY <1>4, <1>6, <1>7 DEF OutcomeInv, SeedsOnce, SeedsAsked
  <2>2. \A r \in requests : r # serving /\ r \in asked /\ r \in Pending
    BY <1>4 DEF OutcomeInv, SeedsOnce
  <2>3. \A r \in requests : r.seed # serving.seed
    BY <1>4, <2>2 DEF OutcomeInv, SeedsOnce
  <2>4. \A r \in requests : \A k \in Known' : k.seed # r.seed
    BY <1>6, <1>7, <2>2, <2>3 DEF OutcomeInv, SeedsOnce
  <2>5. None \notin requests
    BY OutcomeConstants DEF OutcomeInv, Outcome!TypeOK
  <2>6. requests \subseteq asked
    BY <2>2
  <2> QED
    BY <1>1, <1>2, <1>4, <1>6, <1>7, <1>14, <2>1, <2>4, <2>5, <2>6 DEF OutcomeInv, SeedsOnce
<1>25. EpisodesOrdered'
  <2>1. \A k \in Known' : k.episode <= e /\ (k.episode = e => k.seed = serving.seed)
    BY <1>5, <1>6, <1>7, <1>9, <1>10
  <2>2. \A k \in Known' : k.seed = Outcome!SeedInForce => k.episode >= told
    BY <1>5, <1>6, <1>7, <1>9 DEF OutcomeInv, EpisodesOrdered
  <2>3. told <= e
    BY <1>5, <1>9
  <2>4. ASSUME NEW c \in Outcome!Threads, caller'[c].at = "noting"
        PROVE  /\ c = BringUp => caller'[c].seed = SpecSeed
               /\ told < caller'[c].episode /\ caller'[c].episode <= e
               /\ \A k \in Known' : k.seed = caller'[c].seed => k.episode >= caller'[c].episode
    <3>1. CASE heard(c) /\ caller'[c] = w
      <4>1. c = BringUp => serving.seed = SpecSeed
        BY <1>4, <1>18, <3>1 DEF OutcomeInv, OneCall
      <4>2. \A k \in Known' : k.seed = serving.seed => k.episode >= e
        BY <1>6, <1>7, <1>9, <1>10
      <4> QED
        BY <1>8, <1>9, <3>1, <4>1, <4>2
    <3>2. CASE caller'[c] = caller[c]
      <4>1. /\ c = BringUp => caller[c].seed = SpecSeed
            /\ told < caller[c].episode /\ caller[c].episode <= node.episode
            /\ \A k \in Known : k.seed = caller[c].seed => k.episode >= caller[c].episode
        BY <2>4, <3>2 DEF OutcomeInv, EpisodesOrdered
      <4>2. caller[c].episode \in Int
        BY <2>4, <3>2, CallerAt, EpisodesAreInts DEF OutcomeInv
      <4>3. caller[c].episode <= e
        BY ONLY <1>5, <1>9, <4>1, <4>2
      <4>4. new.episode >= caller[c].episode
        BY ONLY <1>7, <4>2, <4>3, <1>9
      <4> QED
        BY <1>6, <3>2, <4>1, <4>3, <4>4
    <3> QED
      BY <1>19, <3>1, <3>2
  <2>5. ASSUME NEW c \in Outcome!Threads
        PROVE  /\ caller'[c].at = "asked" => caller'[c].seed \notin SeedsAsked
               /\ caller'[c].at = "waiting" => caller'[c].req \in asked /\ caller'[c].req.by = c
    BY <1>22 DEF OutcomeInv, EpisodesOrdered
  <2> QED
    BY <1>2, <1>6, <1>7, <2>1, <2>2, <2>3, <2>4, <2>5 DEF EpisodesOrdered
<1>26. SeedNoted => SeedNoted'
  <2> SUFFICES ASSUME SeedNoted PROVE SeedNoted'
    OBVIOUS
  <2> DEFINE b == serving.by
  <2>1. caller[b].at = "waiting" /\ caller[b].req = serving
    BY <1>4 DEF SeedNoted
  <2>2. heard(b)
    BY <1>3, <2>1, CallerAt DEF OutcomeInv, heard
  <2>3. caller'[b] = w
    BY <1>1, <1>3, <2>2
  <2>4. \A c \in Outcome!Threads : c # b => caller[c].at = "free"
    BY <1>3, <2>1, Alone
  <2>5. requests = {}
    <3> SUFFICES ASSUME NEW r \in requests PROVE FALSE
      OBVIOUS
    <3>1. r.by \in Outcome!Threads /\ caller[r.by].at = "waiting" /\ caller[r.by].req = r
      BY <1>4 DEF SeedNoted, OutcomeInv, Outcome!TypeOK, Outcome!Request
    <3>2. r.by = b
      BY <2>4, <3>1
    <3> QED
      BY <1>4, <2>1, <3>1, <3>2
  <2>6. \A c \in Outcome!Threads : caller'[c].at = "noting" => c = b
    BY <1>19, <1>18, <2>4
  <2> QED
    BY <1>3, <1>4, <1>7, <1>8, <2>3, <2>5, <2>6 DEF SeedNoted
<1>27. Filed'
  BY <1>2 DEF OutcomeInv, Filed
<1> QED
  BY <1>2, <1>20, <1>23, <1>24, <1>25, <1>26, <1>27 DEF OutcomeInv

LEMMA OutcomeVerdicts ==
    ASSUME OutcomeInv, Outcome!Judge \/ Outcome!Publish
    PROVE  OutcomeInv'
<1> DEFINE verdict == [seed |-> node.seed, episode |-> node.episode]
<1>1. /\ UNCHANGED <<phase, resetSeed, query, outcome, told, caller, asked, requests, serving, gaveUp>>
      /\ node' = node \/ node' = [node EXCEPT !.judged = TRUE]
      /\ <<pub', latch'>> \in {<<verdict, latch>>, <<None, pub>>}
  BY DEF Outcome!Judge, Outcome!Publish, Outcome!agentVars
<1>2. node \in [seed: Seeds, episode: Outcome!Episodes, judged: BOOLEAN]
  BY DEF OutcomeInv, Outcome!TypeOK
<1>3. /\ node' \in [seed: Seeds, episode: Outcome!Episodes, judged: BOOLEAN]
      /\ node'.seed = node.seed /\ node'.episode = node.episode
  BY <1>1, <1>2
<1>4. verdict \in Known /\ verdict \in Outcome!Outcome
  BY <1>2 DEF Known, Outcome!Outcome
<1>5. Told(pub') \cup Told(latch') \subseteq Told(pub) \cup Told(latch) \cup {verdict}
  BY <1>1 DEF Told
<1>6. Known' \subseteq Known
  BY <1>1, <1>3, <1>4, <1>5 DEF Known
<1>7. Outcome!TypeOK'
  <2>1. pub' \in Outcome!Maybe(Outcome!Outcome) /\ latch' \in Outcome!Maybe(Outcome!Outcome)
    BY <1>1, <1>4 DEF OutcomeInv, Outcome!TypeOK, Outcome!Maybe
  <2> QED
    BY <1>1, <1>3, <2>1 DEF OutcomeInv, Outcome!TypeOK
<1>8. OneCall' /\ SeedsOnce' /\ EpisodesOrdered' /\ (gaveUp \/ SeedNoted)'
  BY <1>1, <1>3, <1>6, OtherSteps
<1>9. Filed'
  BY <1>1 DEF OutcomeInv, Filed
<1> QED
  BY <1>7, <1>8, <1>9 DEF OutcomeInv

LEMMA OutcomeEnds ==
    ASSUME OutcomeInv, Outcome!Down \/ Outcome!Fail
    PROVE  OutcomeInv'
<1>1. /\ UNCHANGED <<requests, serving, node, pub, latch, resetSeed, query, outcome, told, caller, asked, gaveUp>>
      /\ phase \in {"starting", "running"} /\ phase' \in {"stopping", "closed"}
  BY DEF Outcome!Down, Outcome!Fail, Outcome!nodeVars
<1>2. Known' = Known
  BY <1>1 DEF Known
<1>3. Outcome!TypeOK'
  BY <1>1 DEF OutcomeInv, Outcome!TypeOK
<1>4. OneCall' /\ SeedsOnce' /\ EpisodesOrdered' /\ (gaveUp \/ SeedNoted)'
  BY <1>1, <1>2, OtherSteps
<1>5. Filed'
  BY <1>1 DEF OutcomeInv, Filed
<1> QED
  BY <1>3, <1>4, <1>5 DEF OutcomeInv

LEMMA OutcomeQuery ==
    ASSUME OutcomeInv, Outcome!Query
    PROVE  OutcomeInv'
<1>1. PICK o \in {latch, None} : query' = [got |-> o]
  BY DEF Outcome!Query
<1>2. UNCHANGED <<requests, serving, node, pub, latch, phase, resetSeed, outcome, told, caller, asked, gaveUp>>
  BY DEF Outcome!Query, Outcome!nodeVars
<1>3. query'.got = o
  BY <1>1
<1>4. Known' \subseteq Known
  BY <1>2, <1>3 DEF Known, Told
<1>5. Outcome!TypeOK'
  <2>1. query' \in [got: Outcome!Maybe(Outcome!Outcome)]
    BY <1>1 DEF OutcomeInv, Outcome!TypeOK, Outcome!Maybe
  <2> QED
    BY <1>2, <2>1 DEF OutcomeInv, Outcome!TypeOK
<1>6. OneCall' /\ SeedsOnce' /\ EpisodesOrdered' /\ (gaveUp \/ SeedNoted)'
  BY <1>2, <1>4, OtherSteps
<1>7. Filed'
  BY <1>2 DEF OutcomeInv, Filed
<1> QED
  BY <1>5, <1>6, <1>7 DEF OutcomeInv

LEMMA OutcomeClose ==
    ASSUME OutcomeInv, Outcome!Close
    PROVE  OutcomeInv'
<1>1. /\ UNCHANGED <<requests, serving, node, pub, latch, resetSeed, query, told, caller, asked, gaveUp>>
      /\ phase = "stopping" /\ phase' = "closed" /\ query # None
  BY DEF Outcome!Close, Outcome!nodeVars
<1>2. outcome' = IF query.got # None /\ query.got.seed = Outcome!SeedInForce THEN query.got ELSE None
  BY DEF Outcome!Close, Outcome!OwnOutcome
<1>3. Known' \subseteq Known
  BY <1>1, <1>2 DEF Known, Told
<1>4. query.got \in Outcome!Maybe(Outcome!Outcome)
  BY <1>1 DEF OutcomeInv, Outcome!TypeOK
<1>5. Outcome!TypeOK'
  <2>1. outcome' \in Outcome!Maybe(Outcome!Outcome)
    BY <1>2, <1>4 DEF Outcome!Maybe
  <2> QED
    BY <1>1, <2>1 DEF OutcomeInv, Outcome!TypeOK
<1>6. OneCall' /\ SeedsOnce' /\ EpisodesOrdered' /\ (gaveUp \/ SeedNoted)'
  BY <1>1, <1>3, OtherSteps
<1>7. Filed'
  <2> SUFFICES ASSUME outcome' # None PROVE outcome'.episode >= told
    BY <1>1 DEF Filed
  <2>1. outcome' = query.got /\ query.got # None /\ query.got.seed = Outcome!SeedInForce
    BY <1>2
  <2>2. query.got \in Known
    BY <1>1, <2>1 DEF Known, Told
  <2> QED
    BY <2>1, <2>2 DEF OutcomeInv, EpisodesOrdered
<1> QED
  BY <1>5, <1>6, <1>7 DEF OutcomeInv

LEMMA OutcomeStep == Apart /\ OutcomeInv /\ [Outcome!Next]_Outcome!vars => OutcomeInv'
<1> SUFFICES ASSUME Apart, OutcomeInv, [Outcome!Next]_Outcome!vars PROVE OutcomeInv'
  OBVIOUS
<1>1. CASE UNCHANGED Outcome!vars
  <2>1. UNCHANGED <<requests, serving, node, pub, latch, phase, resetSeed, query, outcome, told, caller, asked, gaveUp>>
    BY <1>1 DEF Outcome!vars, Outcome!nodeVars, Outcome!agentVars
  <2>2. Known' = Known
    BY <2>1 DEF Known
  <2>3. OneCall' /\ SeedsOnce' /\ EpisodesOrdered' /\ (gaveUp \/ SeedNoted)'
    BY <2>1, <2>2, OtherSteps
  <2>4. Outcome!TypeOK' /\ Filed'
    BY <2>1 DEF OutcomeInv, Outcome!TypeOK, Filed
  <2> QED
    BY <2>3, <2>4 DEF OutcomeInv
<1>2. ASSUME NEW c \in Outcome!Threads,
             Outcome!Ask(c) \/ Outcome!NotServed(c) \/ Outcome!Send(c) \/ Outcome!GiveUp(c) \/ Outcome!Note(c)
      PROVE  OutcomeInv'
  BY <1>2, OutcomeAsk, OutcomeNotServed, OutcomeSend, OutcomeNote
<1> QED
  BY <1>1, <1>2, OutcomeServe, OutcomeServed, OutcomeServedNot, OutcomeVerdicts, OutcomeEnds, OutcomeQuery, OutcomeClose
  DEF Outcome!Next

(* The properties. *)
LEMMA OutcomeHolds == OutcomeInv => Outcome!TypeOK /\ Outcome!NotStale /\ Outcome!SeedAgrees
<1> SUFFICES ASSUME OutcomeInv PROVE Outcome!TypeOK /\ Outcome!NotStale /\ Outcome!SeedAgrees
  OBVIOUS
<1>1. Outcome!NotStale
  BY DEF OutcomeInv, Filed, Outcome!NotStale
<1>2. Outcome!SeedAgrees
  BY DEF OutcomeInv, SeedNoted, Outcome!SeedAgrees, Outcome!Quiet, Outcome!Free
<1> QED
  BY <1>1, <1>2 DEF OutcomeInv

(* A step that files the last episode's verdict, or none, with no reset in hand. *)
Filing ==
    phase = "stopping" /\ phase' = "closed" /\ told > 0 /\ ~gaveUp /\ Outcome!Quiet =>
      (query.got # None /\ query.got.episode = node.episode => outcome' = query.got)

LEMMA OutcomeFiling == OutcomeInv /\ [Outcome!Next]_Outcome!vars => [Filing]_Outcome!vars
<1> SUFFICES ASSUME OutcomeInv, Outcome!Next, phase = "stopping", phase' = "closed", told > 0, ~gaveUp, Outcome!Quiet,
                    query.got # None, query.got.episode = node.episode
             PROVE  outcome' = query.got
  BY DEF Filing
<1>1. Outcome!Close
  <2>1. ASSUME NEW c \in Outcome!Threads,
               Outcome!Ask(c) \/ Outcome!NotServed(c) \/ Outcome!Send(c) \/ Outcome!GiveUp(c) \/ Outcome!Note(c)
        PROVE  FALSE
    BY <2>1
    DEF Outcome!Ask, Outcome!NotServed, Outcome!Send, Outcome!GiveUp, Outcome!Note, Outcome!Refused, Outcome!agentVars
  <2>2. ~(Outcome!Serve \/ Outcome!Served \/ Outcome!Judge \/ Outcome!Publish)
    BY DEF Outcome!Serve, Outcome!Served, Outcome!Judge, Outcome!Publish, Outcome!agentVars
  <2>3. ~(Outcome!ServedNot \/ Outcome!Down \/ Outcome!Fail \/ Outcome!Query)
    BY DEF Outcome!ServedNot, Outcome!Refused, Outcome!Down, Outcome!Fail, Outcome!Query
  <2> QED
    BY <2>1, <2>2, <2>3 DEF Outcome!Next
<1>2. query # None /\ outcome' = IF query.got # None /\ query.got.seed = Outcome!SeedInForce THEN query.got ELSE None
  BY <1>1 DEF Outcome!Close, Outcome!OwnOutcome
<1>3. query.got \in Known
  BY <1>2 DEF Known, Told
<1>4. query.got.seed = node.seed
  BY <1>3 DEF OutcomeInv, EpisodesOrdered
<1>5. Outcome!SeedInForce = node.seed
  BY DEF OutcomeInv, SeedNoted, Outcome!Quiet, Outcome!Free
<1> QED
  BY <1>2, <1>4, <1>5

-----------------------------------------------------------------------------
(* Runs whose containers will not go and whose summaries cannot be written *)
(* (SimAgent): what SimAgentProofs proves of it, with the constants of the  *)
(* two parts.                                                              *)

FaultyP == INSTANCE SimAgentProofs
    WITH Runs <- FaultyRuns, Downs <- FaultyDowns, Recorded <- FaultyRecorded, Faults <- Failures,
         run <- agentRun, bring <- bringer, pre <- {}, own <- {}, seen <- {}, waited <- {},
         marks <- {}, settled <- {}, ghost <- {}

(* What SimAgent assumes of its constants. *)
LEMMA FaultyAssumed ==
    /\ NoRun \notin FaultyRuns /\ FaultyRecorded \subseteq FaultyRuns
    /\ Failures \subseteq {"docker", "stop", "disk"} /\ FaultyDowns \cap {"up", "pump", "bring", "expire"} = {}
  BY PartsAssumption, Zenon

(* The definitions of Faulty and of FaultyP are of the same modules. *)
LEMMA FaultyStarts == Faulty!Init => FaultyP!Inv
<1>1. Faulty!Init => FaultyP!Init
  BY DEF
      Faulty!Actors, Faulty!Init, Faulty!Threads, FaultyP!Actors, FaultyP!Init, FaultyP!Threads
<1> QED
  BY FaultyAssumed, <1>1, FaultyP!InvInit

LEMMA FaultyStep == FaultyP!Inv /\ Faulty!Next => FaultyP!Inv'
<1>1. Faulty!Next => FaultyP!Next
  BY DEF
      Faulty!Actors, Faulty!AfterDocker, Faulty!AfterOutcome, Faulty!BringCheck, Faulty!BringFail,
      Faulty!BringFile, Faulty!BringFlip, Faulty!BringPoll, Faulty!BringRecord, Faulty!BringReset,
      Faulty!BringStep, Faulty!BringTo, Faulty!CallerDown, Faulty!ContainerExits, Faulty!DockerCreates,
      Faulty!DockerReturns, Faulty!Down, Faulty!DriveNext, Faulty!EnterStopping, Faulty!ExpireEnd, Faulty!Fail,
      Faulty!Filed, Faulty!FinTo, Faulty!FinishEnd, Faulty!FinishFile, Faulty!FinishMark, Faulty!FinishOutcome,
      Faulty!FinishRecorder, Faulty!FinishRelease, Faulty!FinishStep, Faulty!FinishStop, Faulty!Gone,
      Faulty!Next, Faulty!PumpEnd, Faulty!RunnerStop, Faulty!Starting, Faulty!Threads, Faulty!Unfiled,
      Faulty!UpClaim, Faulty!UpDrive, Faulty!UpEnterDocker, Faulty!UpFail, Faulty!UpFile, Faulty!UpLateMark,
      Faulty!UpLateStop, Faulty!UpLeaveDocker, Faulty!UpRefuse, Faulty!UpThreads, Faulty!View, Faulty!finVars,
      Faulty!lockVars, Faulty!memVars, Faulty!threadVars, Faulty!upVars, Faulty!worldVars, FaultyP!Actors,
      FaultyP!AfterDocker, FaultyP!AfterOutcome, FaultyP!BringCheck, FaultyP!BringFail, FaultyP!BringFile,
      FaultyP!BringFlip, FaultyP!BringPoll, FaultyP!BringRecord, FaultyP!BringReset, FaultyP!BringStep,
      FaultyP!BringTo, FaultyP!CallerDown, FaultyP!ContainerExits, FaultyP!DockerCreates, FaultyP!DockerReturns,
      FaultyP!Down, FaultyP!DriveNext, FaultyP!EnterStopping, FaultyP!ExpireEnd, FaultyP!Fail, FaultyP!Filed,
      FaultyP!FinTo, FaultyP!FinishEnd, FaultyP!FinishFile, FaultyP!FinishMark, FaultyP!FinishOutcome,
      FaultyP!FinishRecorder, FaultyP!FinishRelease, FaultyP!FinishStep, FaultyP!FinishStop, FaultyP!Gone,
      FaultyP!Next, FaultyP!PumpEnd, FaultyP!RunnerStop, FaultyP!Starting, FaultyP!Threads, FaultyP!Unfiled,
      FaultyP!UpClaim, FaultyP!UpDrive, FaultyP!UpEnterDocker, FaultyP!UpFail, FaultyP!UpFile,
      FaultyP!UpLateMark, FaultyP!UpLateStop, FaultyP!UpLeaveDocker, FaultyP!UpRefuse, FaultyP!UpThreads,
      FaultyP!View, FaultyP!finVars, FaultyP!lockVars, FaultyP!memVars, FaultyP!threadVars, FaultyP!upVars,
      FaultyP!worldVars
<1> QED
  BY ONLY FaultyAssumed, <1>1, FaultyP!InvStep, SMTT(60)

LEMMA FaultyStays == FaultyP!Inv /\ UNCHANGED agentParts => FaultyP!Inv'
<1>1. UNCHANGED agentParts => UNCHANGED FaultyP!vars
  BY DEF agentParts, FaultyP!finVars, FaultyP!lockVars, FaultyP!memVars, FaultyP!threadVars, FaultyP!upVars, FaultyP!vars,
      FaultyP!worldVars
<1> QED
  BY FaultyAssumed, <1>1, FaultyP!InvStep

LEMMA FaultyEnded == FaultyP!Inv => Faulty!TypeOK /\ Faulty!OneFinaliser /\ Faulty!Driven
  BY DEF FaultyP!Inv,
      Faulty!Actors, Faulty!BringPc, Faulty!Driven, Faulty!ExpirePc, Faulty!FinPc, Faulty!Finishing,
      Faulty!Launching, Faulty!OneFinaliser, Faulty!PumpPc, Faulty!States, Faulty!Threads, Faulty!TypeOK,
      Faulty!Unclaimed, Faulty!UpPc, FaultyP!Actors, FaultyP!BringPc, FaultyP!Driven, FaultyP!ExpirePc,
      FaultyP!FinPc, FaultyP!Finishing, FaultyP!Launching, FaultyP!OneFinaliser, FaultyP!PumpPc, FaultyP!States,
      FaultyP!Threads, FaultyP!TypeOK, FaultyP!Unclaimed, FaultyP!UpPc

StopsP == INSTANCE SimAgentProofs
    WITH Runs <- StopsRuns, Downs <- {}, Recorded <- {}, Faults <- StopsFailures,
         run <- agentRun, bring <- bringer, pre <- {}, own <- {}, seen <- {}, waited <- {},
         marks <- {}, settled <- {}, ghost <- {}

(* What SimAgent assumes of its constants. *)
LEMMA StopsAssumed ==
    /\ NoRun \notin StopsRuns /\ {} \subseteq StopsRuns
    /\ StopsFailures \subseteq {"docker", "stop", "disk"} /\ {} \cap {"up", "pump", "bring", "expire"} = {}
  BY PartsAssumption, Zenon

(* The definitions of Stops and of StopsP are of the same modules. *)
LEMMA StopsStarts == Stops!Init => StopsP!Inv
<1>1. Stops!Init => StopsP!Init
  BY DEF
      Stops!Actors, Stops!Init, Stops!Threads, StopsP!Actors, StopsP!Init, StopsP!Threads
<1> QED
  BY StopsAssumed, <1>1, StopsP!InvInit

LEMMA StopsStep == StopsP!Inv /\ Stops!Next => StopsP!Inv'
<1>1. Stops!Next => StopsP!Next
  BY DEF
      Stops!Actors, Stops!AfterDocker, Stops!AfterOutcome, Stops!BringCheck, Stops!BringFail, Stops!BringFile,
      Stops!BringFlip, Stops!BringPoll, Stops!BringRecord, Stops!BringReset, Stops!BringStep, Stops!BringTo,
      Stops!CallerDown, Stops!ContainerExits, Stops!DockerCreates, Stops!DockerReturns, Stops!Down,
      Stops!DriveNext, Stops!EnterStopping, Stops!ExpireEnd, Stops!Fail, Stops!Filed, Stops!FinTo,
      Stops!FinishEnd, Stops!FinishFile, Stops!FinishMark, Stops!FinishOutcome, Stops!FinishRecorder,
      Stops!FinishRelease, Stops!FinishStep, Stops!FinishStop, Stops!Gone, Stops!Next, Stops!PumpEnd,
      Stops!RunnerStop, Stops!Starting, Stops!Threads, Stops!Unfiled, Stops!UpClaim, Stops!UpDrive,
      Stops!UpEnterDocker, Stops!UpFail, Stops!UpFile, Stops!UpLateMark, Stops!UpLateStop, Stops!UpLeaveDocker,
      Stops!UpRefuse, Stops!UpThreads, Stops!View, Stops!finVars, Stops!lockVars, Stops!memVars,
      Stops!threadVars, Stops!upVars, Stops!worldVars, StopsP!Actors, StopsP!AfterDocker, StopsP!AfterOutcome,
      StopsP!BringCheck, StopsP!BringFail, StopsP!BringFile, StopsP!BringFlip, StopsP!BringPoll,
      StopsP!BringRecord, StopsP!BringReset, StopsP!BringStep, StopsP!BringTo, StopsP!CallerDown,
      StopsP!ContainerExits, StopsP!DockerCreates, StopsP!DockerReturns, StopsP!Down, StopsP!DriveNext,
      StopsP!EnterStopping, StopsP!ExpireEnd, StopsP!Fail, StopsP!Filed, StopsP!FinTo, StopsP!FinishEnd,
      StopsP!FinishFile, StopsP!FinishMark, StopsP!FinishOutcome, StopsP!FinishRecorder, StopsP!FinishRelease,
      StopsP!FinishStep, StopsP!FinishStop, StopsP!Gone, StopsP!Next, StopsP!PumpEnd, StopsP!RunnerStop,
      StopsP!Starting, StopsP!Threads, StopsP!Unfiled, StopsP!UpClaim, StopsP!UpDrive, StopsP!UpEnterDocker,
      StopsP!UpFail, StopsP!UpFile, StopsP!UpLateMark, StopsP!UpLateStop, StopsP!UpLeaveDocker, StopsP!UpRefuse,
      StopsP!UpThreads, StopsP!View, StopsP!finVars, StopsP!lockVars, StopsP!memVars, StopsP!threadVars,
      StopsP!upVars, StopsP!worldVars
<1> QED
  BY ONLY StopsAssumed, <1>1, StopsP!InvStep, SMTT(60)

LEMMA StopsStays == StopsP!Inv /\ UNCHANGED agentParts => StopsP!Inv'
<1>1. UNCHANGED agentParts => UNCHANGED StopsP!vars
  BY DEF agentParts, StopsP!finVars, StopsP!lockVars, StopsP!memVars, StopsP!threadVars, StopsP!upVars, StopsP!vars,
      StopsP!worldVars
<1> QED
  BY StopsAssumed, <1>1, StopsP!InvStep

LEMMA StopsEnded == StopsP!Inv => Stops!TypeOK /\ Stops!OneFinaliser /\ Stops!Driven
  BY DEF StopsP!Inv,
      Stops!Actors, Stops!BringPc, Stops!Driven, Stops!ExpirePc, Stops!FinPc, Stops!Finishing, Stops!Launching,
      Stops!OneFinaliser, Stops!PumpPc, Stops!States, Stops!Threads, Stops!TypeOK, Stops!Unclaimed, Stops!UpPc,
      StopsP!Actors, StopsP!BringPc, StopsP!Driven, StopsP!ExpirePc, StopsP!FinPc, StopsP!Finishing,
      StopsP!Launching, StopsP!OneFinaliser, StopsP!PumpPc, StopsP!States, StopsP!Threads, StopsP!TypeOK,
      StopsP!Unclaimed, StopsP!UpPc

-----------------------------------------------------------------------------
(* The parts, one in a behaviour.                                          *)

(* A behaviour of the parts is one of the rules, where it is of another part one
   in which no rule is asked for. *)
THEOREM PartsKeepTheRules == PartsSpec => Spec
<1>1. PartsInit => Init
  BY DEF PartsInit
<1>2. [PartsNext]_partsVars => [Next]_vars
  BY DEF PartsNext, partsVars, vars
<1> QED
  BY <1>1, <1>2, PTL DEF PartsSpec, Spec

(* A run comes up whole, with Isaac Sim playing before it is taken for up, is
   seen to be lost, and leaves no container, mark or world behind that docker
   would remove, in whatever order its starts, stops and ends come (runner.py,
   isaac.py, run.launch.py). *)
THEOREM RunsAreWhole == PartsSpec => []RunWhole
<1>1. PartsInit => StackInv
  BY StackStarts DEF PartsInit
<1>2. StackInv /\ [PartsNext]_partsVars => StackInv'
  <2> SUFFICES ASSUME StackInv, [PartsNext]_partsVars PROVE StackInv'
    OBVIOUS
  <2>1. Stack!Next \/ UNCHANGED stackParts
    BY DEF PartsNext, partsVars
  <2>2. CASE UNCHANGED stackParts
    BY <2>2 DEF stackParts, StackInv, Stack!TypeOK, StopInv, Swept, Left, WatchInv, LaunchInv
  <2> QED
    BY <2>1, <2>2, StackStep
<1>3. StackInv => RunWhole
  BY StackWhole DEF RunWhole
<1> QED
  BY <1>1, <1>2, <1>3, PTL DEF PartsSpec

(* A catalog that is answered is of no older image than its caller came to, and
   with no image pulled under a run the meshes kept are of the image they are
   kept for (agent.py: catalog, _read_meshes). *)
THEOREM KeptIsOfImage == PartsSpec => []KeptOfImage
<1> DEFINE KeptInv == (part = "catalog" => CatalogInv) /\ (part = "meshes" => MeshInv)
<1>1. PartsInit => KeptInv
  BY CatalogStarts, MeshesStart DEF PartsInit
<1>2. KeptInv /\ [PartsNext]_partsVars => KeptInv'
  <2> SUFFICES ASSUME KeptInv, [PartsNext]_partsVars PROVE KeptInv'
    OBVIOUS
  <2>1. part' = part
    BY DEF PartsNext, partsVars
  <2>2. ASSUME part = "catalog" PROVE CatalogInv'
    <3>1. Catalog!Next \/ UNCHANGED readsParts
      BY <2>2 DEF PartsNext, partsVars
    <3>2. CASE UNCHANGED readsParts
      BY <2>2, <3>2 DEF readsParts, CatalogInv, MeshesTyped
    <3> QED
      BY <2>2, <3>1, <3>2, CatalogStep
  <2>3. ASSUME part = "meshes" PROVE MeshInv'
    <3>1. MeshReads!Next \/ UNCHANGED readsParts
      BY <2>3 DEF PartsNext, partsVars
    <3>2. CASE UNCHANGED readsParts
      BY <2>3, <3>2 DEF readsParts, MeshInv, CatalogIdle
    <3> QED
      BY <2>3, <3>1, <3>2, MeshesStep
  <2> QED
    BY <2>1, <2>2, <2>3
<1>3. KeptInv => KeptOfImage
  BY CatalogKept, MeshesKept DEF KeptOfImage
<1> QED
  BY <1>1, <1>2, <1>3, PTL DEF PartsSpec

(* A claimed run has one thread that will end it, though docker, its stop and its
   disk may fail it (agent.py: _finish, _fail), and an engine that was told to go
   is guarded though its wrapper is killed (process_group.py). *)
THEOREM RunsAreEnded == PartsSpec => []StillEnded
<1> DEFINE EndInv == (part = "faulty" => FaultyP!Inv) /\ (part = "stops" => StopsP!Inv) /\ EngineInv
<1>1. PartsInit => EndInv
  BY FaultyStarts, StopsStarts, EngineStarts DEF PartsInit
<1>2. EndInv /\ [PartsNext]_partsVars => EndInv'
  <2> SUFFICES ASSUME EndInv, [PartsNext]_partsVars PROVE EndInv'
    OBVIOUS
  <2>1. part' = part
    BY DEF PartsNext, partsVars
  <2>2. ASSUME part = "faulty" PROVE FaultyP!Inv'
    <3>1. Faulty!Next \/ UNCHANGED agentParts
      BY <2>2 DEF PartsNext, partsVars
    <3>2. CASE UNCHANGED agentParts
      BY <2>2, <3>2, FaultyStays
    <3> QED
      BY <2>2, <3>1, <3>2, FaultyStep
  <2>3. ASSUME part = "stops" PROVE StopsP!Inv'
    <3>1. Stops!Next \/ UNCHANGED agentParts
      BY <2>3 DEF PartsNext, partsVars
    <3>2. CASE UNCHANGED agentParts
      BY <2>3, <3>2, StopsStays
    <3> QED
      BY <2>3, <3>1, <3>2, StopsStep
  <2>4. EngineInv'
    <3>1. Engine!Next \/ UNCHANGED engineParts
      BY DEF PartsNext, partsVars
    <3>2. CASE UNCHANGED engineParts
      BY <3>2 DEF engineParts, EngineInv, Engine!TypeOK
    <3> QED
      BY <3>1, <3>2, EngineStep
  <2> QED
    BY <2>1, <2>2, <2>3, <2>4
<1>3. EndInv => StillEnded
  BY FaultyEnded, StopsEnded, EngineGuarded DEF StillEnded
<1> QED
  BY <1>1, <1>2, <1>3, PTL DEF PartsSpec

(* Where the seeds tell a run's episodes apart and one caller resets at a time,
   the outcome filed is never of an episode older than one a caller was told of,
   the seed it is matched by is the one in force, and the last episode's verdict
   that was found is not thrown away (agent.py: reset, _own_outcome). *)
THEOREM OutcomesAreOwn == Apart => (PartsSpec => OutcomeOwn)
<1> SUFFICES ASSUME Apart PROVE PartsSpec => OutcomeOwn
  OBVIOUS
<1>1. PartsInit => OutcomeInv
  BY OutcomeStarts DEF PartsInit
<1>2. [PartsNext]_partsVars => [Outcome!Next]_Outcome!vars
  BY DEF PartsNext, partsVars, outcomeParts, Outcome!vars, Outcome!nodeVars, Outcome!agentVars
<1>3. OutcomeInv /\ [PartsNext]_partsVars => OutcomeInv'
  BY <1>2, OutcomeStep
<1>4. OutcomeInv => (part = "outcome" => Outcome!TypeOK) /\ (Outcome!NotStale /\ Outcome!SeedAgrees)
  BY OutcomeHolds
<1>5. OutcomeInv /\ [PartsNext]_partsVars => [Filing]_Outcome!vars
  BY <1>2, OutcomeFiling
<1> QED
  BY <1>1, <1>3, <1>4, <1>5, PTL DEF PartsSpec, OutcomeOwn, Outcome!OutcomeOwn, Outcome!Kept, Filing
=============================================================================
