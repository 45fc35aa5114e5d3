------------------------------ MODULE RunOutcome ------------------------------
(***************************************************************************)
(* Which episode's verdict a run's summary carries: the agent's `reset`,    *)
(* bring-up's reset and the outcome that `down` collects (agent.py), with   *)
(* the scenario node they reach through `docker exec` (ScenarioNode, here   *)
(* reduced to its episodes and its latch).                                 *)
(*                                                                         *)
(* An episode is known by its number; the code knows only its seed.  `told`, *)
(* `gaveUp` and `asked` are history.                                       *)
(***************************************************************************)
EXTENDS Integers, FiniteSets

CONSTANTS
    None,
    Seeds,
    BootSeed,     \* the launch's seed, which the agent does not pass
    SpecSeed,     \* the seed of the run's spec
    Callers,      \* the workers that may be in `reset` at once
    BringUp,      \* _bring_up's own call of it
    FreshSeeds,   \* no reset asks for a seed a second time
    MaxAsks       \* bound: resets asked for in a run

OutcomeAssumption ==
    /\ BootSeed \in Seeds /\ SpecSeed \in Seeds /\ None \notin Seeds
    /\ BringUp \notin Callers
    /\ FreshSeeds \in BOOLEAN /\ MaxAsks \in Nat

VARIABLES
    phase,        \* the run's state; "closed" once its outcome is filed
    caller,       \* where each reset call is
    requests, serving,   \* reset requests at the node, and the one in hand
    node,         \* the episode the node judges
    pub, latch,   \* a verdict not yet published; what /sim/outcome latches
    resetSeed,    \* Run.reset_seed
    query,        \* what the finaliser's look at the latch gave it
    outcome,      \* Run.outcome
    asked,        \* the requests made
    gaveUp,       \* a reset outlasted RESET_TIMEOUT_S
    told          \* the last episode a caller was told of before the run stopped

nodeVars == <<requests, serving, node, pub, latch>>
agentVars == <<phase, resetSeed, query, outcome, told>>
vars == <<nodeVars, agentVars, caller, asked, gaveUp>>

Threads  == Callers \cup {BringUp}
Maybe(S) == S \cup {None}
Episodes == 1..(MaxAsks + 2)
Outcome  == [seed: Seeds, episode: Episodes]
Request  == [by: Threads, n: 1..(MaxAsks + 1), seed: Seeds]
Free     == [at |-> "free"]

TypeOK ==
    /\ phase \in {"starting", "running", "stopping", "closed"}
    /\ caller \in [Threads -> {Free} \cup [at: {"asked"}, seed: Seeds]
                     \cup [at: {"waiting"}, req: Request]
                     \cup [at: {"noting"}, seed: Seeds, episode: Episodes]]
    /\ requests \subseteq Request /\ serving \in Maybe(Request)
    /\ node \in [seed: Seeds, episode: Episodes, judged: BOOLEAN]
    /\ pub \in Maybe(Outcome) /\ latch \in Maybe(Outcome)
    /\ resetSeed \in Maybe(Seeds)
    /\ query \in {None} \cup [got: Maybe(Outcome)]
    /\ outcome \in Maybe(Outcome)
    /\ asked \subseteq Request /\ gaveUp \in BOOLEAN /\ told \in 0..(MaxAsks + 2)

(* The world is generated, and its first episode opened, under the boot seed. *)
Init ==
    /\ phase = "starting" /\ caller = [c \in Threads |-> Free]
    /\ requests = {} /\ serving = None
    /\ node = [seed |-> BootSeed, episode |-> 1, judged |-> FALSE]
    /\ pub = None /\ latch = None
    /\ resetSeed = None /\ query = None /\ outcome = None
    /\ asked = {} /\ gaveUp = FALSE /\ told = 0

-----------------------------------------------------------------------------
(* A reset call.  "Mutant" marks the operator after it with a bug a change to
   the code could make. *)

Ask(c) ==
    /\ caller[c] = Free
    /\ IF c = BringUp
       THEN /\ phase = "starting" /\ \A r \in asked : r.by # BringUp
            /\ caller' = [caller EXCEPT ![c] = [at |-> "asked", seed |-> SpecSeed]]
       ELSE /\ phase = "running" /\ Cardinality({r \in asked : r.by # BringUp}) < MaxAsks
            /\ \E s \in Seeds :
                 /\ FreshSeeds => s \notin {r.seed : r \in asked} \cup {BootSeed, SpecSeed}
                 /\ caller' = [caller EXCEPT ![c] = [at |-> "asked", seed |-> s]]
    /\ UNCHANGED <<nodeVars, agentVars, asked, gaveUp>>

(* A call that fails: docker does, or the node refuses.  Bring-up's then fails
   the run, which collects no outcome. *)
Refused(c) ==
    /\ caller' = [caller EXCEPT ![c] = Free]
    /\ phase' = IF c = BringUp /\ phase = "starting" THEN "closed" ELSE phase

(* The graph does not list the service, and bring-up goes on without; or docker
   fails. *)
NotServed(c) ==
    /\ caller[c].at = "asked"
    /\ \/ Refused(c)
       \/ /\ caller' = [caller EXCEPT ![c] = Free]
          /\ phase' = IF c = BringUp /\ phase = "starting" THEN "running" ELSE phase
    /\ UNCHANGED <<nodeVars, resetSeed, query, outcome, told, asked, gaveUp>>

Send(c) ==
    /\ caller[c].at = "asked"
    /\ phase # "closed"
    /\ LET r == [by |-> c, n |-> Cardinality(asked) + 1, seed |-> caller[c].seed]
       IN /\ r.n <= MaxAsks + 1
          /\ requests' = requests \cup {r} /\ asked' = asked \cup {r}
          /\ caller' = [caller EXCEPT ![c] = [at |-> "waiting", req |-> r]]
    /\ UNCHANGED <<agentVars, serving, node, pub, latch, gaveUp>>

(* docker exec is given up on, or fails; the request stays where it is. *)
GiveUp(c) ==
    /\ caller[c].at = "waiting"
    /\ Refused(c)
    /\ gaveUp' = TRUE
    /\ UNCHANGED <<nodeVars, resetSeed, query, outcome, told, asked>>

(* Mutant: only the first reset is noted. *)
NoteOnce(c) ==
    /\ caller[c].at = "noting"
    /\ caller' = [caller EXCEPT ![c] = Free]
    /\ IF c = BringUp THEN UNCHANGED resetSeed
       ELSE resetSeed' = IF resetSeed = None THEN caller[c].seed ELSE resetSeed
    /\ phase' = IF c = BringUp /\ phase = "starting" THEN "running" ELSE phase
    /\ told' = IF phase \in {"starting", "running"} /\ caller[c].episode > told
               THEN caller[c].episode ELSE told
    /\ UNCHANGED <<nodeVars, query, outcome, asked, gaveUp>>

(* `reset` notes the seed and answers; bring-up goes on to running. *)
Note(c) ==
    /\ caller[c].at = "noting"
    /\ caller' = [caller EXCEPT ![c] = Free]
    /\ IF c = BringUp THEN UNCHANGED resetSeed ELSE resetSeed' = caller[c].seed
    /\ phase' = IF c = BringUp /\ phase = "starting" THEN "running" ELSE phase
    /\ told' = IF phase \in {"starting", "running"} /\ caller[c].episode > told
               THEN caller[c].episode ELSE told
    /\ UNCHANGED <<nodeVars, query, outcome, asked, gaveUp>>

-----------------------------------------------------------------------------
(* The scenario node, while the run's container is up: one reset at a time,
   and an episode judged once. *)

Serve ==
    /\ phase # "closed" /\ serving = None
    /\ \E r \in requests : serving' = r /\ requests' = requests \ {r}
    /\ UNCHANGED <<agentVars, caller, asked, node, pub, latch, gaveUp>>

(* The objects moved: the next episode opens and the caller, if it still waits,
   hears so. *)
Served ==
    /\ phase # "closed" /\ serving # None
    /\ LET e == node.episode + 1 IN
         /\ node' = [seed |-> serving.seed, episode |-> e, judged |-> FALSE]
         /\ caller' = [c \in Threads |->
                IF caller[c] = [at |-> "waiting", req |-> serving]
                THEN [at |-> "noting", seed |-> serving.seed, episode |-> e] ELSE caller[c]]
    /\ serving' = None
    /\ UNCHANGED <<agentVars, asked, requests, pub, latch, gaveUp>>

(* The engine refused: the old episode goes on. *)
ServedNot ==
    /\ phase # "closed" /\ serving # None
    /\ IF caller[serving.by] = [at |-> "waiting", req |-> serving]
       THEN Refused(serving.by) ELSE UNCHANGED <<caller, phase>>
    /\ serving' = None
    /\ UNCHANGED <<requests, node, pub, latch, resetSeed, query, outcome, told, asked, gaveUp>>

(* The verdict of the episode, decided when no reset is in hand ... *)
Judge ==
    /\ phase # "closed" /\ serving = None /\ ~node.judged /\ pub = None
    /\ node' = [node EXCEPT !.judged = TRUE]
    /\ pub' = [seed |-> node.seed, episode |-> node.episode]
    /\ UNCHANGED <<agentVars, caller, asked, requests, serving, latch, gaveUp>>

(* ... and published after. *)
Publish ==
    /\ phase # "closed" /\ pub # None
    /\ latch' = pub /\ pub' = None
    /\ UNCHANGED <<agentVars, caller, asked, requests, serving, node, gaveUp>>

-----------------------------------------------------------------------------
(* `down`, and the outcome it files. *)

Down ==
    /\ phase \in {"starting", "running"}
    /\ phase' = "stopping"
    /\ UNCHANGED <<nodeVars, resetSeed, query, outcome, told, caller, asked, gaveUp>>

(* The run ends on its own: no outcome is collected. *)
Fail ==
    /\ phase \in {"starting", "running"}
    /\ phase' = "closed"
    /\ UNCHANGED <<nodeVars, resetSeed, query, outcome, told, caller, asked, gaveUp>>

(* The echo prints what is latched, or nothing in time. *)
Query ==
    /\ phase = "stopping" /\ query = None
    /\ \E o \in {latch, None} : query' = [got |-> o]
    /\ UNCHANGED <<nodeVars, phase, resetSeed, outcome, told, caller, asked, gaveUp>>

SeedInForce == IF resetSeed = None THEN SpecSeed ELSE resetSeed

(* Mutants: any latched outcome is the run's; only the spec's seed counts. *)
OwnAny(o)  == o
OwnSpec(o) == IF o # None /\ o.seed = SpecSeed THEN o ELSE None

(* _own_outcome: the latched outcome, when it is under the seed in force. *)
OwnOutcome(o) == IF o # None /\ o.seed = SeedInForce THEN o ELSE None

(* Mutant: the query's answer is filed as it came. *)
CloseRaw ==
    /\ phase = "stopping" /\ query # None
    /\ outcome' = query
    /\ phase' = "closed"
    /\ UNCHANGED <<nodeVars, resetSeed, query, told, caller, asked, gaveUp>>

Close ==
    /\ phase = "stopping" /\ query # None
    /\ outcome' = OwnOutcome(query.got)
    /\ phase' = "closed"
    /\ UNCHANGED <<nodeVars, resetSeed, query, told, caller, asked, gaveUp>>

Next ==
    \/ \E c \in Threads : Ask(c) \/ NotServed(c) \/ Send(c) \/ GiveUp(c) \/ Note(c)
    \/ Serve \/ Served \/ ServedNot \/ Judge \/ Publish
    \/ Down \/ Fail \/ Query \/ Close

Spec == Init /\ [][Next]_vars

-----------------------------------------------------------------------------
(* Properties. *)

Quiet == requests = {} /\ serving = None /\ \A c \in Threads : caller[c] = Free

(* "A run stopped after a reset but before the new episode ended reports a null
   outcome, not the previous episode's" (agent/README.md): the outcome filed is
   never of an episode older than one a caller was told of before the stop. *)
NotStale == outcome # None => outcome.episode >= told

(* "The seed of the last reset that took" (agent.py, Run.reset_seed): with no
   reset in hand or given up on, the seed the agent matches against is the one the node's
   episode runs under. *)
SeedAgrees == phase = "running" /\ told > 0 /\ ~gaveUp /\ Quiet => SeedInForce = node.seed

(* The other way round: the last episode's verdict, if `down` found it latched
   and files it with no reset in hand or given up on, is the run's outcome and not thrown away. *)
Kept ==
    [][phase = "stopping" /\ phase' = "closed" /\ told > 0 /\ ~gaveUp /\ Quiet =>
         (query.got # None /\ query.got.episode = node.episode => outcome' = query.got)]_vars

(* The outcome is the last episode's and no other's, and the seed it is matched
   by is too. *)
OutcomeOwn == [](NotStale /\ SeedAgrees) /\ Kept
=============================================================================
