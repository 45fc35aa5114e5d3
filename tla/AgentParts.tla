----------------------------- MODULE AgentParts -----------------------------
(***************************************************************************)
(* Parts of the agent that are modelled each on its own, one in a behaviour: *)
(* the rules a run is asked for, checked and started by, what a summary says *)
(* of the run's outcome, runs whose containers will not be removed and whose *)
(* summaries cannot be written, the containers of a run, what is read from   *)
(* an image and kept, and how an engine inside a run is shut down.          *)
(***************************************************************************)
EXTENDS RunRules

CONSTANTS
    None,
    \* RunOutcome
    Seeds, BootSeed, SpecSeed, Callers, BringUp, FreshSeeds, MaxResets,
    \* SimAgent, with requests and callers of down that may meet every failure, and
    \* with requests that meet one another
    NoRun, FaultyRuns, FaultyDowns, FaultyRecorded, Failures, StopsRuns, StopsFailures,
    \* AgentReads, of the catalog and of the meshes
    CatalogCallers, MaxCatalogs, MeshRuns, Meshes, MaxImage,
    \* ProcessGroup
    KillAfter, TermAfter, KillWait, MaxTime

VARIABLES part,
    \* SimAgent
    agentRun, state, up, startOk, inDocker, pump, bringer, expire, fin, stopIt,
    seeded, ended, disk, container, recorder,
    \* RunOutcome
    phase, caller, requests, serving, node, pub, latch, resetSeed, query, outcome,
    asked, gaveUp, told,
    \* RunStack
    wants, hasRoles, start, stop, box, stuck, marked, ours, active, launch, world,
    writing, spawner, roles, isaac, ready, logs, waiter,
    \* AgentReads
    tag, call, flight, cached, failed, asks, imageBox, described, reader,
    meshesRead, kept, keptImage,
    \* ProcessGroup
    heeds, now, sent, inbox, wrapper, watch, job, signalled

agentParts ==
    <<agentRun, state, up, startOk, inDocker, pump, bringer, expire, fin, stopIt,
      seeded, ended, disk, container, recorder>>
outcomeParts ==
    <<phase, caller, requests, serving, node, pub, latch, resetSeed, query, outcome,
      asked, gaveUp, told>>
stackParts ==
    <<wants, hasRoles, start, stop, box, stuck, marked, ours, active, launch, world, writing,
      spawner, roles, isaac, ready, logs, waiter>>
readsParts ==
    <<tag, call, flight, cached, failed, asks, imageBox, described, reader, meshesRead, kept, keptImage>>
engineParts == <<heeds, now, sent, inbox, wrapper, watch, job, signalled>>

partsVars == <<part, vars, agentParts, outcomeParts, stackParts, readsParts, engineParts>>

Outcome == INSTANCE RunOutcome WITH MaxAsks <- MaxResets

Faulty == INSTANCE SimAgent
    WITH Runs <- FaultyRuns, Downs <- FaultyDowns, Recorded <- FaultyRecorded, Faults <- Failures,
         run <- agentRun, bring <- bringer

Stops == INSTANCE SimAgent
    WITH Runs <- StopsRuns, Downs <- {}, Recorded <- {}, Faults <- StopsFailures,
         run <- agentRun, bring <- bringer

Stack == INSTANCE RunStack WITH told <- active

\* The catalog and the meshes have nothing in common but the tag.
Catalog == INSTANCE AgentReads
    WITH Callers <- CatalogCallers, Runs <- {}, Meshes <- {}, PullsAnytime <- TRUE,
         MaxAsks <- MaxCatalogs, box <- imageBox

MeshReads == INSTANCE AgentReads
    WITH Callers <- {}, Runs <- MeshRuns, PullsAnytime <- FALSE,
         MaxAsks <- 0, box <- imageBox

Engine == INSTANCE ProcessGroup WITH told <- signalled

ASSUME PartsAssumption ==
    /\ Outcome!OutcomeAssumption
    /\ NoRun \notin FaultyRuns \cup StopsRuns /\ FaultyRecorded \subseteq FaultyRuns
    /\ Failures \subseteq {"docker", "stop", "disk"} /\ StopsFailures \subseteq {"docker", "stop", "disk"}
    /\ FaultyDowns \cap {"up", "pump", "bring", "expire"} = {}
    /\ None \notin Int \cup Outcome!Request
    /\ MaxImage \in Nat \ {0} /\ MaxCatalogs \in Nat /\ MaxTime \in Nat

Others == {"outcome", "faulty", "stops", "stack", "catalog", "meshes", "engine"}

\* The part a behaviour is not about stays in one of its first states.
PartsInit ==
    /\ part \in {"rules"} \cup Others
    /\ part = "rules" \/ (image = 1 /\ isaacHost = FALSE /\ spec = CHOOSE s \in Specs : TRUE)
    /\ Init
    /\ Outcome!Init
    /\ IF part = "faulty" THEN Faulty!Init ELSE Stops!Init
    /\ part = "stack" \/ (wants = {} /\ hasRoles = FALSE)
    /\ Stack!Init
    /\ IF part = "meshes" THEN MeshReads!Init ELSE Catalog!Init
    /\ part = "engine" \/ heeds = {}
    /\ Engine!Init

PartsNext ==
    /\ UNCHANGED part
    /\ IF part = "rules" THEN Next ELSE UNCHANGED vars
    /\ IF part = "outcome" THEN Outcome!Next ELSE UNCHANGED outcomeParts
    /\ CASE part = "faulty" -> Faulty!Next
         [] part = "stops"  -> Stops!Next
         [] OTHER           -> UNCHANGED agentParts
    /\ IF part = "stack" THEN Stack!Next ELSE UNCHANGED stackParts
    /\ CASE part = "catalog" -> Catalog!Next
         [] part = "meshes"  -> MeshReads!Next
         [] OTHER            -> UNCHANGED readsParts
    /\ IF part = "engine" THEN Engine!Next ELSE UNCHANGED engineParts

PartsSpec == PartsInit /\ [][PartsNext]_partsVars

(* Of RunStack: a run is up whole, seen to be lost, and leaves nothing. *)
RunWhole ==
    part = "stack" => Stack!TypeOK /\ Stack!RunWhole

(* Of AgentReads: a kept catalog or mesh is of its image. *)
KeptOfImage ==
    /\ part = "catalog" => Catalog!TypeOK /\ Catalog!KeptOfImage
    /\ part = "meshes" => MeshReads!TypeOK /\ MeshReads!KeptOfImage

(* Somebody will end it: a claimed run has one thread that will, though its
   container is not removed and its summary not written; an engine told to go,
   its wrapper or a watchdog, though the wrapper is killed. *)
StillEnded ==
    /\ part = "faulty" => Faulty!TypeOK /\ Faulty!OneFinaliser /\ Faulty!Driven
    /\ part = "stops" => Stops!TypeOK /\ Stops!OneFinaliser /\ Stops!Driven
    /\ part = "engine" => Engine!TypeOK /\ Engine!GuardedAgainstKill

(* Of RunOutcome: the outcome filed is the last episode's and no other's. *)
OutcomeOwn == [](part = "outcome" => Outcome!TypeOK) /\ Outcome!OutcomeOwn
=============================================================================
