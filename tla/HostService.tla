---------------------------- MODULE HostService ----------------------------
(***************************************************************************)
(* The sim host's service (service.py) around its agent: queries wait in     *)
(* bounded lanes, a stop signal shuts the lanes and brings the run down, a    *)
(* crash leaves containers and open summaries, and the next start recovers    *)
(* (SimAgent.recover).  When the agent's Docker label is shared, a client's    *)
(* in-process agent (client.Local) starts and stops runs beside it.           *)
(*                                                                         *)
(* A run is reduced to what Docker and the runs directory show of it; its     *)
(* bring-up and finaliser are SimAgent's.                                    *)
(***************************************************************************)
EXTENDS Integers, Sequences, FiniteSets, SequencesExt

CONSTANTS
    None,
    Ups, Downs, Works, Debugs,   \* the queries: up, down, perception_debug, any other
    Workers, Ceiling,            \* per lane: threads, and queries waiting or running
    MaxRuns,                     \* bound: runs started on this machine
    MaxStarts                    \* bound: starts of the service

Lanes   == {"work", "stop", "debug"}
Queries == Ups \cup Downs \cup Works \cup Debugs
RunIds  == 1..MaxRuns
Procs   == {"svc", "cli"}

ASSUME ServiceAssumption ==
    /\ Workers \in [Lanes -> Nat \ {0}] /\ Ceiling \in [Lanes -> Nat \ {0}]
    /\ MaxRuns \in Nat /\ MaxStarts \in Nat /\ None \notin Nat

VARIABLES
    shared,     \* constant: other processes hold runs under the label too
    svc,        \* the service process
    held,       \* the runs recover found up, and left
    query,      \* where each query is
    queue,      \* per lane, the queries no worker has taken
    used,       \* per lane, the slots taken
    run,        \* per process, its agent's run
    state,      \* per process, that run's state
    cli,        \* the in-process client's `up`: "idle", "checked", "docker" or "up"
    box,        \* the run containers up under the label
    file,       \* each run's summary
    \* history
    owner,      \* who started each run
    starts,     \* starts of the service
    unlisted,   \* a docker listing or removal failed
    stopped,    \* the service went by its stop signal
    early       \* a client's runs that recover closed before their container was up

vars == <<shared, svc, held, query, queue, used, run, state, cli, box, file,
          owner, starts, unlisted, stopped, early>>
laneVars == <<query, queue, used>>
runVars  == <<run, state, box, file, owner>>

(* Mutant: down waits with the rest. *)
LaneOfDownWorks(q) == IF q \in Debugs THEN "debug" ELSE "work"
LaneOf(q) == IF q \in Downs THEN "stop" ELSE IF q \in Debugs THEN "debug" ELSE "work"

Steps   == {"taken", "checked", "docker", "finish"}    \* a worker has it
Working(l) == {q \in Queries : LaneOf(q) = l /\ query[q] \in Steps}

TypeOK ==
    /\ shared \in BOOLEAN
    /\ svc \in {"gone", "clear", "close", "serving", "closing", "final", "joining"}
    /\ held \subseteq RunIds
    /\ query \in [Queries -> {"out", "queued"} \cup Steps \cup {"over"}]
    /\ \A l \in Lanes : ToSet(queue[l]) \subseteq Queries /\ used[l] \in 0..Ceiling[l]
    /\ run \in [Procs -> RunIds \cup {None}]
    /\ \A p \in Procs : state[p] \in {"idle", "starting", "running", "stopping"}
                        /\ (run[p] = None <=> state[p] = "idle")
    /\ cli \in {"idle", "checked", "docker", "up"}
    /\ box \subseteq RunIds /\ file \in [RunIds -> {"absent", "open", "closed"}]
    /\ owner \in [RunIds -> Procs \cup {None}] /\ starts \in 0..MaxStarts
    /\ unlisted \in BOOLEAN /\ stopped \in BOOLEAN /\ early \subseteq RunIds

Init ==
    /\ shared \in BOOLEAN
    /\ svc = "gone" /\ held = {}
    /\ query = [q \in Queries |-> "out"]
    /\ queue = [l \in Lanes |-> <<>>] /\ used = [l \in Lanes |-> 0]
    /\ run = [p \in Procs |-> None] /\ state = [p \in Procs |-> "idle"] /\ cli = "idle"
    /\ box = {} /\ file = [r \in RunIds |-> "absent"] /\ owner = [r \in RunIds |-> None]
    /\ starts = 0 /\ unlisted = FALSE /\ stopped = FALSE /\ early = {}

-----------------------------------------------------------------------------
(* An agent's run, of either process. *)

Claim(p) ==
    /\ run[p] = None
    /\ \E r \in RunIds :
         /\ file[r] = "absent" /\ \A s \in RunIds : s < r => file[s] # "absent"
         /\ run' = [run EXCEPT ![p] = r] /\ state' = [state EXCEPT ![p] = "starting"]
         /\ file' = [file EXCEPT ![r] = "open"] /\ owner' = [owner EXCEPT ![r] = p]
    /\ UNCHANGED box

(* `docker run` returns: a run brought down meanwhile leaves no container. *)
Docker(p, r) ==
    /\ IF run[p] = r /\ state[p] = "starting"
       THEN box' = box \cup {r} /\ state' = [state EXCEPT ![p] = "running"]
       ELSE UNCHANGED <<box, state>>
    /\ UNCHANGED <<run, file, owner>>

Stopping(p) ==
    /\ run[p] # None /\ state[p] # "stopping"
    /\ state' = [state EXCEPT ![p] = "stopping"]
    /\ UNCHANGED <<run, box, file, owner>>

Finalise(p) ==
    /\ box' = box \ {run[p]} /\ file' = [file EXCEPT ![run[p]] = "closed"]
    /\ run' = [run EXCEPT ![p] = None] /\ state' = [state EXCEPT ![p] = "idle"]
    /\ UNCHANGED owner

(* A label's run this process does not hold; a listing that fails shows none. *)
Foreign(p) == box \ {run[p]}

-----------------------------------------------------------------------------
(* The lanes. *)

(* Mutant: a full lane takes one more. *)
ArriveFull(q) ==
    /\ svc = "serving" /\ query[q] = "out"
    /\ used' = [used EXCEPT ![LaneOf(q)] = @ + 1]
    /\ queue' = [queue EXCEPT ![LaneOf(q)] = Append(@, q)]
    /\ query' = [query EXCEPT ![q] = "queued"]
    /\ UNCHANGED <<shared, svc, held, runVars, cli, starts, unlisted, stopped, early>>

(* A query gets a slot or is told busy at once. *)
Arrive(q) ==
    LET l == LaneOf(q) IN
    /\ svc = "serving" /\ query[q] = "out"
    /\ IF used[l] < Ceiling[l]
       THEN /\ used' = [used EXCEPT ![l] = @ + 1] /\ queue' = [queue EXCEPT ![l] = Append(@, q)]
            /\ query' = [query EXCEPT ![q] = "queued"]
       ELSE query' = [query EXCEPT ![q] = "over"] /\ UNCHANGED <<used, queue>>
    /\ UNCHANGED <<shared, svc, held, runVars, cli, starts, unlisted, stopped, early>>

(* Between the lanes' shutdown and the queryables', a query reaches a pool that
   takes no more: the slot is given back and no reply is sent. *)
ArriveLate(q) ==
    /\ svc = "closing" /\ query[q] = "out"
    /\ query' = [query EXCEPT ![q] = "over"]
    /\ UNCHANGED <<shared, svc, held, queue, used, runVars, cli, starts, unlisted, stopped, early>>

Take(l) ==
    /\ svc = "serving" /\ queue[l] # <<>> /\ Cardinality(Working(l)) < Workers[l]
    /\ query' = [query EXCEPT ![Head(queue[l])] = "taken"]
    /\ queue' = [queue EXCEPT ![l] = Tail(@)]
    /\ UNCHANGED <<shared, svc, held, used, runVars, cli, starts, unlisted, stopped, early>>

(* A query is over when it was answered, refused or dropped without a reply. *)
(* Mutant: a slot comes back only with a reply that was sent. *)
DoneAnswered(q) ==
    /\ query' = [query EXCEPT ![q] = "over"] /\ UNCHANGED queue
    /\ used' \in {used, [used EXCEPT ![LaneOf(q)] = @ - 1]}

(* The work is over, its reply sent or failed to be; the slot comes back. *)
Done(q) ==
    /\ query' = [query EXCEPT ![q] = "over"]
    /\ used' = [used EXCEPT ![LaneOf(q)] = @ - 1] /\ UNCHANGED queue

To(q, step) == query' = [query EXCEPT ![q] = step] /\ UNCHANGED <<queue, used>>
Alive == svc \notin {"gone", "clear", "close"}
Same  == UNCHANGED <<shared, svc, held, cli, starts, stopped, early>>

AnyWork(q) ==
    /\ q \in Works \cup Debugs /\ query[q] = "taken" /\ Alive
    /\ Done(q) /\ UNCHANGED <<runVars, unlisted>> /\ Same

(* Mutant: `up` looks for its own run only. *)
UpCheckOwn(q) ==
    /\ q \in Ups /\ query[q] = "taken" /\ Alive
    /\ To(q, "checked") /\ UNCHANGED <<runVars, unlisted>> /\ Same

(* `up` asks Docker for another process's run ... *)
UpCheck(q) ==
    /\ q \in Ups /\ query[q] = "taken" /\ Alive
    /\ \/ Foreign("svc") = {} /\ To(q, "checked") /\ UNCHANGED unlisted
       \/ Foreign("svc") # {} /\ Done(q) /\ UNCHANGED unlisted
       \/ To(q, "checked") /\ unlisted' = TRUE
    /\ UNCHANGED runVars /\ Same

(* ... then settles and claims ... *)
UpClaim(q) ==
    /\ q \in Ups /\ query[q] = "checked" /\ Alive
    /\ \/ Claim("svc") /\ To(q, "docker")
       \/ run["svc"] # None /\ Done(q) /\ UNCHANGED runVars
    /\ UNCHANGED unlisted /\ Same

(* ... and starts its container, or fails and lets the run go. *)
UpDocker(q) ==
    /\ q \in Ups /\ query[q] = "docker" /\ Alive
    /\ Done(q)
    /\ \/ \E r \in RunIds : /\ owner[r] = "svc" /\ \A s \in RunIds : owner[s] = "svc" => s <= r
                            /\ Docker("svc", r)
       \/ state["svc"] = "starting" /\ Finalise("svc")
    /\ UNCHANGED unlisted /\ Same

DownClaim(q) ==
    /\ q \in Downs /\ query[q] = "taken" /\ Alive
    /\ \/ Stopping("svc") /\ To(q, "finish")
       \/ state["svc"] \in {"idle", "stopping"} /\ Done(q) /\ UNCHANGED runVars
    /\ UNCHANGED unlisted /\ Same

DownFinish(q) ==
    /\ q \in Downs /\ query[q] = "finish" /\ Alive
    /\ Finalise("svc") /\ Done(q) /\ UNCHANGED unlisted /\ Same

(* The time limit, a lost container or a failed bring-up ends it too. *)
RunEnds ==
    /\ Alive /\ state["svc"] = "running" /\ Finalise("svc")
    /\ UNCHANGED <<laneVars, unlisted>> /\ Same

-----------------------------------------------------------------------------
(* Start and recover; stop and crash. *)

Start ==
    /\ svc = "gone" /\ starts < MaxStarts
    /\ starts' = starts + 1 /\ stopped' = FALSE
    /\ \/ /\ held' = (IF shared THEN box ELSE {}) /\ svc' = "clear" /\ UNCHANGED unlisted
       \/ /\ shared /\ unlisted' = TRUE /\ svc' = "serving" /\ held' = {}
    /\ UNCHANGED <<shared, laneVars, runVars, cli, early>>

(* Mutant: whatever is left goes, a client's run too. *)
RecoverClearAll ==
    /\ svc = "clear" /\ svc' = "close" /\ box' = {}
    /\ UNCHANGED <<shared, held, laneVars, run, state, cli, file, owner, starts, unlisted, stopped, early>>

(* With none up under a shared label, or one of its own, whatever is left goes. *)
RecoverClear ==
    /\ svc = "clear" /\ svc' = "close"
    /\ \/ held = {} /\ box' = {} /\ UNCHANGED unlisted
       \/ held = {} /\ unlisted' = TRUE /\ UNCHANGED box
       \/ held # {} /\ UNCHANGED <<box, unlisted>>
    /\ UNCHANGED <<shared, held, laneVars, run, state, cli, file, owner, starts, stopped, early>>

(* Mutant: every open summary is closed. *)
ToCloseAll == {r \in RunIds : file[r] = "open"}
(* Mutant: none is, while another process holds a run. *)
ToCloseNone == IF held = {} THEN {r \in RunIds : file[r] = "open"} ELSE {}
ToClose     == {r \in RunIds : file[r] = "open"} \ held

RecoverClose ==
    /\ svc = "close" /\ svc' = "serving"
    /\ file' = [r \in RunIds |-> IF r \in ToClose THEN "closed" ELSE file[r]]
    /\ early' = early \cup ({run["cli"]} \cap ToClose)
    /\ UNCHANGED <<shared, held, laneVars, run, state, cli, box, owner, starts, unlisted, stopped>>

(* The signal: no lane takes or starts a query any more ... *)
Signal ==
    /\ svc = "serving" /\ svc' = "closing"
    /\ queue' = [l \in Lanes |-> <<>>]
    /\ query' = [q \in Queries |-> IF query[q] = "queued" THEN "over" ELSE query[q]]
    /\ UNCHANGED <<shared, held, used, runVars, cli, starts, unlisted, stopped, early>>

(* ... then the run there is now is brought down, once ... *)
FinalDown ==
    /\ svc = "closing"
    /\ \/ Stopping("svc") /\ svc' = "final"
       \/ state["svc"] \in {"idle", "stopping"} /\ svc' = "joining" /\ UNCHANGED runVars
    /\ UNCHANGED <<shared, held, laneVars, cli, starts, unlisted, stopped, early>>

FinalFinish ==
    /\ svc = "final" /\ svc' = "joining" /\ Finalise("svc")
    /\ UNCHANGED <<shared, held, laneVars, cli, starts, unlisted, stopped, early>>

Gone ==
    /\ svc' = "gone" /\ run' = [run EXCEPT !["svc"] = None]
    /\ state' = [state EXCEPT !["svc"] = "idle"] /\ held' = {}
    /\ used' = [l \in Lanes |-> 0] /\ queue' = [l \in Lanes |-> <<>>]
    /\ query' = [q \in Queries |-> IF query[q] \in Steps \cup {"queued"} THEN "over" ELSE query[q]]
    /\ UNCHANGED <<shared, cli, file, owner, starts, unlisted, early>>

(* ... and the interpreter leaves once its workers have. *)
Exit ==
    /\ svc = "joining" /\ \A l \in Lanes : Working(l) = {}
    /\ Gone /\ stopped' = TRUE /\ UNCHANGED box

(* Killed: a `docker run` in flight may have made its container. *)
Crash ==
    /\ svc # "gone" /\ Gone /\ stopped' = FALSE
    /\ box' \in {box, IF \E q \in Ups : query[q] = "docker" /\ state["svc"] = "starting"
                      THEN box \cup {run["svc"]} ELSE box}

-----------------------------------------------------------------------------
(* The in-process client, on a shared label while no managed agent serves it
   (client.connect looks once, when it starts). *)

Cli == UNCHANGED <<shared, svc, held, laneVars, starts, stopped, early>>

CliCheck ==
    /\ shared /\ svc = "gone" /\ cli = "idle" /\ run["cli"] = None
    /\ box = {} /\ cli' = "checked"
    /\ UNCHANGED <<runVars, unlisted>> /\ Cli

CliClaim ==
    /\ cli = "checked" /\ Claim("cli") /\ cli' = "docker" /\ UNCHANGED unlisted /\ Cli

CliDocker ==
    /\ cli = "docker" /\ Docker("cli", run["cli"]) /\ cli' = "up" /\ UNCHANGED unlisted /\ Cli

CliEnds ==
    /\ cli = "up" /\ Finalise("cli") /\ cli' = "idle" /\ UNCHANGED unlisted /\ Cli

CliKilled ==
    /\ cli \in {"docker", "up"} /\ cli' = "idle"
    /\ run' = [run EXCEPT !["cli"] = None] /\ state' = [state EXCEPT !["cli"] = "idle"]
    /\ UNCHANGED <<box, file, owner, unlisted>> /\ Cli

(* `fm sim down --host local` of a run no agent here holds: its clean-up. *)
CliDownOther ==
    /\ shared /\ svc = "gone" /\ cli = "idle" /\ box # {}
    /\ box' = {} /\ file' = [r \in RunIds |-> IF file[r] = "open" THEN "closed" ELSE file[r]]
    /\ UNCHANGED <<run, state, owner, cli, unlisted>> /\ Cli

-----------------------------------------------------------------------------
StopLane == Take("stop") \/ \E q \in Downs : DownClaim(q) \/ DownFinish(q)

Next ==
    \/ \E q \in Queries : Arrive(q) \/ ArriveLate(q) \/ AnyWork(q) \/ UpCheck(q) \/ UpClaim(q) \/ UpDocker(q)
    \/ StopLane \/ Take("work") \/ Take("debug")
    \/ RunEnds \/ Start \/ RecoverClear \/ RecoverClose
    \/ Signal \/ FinalDown \/ FinalFinish \/ Exit \/ Crash
    \/ CliCheck \/ CliClaim \/ CliDocker \/ CliEnds \/ CliKilled \/ CliDownOther

Spec == Init /\ [][Next]_vars

(* Only the stop lane's worker is sure to move: the others may wait on Docker. *)
LiveSpec == Spec /\ WF_vars(StopLane)

-----------------------------------------------------------------------------
(* Properties. *)

(* While it serves, a lane's slots are taken by exactly the queries in it,
   whatever became of the others: it cannot fill up for good (Lane.submit). *)
SlotsHeld ==
    svc = "serving" => \A l \in Lanes : used[l] = Len(queue[l]) + Cardinality(Working(l))

(* "Stopping a run never waits behind a catalog fetch or a slow up": a down that
   got a slot is over though nothing else in the service moves (STOP_LANE). *)
DownServed == \A d \in Downs : query[d] = "queued" ~> query[d] = "over"

(* A client's run that was up when the service looked is neither removed nor
   closed under it by recover or by anything the service does after; only a
   summary an earlier recover closed, before the container was up, is not open. *)
HeldKept ==
    svc # "gone" /\ cli = "up" /\ run["cli"] \in held =>
        run["cli"] \in box /\ (file[run["cli"]] = "open" \/ run["cli"] \in early)

(* A service that serves drives every run of its own that still looks up or
   open, except those it left because a run was up, or Docker did not answer. *)
NoneForgotten ==
    svc = "serving" /\ ~unlisted =>
        \A r \in RunIds : owner[r] = "svc" /\ r # run["svc"] /\ r \notin held =>
            r \notin box /\ file[r] # "open"

(* However a start, a stop, a crash and a clean-up follow each other, one
   process never has two containers under the label while Docker answers. *)
OnePerProcess ==
    ~unlisted => \A r, s \in box : owner[r] = owner[s] => r = s

(* "A run outlives no agent" (serve): no container of its own is up once the
   service has ended by its signal. *)
OutlivesNoAgent == svc = "gone" /\ stopped => \A r \in box : owner[r] # "svc"

(* Every container and open summary has one process that answers for it. *)
RunsAccounted == TypeOK /\ NoneForgotten /\ OnePerProcess
=============================================================================
