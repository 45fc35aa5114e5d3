----------------------------- MODULE ThisMachine -----------------------------
(***************************************************************************)
(* This machine as a sim host: the commands `fm sim host start|stop|restart *)
(* |pull local` and `fm sim up|down --host local` (this_machine.py,         *)
(* client.py) beside the managed agent they start, find and end.           *)
(*                                                                         *)
(* A step is one look at the pid file, `ps` or Docker, one section under   *)
(* the state directory's lock, or one signal.  A process is known by its pid *)
(* and a run by who holds it.  Pids are not handed to a second agent, but    *)
(* may be to a stranger.                                                    *)
(***************************************************************************)
EXTENDS Naturals, FiniteSets

CONSTANTS
    None,
    Commands,     \* the CLI processes
    Does,         \* what each of them may be asked to do
    Pids,
    Faults        \* "listing": Docker or ps cannot answer; "write": the pid file
                  \* cannot; "kill": a start is killed as it files

ASSUME MachineAssumption ==
    /\ None \notin Commands \cup Pids /\ Commands \cap Pids = {}
    /\ Does \in [Commands -> SUBSET {"start", "stop", "restart", "up", "down", "pull"}]
    /\ Faults \subseteq {"listing", "write", "kill"}

VARIABLES
    proc,         \* what has each pid
    pidfile,      \* the pid agent.pid names
    lock,         \* the command holding the state directory's lock
    at,           \* where each command is
    rec,          \* the Pidfile record, or the child, it acts on
    its,          \* stop: the runs it noted as the agent's
    again,        \* restart: start comes after stop
    killed,       \* stop: the agent had to be killed
    image,        \* whether the image is here
    run,          \* each holder's run under the `local` label
    \* history
    used,         \* pids that have been an agent
    unfiled,      \* agents whose start was killed before it filed them
    hit,          \* pids of strangers signalled
    early,        \* stop: the runs up when it noted them
    cleared       \* runs removed by a stop that did not have them up when asked

vars == <<proc, pidfile, lock, at, rec, its, again, killed, image, run,
          used, unfiled, hit, early, cleared>>
local == <<rec, its, again, killed, early>>

Maybe(S) == S \cup {None}
Holders  == Commands \cup Pids
Agents   == {"boot", "clearing", "serving", "launching", "downing", "dying"}

TypeOK ==
    /\ proc \in [Pids -> Agents \cup {"stranger", "free"}]
    /\ pidfile \in Maybe(Pids) /\ lock \in Maybe(Commands)
    /\ at \in [Commands -> {"idle", "start", "probe", "others", "runs", "lock", "file", "settle",
                 "unfile", "stop", "stale", "list", "term", "grace", "wait", "stopfile", "clear",
                 "connect", "upcheck", "launch", "driving", "downcheck", "pull", "tag",
                 "refused", "done"}]
    /\ rec \in [Commands -> Maybe(Pids)] /\ its \in [Commands -> SUBSET Holders]
    /\ again \in [Commands -> BOOLEAN] /\ killed \in [Commands -> BOOLEAN]
    /\ image \in BOOLEAN
    /\ run \in [Holders -> {"none", "up", "gone"}]
    /\ used \subseteq Pids /\ unfiled \subseteq Pids /\ hit \subseteq Pids
    /\ early \in [Commands -> SUBSET Holders] /\ cleared \subseteq Holders

Init ==
    /\ proc = [p \in Pids |-> "free"] /\ pidfile = None /\ lock = None
    /\ at = [c \in Commands |-> "idle"] /\ rec = [c \in Commands |-> None]
    /\ its = [c \in Commands |-> {}] /\ again = [c \in Commands |-> FALSE]
    /\ killed = [c \in Commands |-> FALSE]
    /\ image \in BOOLEAN
    /\ run = [h \in Holders |-> "none"]
    /\ used = {} /\ unfiled = {} /\ hit = {}
    /\ early = [c \in Commands |-> {}] /\ cleared = {}

-----------------------------------------------------------------------------
(* What the commands read. *)

IsAgent(p)    == proc[p] \in Agents
UpRuns        == {h \in Holders : run[h] = "up"}

(* The pid is still the agent its record names, and no stranger's. *)
IsManaged(p)  == p # None /\ IsAgent(p)
Managed       == IF IsManaged(pidfile) THEN pidfile ELSE None

(* Mutant: a listing that cannot be had is one run of no name. *)
ListedNone(S) == IF "listing" \in Faults THEN {S, {None}} ELSE {S}

(* A listing that cannot be had reads as empty. *)
Listed(S)     == IF "listing" \in Faults THEN {S, {}} ELSE {S}
OtherAgents   == {p \in Pids : IsAgent(p)}

Go(c, where)     == at' = [at EXCEPT ![c] = where]
Free(c)          == lock = None
(* The end of a start or a stop; restart's stop goes on to its start. *)
Finish(c) ==
    /\ Go(c, IF again[c] THEN "start" ELSE "done")
    /\ again' = [again EXCEPT ![c] = FALSE] /\ killed' = [killed EXCEPT ![c] = FALSE]
    /\ rec' = [rec EXCEPT ![c] = None]
    /\ its' = [its EXCEPT ![c] = {}] /\ early' = [early EXCEPT ![c] = {}]

(* Mutant: whatever the file names. *)
RemoveAny(p)     == pidfile' = None
(* _remove_pidfile: with a pid, only while the file still names it. *)
RemovePidfile(p) == pidfile' = IF pidfile = p THEN None ELSE pidfile

Asked(c) ==
    /\ at[c] = "idle"
    /\ \E verb \in Does[c] :
         /\ Go(c, CASE verb \in {"start", "pull"} -> verb
                    [] verb \in {"stop", "restart"} -> "stop"
                    [] verb = "up" -> "connect"
                    [] verb = "down" -> "downcheck")
         /\ again' = [again EXCEPT ![c] = (verb = "restart")]
    /\ UNCHANGED <<proc, pidfile, lock, rec, its, killed, early, image, run, used, unfiled, hit, cleared>>

-----------------------------------------------------------------------------
(* start *)

StartLook(c) ==
    /\ at[c] = "start"
    /\ Go(c, IF Managed # None THEN "done" ELSE "probe")
    /\ UNCHANGED <<proc, pidfile, lock, local, image, run, used, unfiled, hit, cleared>>

(* The runtime, the image, and the bridge's image: any of them may be missing. *)
StartProbe(c) ==
    /\ at[c] = "probe"
    /\ \/ image /\ Go(c, "others")
       \/ Go(c, "refused")
    /\ UNCHANGED <<proc, pidfile, lock, local, image, run, used, unfiled, hit, cleared>>

StartOthers(c) ==
    /\ at[c] = "others"
    /\ \E found \in Listed(OtherAgents) : Go(c, IF found # {} THEN "refused" ELSE "runs")
    /\ UNCHANGED <<proc, pidfile, lock, local, image, run, used, unfiled, hit, cleared>>

(* The runs under the label, and the router's endpoint. *)
StartRuns(c) ==
    /\ at[c] = "runs"
    /\ \/ \E found \in Listed(UpRuns) : Go(c, IF found # {} THEN "refused" ELSE "lock")
       \/ Go(c, "refused")
    /\ UNCHANGED <<proc, pidfile, lock, local, image, run, used, unfiled, hit, cleared>>

(* Mutant: the pid file is not read again under the lock. *)
SpawnBlind(c) ==
    /\ at[c] = "lock" /\ Free(c)
    /\ \E p \in Pids \ used :
         /\ proc' = [proc EXCEPT ![p] = "boot"] /\ used' = used \cup {p}
         /\ rec' = [rec EXCEPT ![c] = p] /\ lock' = c /\ Go(c, "file")
    /\ UNCHANGED <<pidfile, its, again, killed, early, image, run, unfiled, hit, cleared>>

(* Under the lock: the agent another start has spawned meanwhile is left be;
   with none, this one is spawned, or the log or the process cannot be had. *)
StartSpawn(c) ==
    /\ at[c] = "lock" /\ Free(c)
    /\ IF Managed # None
       THEN Go(c, "done") /\ UNCHANGED <<proc, used, rec, lock>>
       ELSE \/ /\ \E p \in Pids \ used :
                    /\ proc' = [proc EXCEPT ![p] = "boot"] /\ used' = used \cup {p}
                    /\ rec' = [rec EXCEPT ![c] = p]
               /\ lock' = c /\ Go(c, "file")
            \/ Go(c, "refused") /\ UNCHANGED <<proc, used, rec, lock>>
    /\ UNCHANGED <<pidfile, its, again, killed, early, image, run, unfiled, hit, cleared>>

(* Mutant: a pid file that cannot be written leaves the lock held. *)
StartFileHolds(c) ==
    /\ at[c] = "file"
    /\ \/ pidfile' = rec[c] /\ lock' = None /\ Go(c, "settle") /\ UNCHANGED proc
       \/ /\ "write" \in Faults
          /\ proc' = [proc EXCEPT ![rec[c]] = "free"]
          /\ Go(c, "refused") /\ UNCHANGED <<pidfile, lock>>
    /\ UNCHANGED <<local, image, run, used, unfiled, hit, cleared>>

(* An agent that cannot be filed is killed at once. *)
StartFile(c) ==
    /\ at[c] = "file"
    /\ lock' = None
    /\ \/ pidfile' = rec[c] /\ Go(c, "settle") /\ UNCHANGED proc
       \/ /\ "write" \in Faults
          /\ proc' = [proc EXCEPT ![rec[c]] = "free"]
          /\ Go(c, "refused") /\ UNCHANGED pidfile
    /\ UNCHANGED <<local, image, run, used, unfiled, hit, cleared>>

(* The start is killed between the spawn and the file: the lock goes with it. *)
StartKilled(c) ==
    /\ "kill" \in Faults /\ at[c] = "file"
    /\ lock' = None /\ Go(c, "refused")
    /\ unfiled' = unfiled \cup {rec[c]}
    /\ UNCHANGED <<proc, pidfile, local, image, run, used, hit, cleared>>

(* An early exit is start_failed; the serving line, or three seconds, is not. *)
StartSettle(c) ==
    /\ at[c] = "settle"
    /\ Go(c, IF IsAgent(rec[c]) THEN "done" ELSE "unfile")
    /\ UNCHANGED <<proc, pidfile, lock, local, image, run, used, unfiled, hit, cleared>>

StartUnfile(c) ==
    /\ at[c] = "unfile" /\ Free(c)
    /\ RemovePidfile(rec[c]) /\ Go(c, "refused")
    /\ UNCHANGED <<proc, lock, local, image, run, used, unfiled, hit, cleared>>

-----------------------------------------------------------------------------
(* stop *)

StopLook(c) ==
    /\ at[c] = "stop"
    /\ rec' = [rec EXCEPT ![c] = Managed]
    /\ Go(c, IF Managed # None THEN "list" ELSE "stale")
    /\ UNCHANGED <<proc, pidfile, lock, its, again, killed, early, image, run, used, unfiled, hit, cleared>>

StopStale(c) ==
    /\ at[c] = "stale" /\ Free(c)
    /\ pidfile' = IF Managed = None THEN None ELSE pidfile
    /\ Finish(c)
    /\ UNCHANGED <<proc, lock, image, run, used, unfiled, hit, cleared>>

StopList(c) ==
    /\ at[c] = "list"
    /\ \E found \in Listed(UpRuns) : its' = [its EXCEPT ![c] = found]
    /\ early' = [early EXCEPT ![c] = UpRuns]
    /\ Go(c, "term")
    /\ UNCHANGED <<proc, pidfile, lock, rec, again, killed, image, run, used, unfiled, hit, cleared>>

(* Mutant: the pid that was the agent's when stop looked. *)
SignalBlind(c, kill) ==
    LET p == rec[c] IN
    /\ proc' = [proc EXCEPT ![p] = IF IsAgent(p) THEN "dying" ELSE @]
    /\ hit' = IF proc[p] = "stranger" THEN hit \cup {p} ELSE hit

(* _signal: only while the pid is still that agent.  One that has not blocked
   SIGTERM yet dies of it; one that serves brings its run down first. *)
Signal(c, kill) ==
    LET p == rec[c] IN
    /\ proc' = IF ~IsManaged(p) THEN proc
               ELSE [proc EXCEPT ![p] = IF kill \/ @ \in {"boot", "clearing", "dying"}
                                        THEN "dying" ELSE "downing"]
    /\ UNCHANGED hit

StopTerm(c) ==
    /\ at[c] = "term" /\ Free(c)
    /\ Signal(c, FALSE)
    /\ Go(c, "grace")
    /\ UNCHANGED <<pidfile, lock, local, image, run, used, unfiled, cleared>>

(* The grace ends: the agent has gone, or is killed. *)
StopGrace(c) ==
    /\ at[c] = "grace"
    /\ \/ ~IsManaged(rec[c]) /\ Go(c, "stopfile") /\ UNCHANGED <<proc, killed, hit>>
       \/ /\ IsManaged(rec[c]) /\ Signal(c, TRUE)
          /\ killed' = [killed EXCEPT ![c] = TRUE] /\ Go(c, "wait")
    /\ UNCHANGED <<pidfile, lock, rec, its, again, early, image, run, used, unfiled, cleared>>

StopWait(c) ==
    /\ at[c] = "wait"
    /\ Go(c, IF IsManaged(rec[c]) THEN "refused" ELSE "stopfile")
    /\ UNCHANGED <<proc, pidfile, lock, local, image, run, used, unfiled, hit, cleared>>

StopFile(c) ==
    /\ at[c] = "stopfile" /\ Free(c)
    /\ RemovePidfile(rec[c])
    /\ IF killed[c] THEN Go(c, "clear") /\ UNCHANGED local ELSE Finish(c)
    /\ UNCHANGED <<proc, lock, image, run, used, unfiled, hit, cleared>>

(* Mutant: the runs up now, not those noted before the grace. *)
RunsToClearNow(c) == UpRuns
RunsToClear(c)    == its[c]

(* The runs the killed agent's down never finished; a removal may fail. *)
StopClear(c) ==
    /\ at[c] = "clear"
    /\ \E gone \in SUBSET (RunsToClear(c) \cap UpRuns) :
         /\ run' = [h \in Holders |-> IF h \in gone THEN "gone" ELSE run[h]]
         /\ cleared' = cleared \cup (gone \ early[c])
    /\ Finish(c)
    /\ UNCHANGED <<proc, pidfile, lock, image, used, unfiled, hit>>

-----------------------------------------------------------------------------
(* pull: by the pin, then tagged as the ref; either may fail. *)

Pull(c) ==
    /\ at[c] = "pull"
    /\ Go(c, "tag") \/ Go(c, "refused")
    /\ UNCHANGED <<proc, pidfile, lock, local, image, run, used, unfiled, hit, cleared>>

Tag(c) ==
    /\ at[c] = "tag"
    /\ \/ image' = TRUE /\ (Go(c, "done") \/ Go(c, "refused"))
       \/ Go(c, "refused") /\ UNCHANGED image
    /\ UNCHANGED <<proc, pidfile, lock, local, run, used, unfiled, hit, cleared>>

-----------------------------------------------------------------------------
(* `--host local` with no managed agent: this process is the agent.  With one,
   the verb goes to it over the fabric, and nothing is done here. *)

Connect(c) ==
    /\ at[c] = "connect"
    /\ Go(c, IF Managed # None THEN "done" ELSE "upcheck")
    /\ UNCHANGED <<proc, pidfile, lock, local, image, run, used, unfiled, hit, cleared>>

(* A run held under the label by another process, or a listing that fails,
   refuses `up`. *)
UpCheck(c) ==
    /\ at[c] = "upcheck"
    /\ Go(c, IF UpRuns # {} THEN "refused" ELSE "launch")
    /\ UNCHANGED <<proc, pidfile, lock, local, image, run, used, unfiled, hit, cleared>>

UpLaunch(c) ==
    /\ at[c] = "launch"
    /\ run' = [run EXCEPT ![c] = "up"]
    /\ Go(c, "driving")
    /\ UNCHANGED <<proc, pidfile, lock, local, image, used, unfiled, hit, cleared>>

(* The foreground process brings its run down, or is killed beside it. *)
UpEnds(c) ==
    /\ at[c] = "driving"
    /\ Go(c, "done")
    /\ run' = [run EXCEPT ![c] = "gone"] \/ UNCHANGED run
    /\ UNCHANGED <<proc, pidfile, lock, local, image, used, unfiled, hit, cleared>>

(* `down` in a process that holds no run: recover clears the label. *)
DownClears(c) ==
    /\ at[c] = "downcheck"
    /\ Go(c, "done")
    /\ run' = IF Managed # None THEN run
              ELSE [h \in Holders |-> IF run[h] = "up" THEN "gone" ELSE run[h]]
    /\ UNCHANGED <<proc, pidfile, lock, local, image, used, unfiled, hit, cleared>>

-----------------------------------------------------------------------------
(* The managed agent. *)

Agent(p, from, to) == proc[p] = from /\ proc' = [proc EXCEPT ![p] = to]
Still == UNCHANGED <<pidfile, lock, at, local, image, used, unfiled, hit, cleared>>

(* recover: with a run up under the label, or no listing, nothing is removed... *)
AgentRecovers(p) ==
    /\ \E found \in Listed(UpRuns) :
         \/ Agent(p, "boot", IF found = {} THEN "clearing" ELSE "serving")
         \/ "listing" \in Faults /\ Agent(p, "boot", "serving")
    /\ UNCHANGED run /\ Still

(* ... and with none, whatever is under the label when it comes to it. *)
AgentClears(p) ==
    /\ Agent(p, "clearing", "serving")
    /\ \/ run' = [h \in Holders |-> IF run[h] = "up" THEN "gone" ELSE run[h]]
       \/ UNCHANGED run
    /\ Still

AgentUp(p) ==
    /\ UpRuns = {} /\ run[p] = "none"
    /\ Agent(p, "serving", "launching")
    /\ UNCHANGED run /\ Still

AgentLaunch(p) ==
    /\ Agent(p, "launching", "serving")
    /\ run' = [run EXCEPT ![p] = "up"]
    /\ Still

AgentDown(p) ==
    /\ proc[p] = "serving" /\ run[p] = "up"
    /\ run' = [run EXCEPT ![p] = "gone"]
    /\ UNCHANGED proc /\ Still

(* On SIGTERM: its run is brought down, then it exits. *)
AgentExits(p) ==
    /\ Agent(p, "downing", "free")
    /\ run' = [run EXCEPT ![p] = IF @ = "up" THEN "gone" ELSE @]
    /\ Still

(* It ends with its run still up: killed, a crash, or, while it boots, no router. *)
AgentDies(p) ==
    /\ IsAgent(p) /\ proc' = [proc EXCEPT ![p] = "free"]
    /\ UNCHANGED run /\ Still

PidReused(p) ==
    /\ p \in used /\ Agent(p, "free", "stranger")
    /\ UNCHANGED run /\ Still

CommandStep(c) ==
    \/ StartLook(c) \/ StartProbe(c) \/ StartOthers(c) \/ StartRuns(c) \/ StartSpawn(c)
    \/ StartFile(c) \/ StartSettle(c) \/ StartUnfile(c)
    \/ StopLook(c) \/ StopStale(c) \/ StopList(c) \/ StopTerm(c) \/ StopGrace(c) \/ StopWait(c)
    \/ StopFile(c) \/ StopClear(c)
    \/ Pull(c) \/ Tag(c)
    \/ Connect(c) \/ UpCheck(c) \/ UpLaunch(c) \/ DownClears(c)

Next ==
    \/ \E c \in Commands : Asked(c) \/ CommandStep(c) \/ StartKilled(c) \/ UpEnds(c)
    \/ \E p \in Pids :
         \/ AgentRecovers(p) \/ AgentClears(p) \/ AgentUp(p) \/ AgentLaunch(p)
         \/ AgentDown(p) \/ AgentExits(p) \/ AgentDies(p) \/ PidReused(p)

Spec == Init /\ [][Next]_vars

(* A command's own steps are taken, and a killed process dies. *)
LiveSpec == /\ Spec
            /\ \A c \in Commands : WF_vars(CommandStep(c))
            /\ \A p \in Pids : WF_vars(proc[p] = "dying" /\ AgentDies(p))

-----------------------------------------------------------------------------
(* Properties. *)

(* "Two starts in the same moment spawn one agent" (start): no two agents of
   this machine are alive, unless a start was killed before it filed its own. *)
OneAgent == unfiled = {} => Cardinality(OtherAgents) <= 1

(* "An agent with no pidfile is one nothing could stop": an agent is named by
   the pid file, or a start is about to file it, or was killed before it could. *)
Stoppable ==
    \A p \in OtherAgents :
        \/ pidfile = p \/ p \in unfiled
        \/ \E c \in Commands : at[c] = "file" /\ rec[c] = p

(* "Never signal a stranger" (_signal), for a pid reused while stop looked
   elsewhere. *)
NoStrangerHit == hit = {}

(* "A run another process starts during the grace is left alone" (stop). *)
SparesLater == cleared = {}

(* Every command comes to an end, or to an `up` in the foreground: nobody waits
   on the lock for ever, and a stop outlasts no agent that a SIGKILL ends. *)
CommandsEnd ==
    \A c \in Commands : at[c] # "idle" ~> at[c] \in {"driving", "done", "refused"}

(* "With the agent running, every one of them is its run (each refuses `up`
   beside the other's)" (stop): what stop notes is the agent's. *)
NotesItsOwn ==
    \A c \in Commands : at[c] = "term" /\ IsManaged(rec[c]) => its[c] \subseteq {rec[c]}

(* What is not the managed agent's is left alone: no stranger's process is
   signalled and no later run is removed. *)
SparesOthers == TypeOK /\ NoStrangerHit /\ SparesLater
=============================================================================
