------------------------------- MODULE Trial -------------------------------
(***************************************************************************)
(* A seeded trial (trial.py) and the calls it makes (client.py) on a host   *)
(* that another client uses too: one run per seed, each brought up, waited   *)
(* on, brought down and scored.  The host is its agent reduced to the run it *)
(* holds and the summaries it files (SimAgent).                             *)
(*                                                                         *)
(* `remote` says which of client.py's two hosts the trial drives: an agent  *)
(* over the router, where a query or its answer may be lost, or the agent in *)
(* this process, which sees the outcome as it latches and ends with it.      *)
(***************************************************************************)
EXTENDS Integers, Sequences, FiniteSets

CONSTANTS
    None,
    NSeeds,       \* the trial's seeds are 1..NSeeds, in order
    MaxRuns       \* bound: runs the host starts

ASSUME TrialAssumption ==
    /\ NSeeds \in Nat \ {0} /\ MaxRuns \in Nat
    /\ None \notin Nat \cup {"success", "failure", "none"}

VARIABLES
    remote,       \* constant: Remote or Local
    active,       \* the host's run
    filed,        \* the verdict in each run's summary on disk
    pc,           \* where the trial is
    seed,         \* the seed in hand
    mine,         \* the run_id `up` answered
    raising,      \* an exception is on its way out of the wait
    summary,      \* what `down` answered, or find_summary found
    rows,         \* the report's rows
    \* history
    unheard,      \* an up or a down whose answer never came
    hurt          \* runs of the other client that the trial's down stopped

vars == <<remote, active, filed, pc, seed, mine, raising, summary, rows, unheard, hurt>>
trialVars == <<seed, mine, raising, summary, rows>>

Seeds    == 1..NSeeds
RunIds   == 1..MaxRuns
Verdicts == {"success", "failure"}
Filed    == Verdicts \cup {"none", "open", "absent"}
Active   == [run: RunIds, seed: Seeds, by: {"trial", "other"}, verdict: Verdicts \cup {"none"},
             state: {"starting", "running", "stopping"}, asked: BOOLEAN]
Row      == [seed: Seeds, run: RunIds, verdict: Verdicts \cup {"none"}]

TypeOK ==
    /\ remote \in BOOLEAN /\ active \in Active \cup {None}
    /\ filed \in [RunIds -> Filed]
    /\ pc \in {"up", "status", "down", "answer", "find", "row", "close", "ended"}
    /\ seed \in 1..(NSeeds + 1) /\ mine \in RunIds \cup {None} /\ raising \in BOOLEAN
    /\ summary \in Verdicts \cup {"none", None}
    /\ rows \in Seq(Row) /\ unheard \in BOOLEAN /\ hurt \subseteq RunIds

Init ==
    /\ remote \in BOOLEAN
    /\ active = None /\ filed = [r \in RunIds |-> "absent"]
    /\ pc = "up" /\ seed = 1 /\ mine = None /\ raising = FALSE /\ summary = None
    /\ rows = <<>> /\ unheard = FALSE /\ hurt = {}

-----------------------------------------------------------------------------
(* The host. *)

Fresh == {r \in RunIds : filed[r] = "absent"}

(* `up` claims the host and files the run's open summary. *)
HostUp(who, s) ==
    /\ active = None /\ Fresh # {}
    /\ LET r == CHOOSE r \in Fresh : \A q \in Fresh : r <= q IN
         /\ active' = [run |-> r, seed |-> s, by |-> who, verdict |-> "none",
                       state |-> "starting", asked |-> FALSE]
         /\ filed' = [filed EXCEPT ![r] = "open"]

(* Whether `down` naming this run is taken; a bare one names the active run. *)
Takes(run) == active # None /\ active.state # "stopping" /\ run \in {active.run, None}
HostDown   == active' = [active EXCEPT !.state = "stopping", !.asked = TRUE]

HostReady ==
    /\ active # None /\ active.state = "starting"
    /\ active' = [active EXCEPT !.state = "running"]
    /\ UNCHANGED <<remote, filed, pc, trialVars, unheard, hurt>>

HostScores ==
    /\ active # None /\ active.state = "running" /\ active.verdict = "none"
    /\ \E v \in Verdicts : active' = [active EXCEPT !.verdict = v]
    /\ UNCHANGED <<remote, filed, pc, trialVars, unheard, hurt>>

(* A start that fails, a container that exits or a time limit ends it too. *)
HostEndsRun ==
    /\ active # None /\ active.state # "stopping"
    /\ active' = [active EXCEPT !.state = "stopping"]
    /\ UNCHANGED <<remote, filed, pc, trialVars, unheard, hurt>>

(* The finaliser closes the summary, with the outcome if it was asked for and
   the echo saw it, and lets the run go. *)
HostFinalises ==
    /\ active # None /\ active.state = "stopping"
    /\ \E v \in {"none", IF active.asked THEN active.verdict ELSE "none"} :
         filed' = [filed EXCEPT ![active.run] = v]
    /\ active' = None
    /\ UNCHANGED <<remote, pc, trialVars, unheard, hurt>>

OtherUp ==
    /\ \E s \in Seeds : HostUp("other", s)
    /\ UNCHANGED <<remote, pc, trialVars, unheard, hurt>>

(* The other client's bare `down` stops whatever run there is. *)
OtherDown ==
    /\ Takes(None) /\ HostDown
    /\ UNCHANGED <<remote, filed, pc, trialVars, unheard, hurt>>

-----------------------------------------------------------------------------
(* The trial.  `up` is asked once: an answer that is lost, and a refusal, end
   it.  Interrupted during it, there is no run id to bring down. *)

Stop == pc' = "close"

(* No answer came in all of the window in which a repeatable call is asked
   again. *)
NoAnswer == remote /\ Stop /\ unheard' = TRUE

(* Only the agent in this process shows an outcome before `down`. *)
OutcomeShows == ~remote /\ active.verdict # "none" /\ active.state = "running"

(* Mutant: an `up` with no answer is asked again. *)
UpAgain ==
    /\ pc = "up"
    /\ \/ HostUp("trial", seed) /\ mine' = active'.run /\ pc' = "status" /\ UNCHANGED unheard
       \/ remote /\ HostUp("trial", seed) /\ pc' = "up" /\ unheard' = TRUE /\ UNCHANGED mine
       \/ Stop /\ UNCHANGED <<active, filed, mine, unheard>>
    /\ UNCHANGED <<remote, seed, raising, summary, rows, hurt>>

Up ==
    /\ pc = "up"
    /\ \/ HostUp("trial", seed) /\ mine' = active'.run /\ pc' = "status" /\ UNCHANGED unheard
       \/ HostUp("trial", seed) /\ Stop /\ unheard' = remote /\ UNCHANGED mine
       \/ Stop /\ UNCHANGED <<active, filed, mine, unheard>>
    /\ UNCHANGED <<remote, seed, raising, summary, rows, hurt>>

(* A poll: the run is gone, its outcome shows (in this process only), or the
   host is asked again ... *)
Status ==
    /\ pc = "status"
    /\ pc' = IF active = None \/ active.run # mine \/ OutcomeShows
             THEN "down" ELSE "status"
    /\ UNCHANGED <<remote, active, filed, trialVars, unheard, hurt>>

(* Mutant: whatever is raised skips the down. *)
WaitRaises ==
    /\ pc = "status"
    /\ \/ pc' = "down" /\ UNCHANGED raising
       \/ Stop /\ raising' = TRUE
    /\ UNCHANGED <<remote, active, filed, seed, mine, summary, rows, unheard, hurt>>

(* ... until the time is up, the host does not answer, or an interrupt. *)
WaitEnds ==
    /\ pc = "status"
    /\ pc' = "down" /\ raising' \in BOOLEAN
    /\ UNCHANGED <<remote, active, filed, seed, mine, summary, rows, unheard, hurt>>

(* Mutant: a bare down. *)
DownNamesNone == None
DownNames     == mine

(* Mutant: a refused `down` is asked again. *)
DownRetried ==
    /\ pc = "down"
    /\ \/ /\ Takes(DownNames) /\ HostDown /\ pc' = "answer"
          /\ hurt' = IF active.by = "other" THEN hurt \cup {active.run} ELSE hurt
          /\ UNCHANGED unheard
       \/ ~Takes(DownNames) /\ UNCHANGED <<pc, active, unheard, hurt>>
       \/ NoAnswer /\ UNCHANGED <<active, hurt>>
    /\ UNCHANGED <<remote, filed, trialVars>>

(* `down` names its run, so it may be asked again while no answer comes or the
   host is busy; past the window it is NoAnswer, or refused. *)
Down ==
    /\ pc = "down"
    /\ \/ /\ Takes(DownNames) /\ HostDown /\ pc' = "answer"
          /\ hurt' = IF active.by = "other" THEN hurt \cup {active.run} ELSE hurt
          /\ UNCHANGED unheard
       \/ ~Takes(DownNames) /\ pc' = "find" /\ UNCHANGED <<active, unheard, hurt>>
       \/ NoAnswer /\ UNCHANGED <<active, hurt>>
    /\ UNCHANGED <<remote, filed, trialVars>>

(* The answer carries the summary as it was closed; lost, the call is made
   again or given up on. *)
Answer ==
    /\ pc = "answer"
    /\ \/ /\ filed[mine] # "open"
          /\ summary' = filed[mine] /\ pc' = "row" /\ UNCHANGED unheard
       \/ remote /\ pc' = "down" /\ UNCHANGED <<summary, unheard>>
       \/ NoAnswer /\ UNCHANGED summary
    /\ UNCHANGED <<remote, active, filed, seed, mine, raising, rows, hurt>>

VerdictOf(r) == IF filed[r] \in Verdicts THEN filed[r] ELSE "none"
(* Mutant: the newest summary. *)
FoundNewest ==
    LET r == CHOOSE r \in RunIds : filed[r] # "absent" /\ \A q \in RunIds : filed[q] # "absent" => q <= r
    IN VerdictOf(r)
(* find_summary: the run's own among the recent ones. *)
Found == VerdictOf(mine)

(* The run was not this call's to bring down, so its summary is looked for;
   with none the row carries the refusal. *)
Find ==
    /\ pc = "find"
    /\ \/ summary' \in {Found, "none"} /\ pc' = "row" /\ UNCHANGED raising
       \/ remote /\ Stop /\ UNCHANGED <<summary, raising>>
    /\ UNCHANGED <<remote, active, filed, seed, mine, rows, unheard, hurt>>

(* Mutant: the last seed is not told from the others. *)
NextSeedOn ==
    /\ pc = "row" /\ ~raising
    /\ rows' = Append(rows, [seed |-> seed, run |-> mine, verdict |-> summary])
    /\ seed' = seed + 1 /\ pc' = "up"
    /\ mine' = None /\ summary' = None
    /\ UNCHANGED <<remote, active, filed, raising, unheard, hurt>>

(* An exception that was on its way keeps the row out; else the next seed. *)
NextSeed ==
    /\ pc = "row"
    /\ IF raising
       THEN Stop /\ UNCHANGED <<rows, seed>>
       ELSE /\ rows' = Append(rows, [seed |-> seed, run |-> mine, verdict |-> summary])
            /\ seed' = seed + 1
            /\ pc' = IF seed = NSeeds THEN "close" ELSE "up"
    /\ mine' = None /\ summary' = None /\ raising' = FALSE
    /\ UNCHANGED <<remote, active, filed, unheard, hurt>>

HoldsOwn == active # None /\ active.by = "trial" /\ active.state # "stopping"

(* The local process brings down a run it still holds; one already stopping
   answers busy. *)
Close ==
    /\ pc = "close"
    /\ IF ~remote /\ HoldsOwn
       THEN HostDown /\ UNCHANGED pc
       ELSE pc' = "ended" /\ UNCHANGED active
    /\ UNCHANGED <<remote, filed, trialVars, unheard, hurt>>

Host == HostReady \/ HostScores \/ HostEndsRun \/ HostFinalises \/ OtherUp \/ OtherDown
TrialStep == Up \/ Down \/ Answer \/ Find \/ NextSeed \/ Close

Next == Host \/ TrialStep \/ Status \/ WaitEnds

Spec == Init /\ [][Next]_vars

(* The trial's process runs, its wait has a deadline, and a run being stopped is
   let go (SimAgent).  A down already taken is answered or given up on. *)
LiveSpec == Spec /\ WF_vars(TrialStep) /\ WF_vars(WaitEnds) /\ WF_vars(HostFinalises)
                 /\ SF_vars(Answer /\ pc' # "down")

-----------------------------------------------------------------------------
(* The report (aggregate): no outcome counts against the rate. *)

Scored(v)  == {i \in DOMAIN rows : rows[i].verdict = v}
Report ==
    [attempted |-> Len(rows), successes |-> Cardinality(Scored("success")),
     unscored |-> Cardinality(Scored("none")), complete |-> Len(rows) = NSeeds]

-----------------------------------------------------------------------------
(* Properties. *)

(* A retried or late `down` of the trial never stops another client's run
   (client.py, REPEATABLE_VERBS). *)
OwnRuns == hurt = {}

(* A row's score is its own run's: the one its seed's `up` started, with the
   outcome that run's summary was closed with; a seed has one row, and the
   report is complete when every seed has (run_trial, aggregate). *)
ScoresItsOwn ==
    /\ \A i \in DOMAIN rows : rows[i].verdict # "none" => filed[rows[i].run] = rows[i].verdict
    /\ \A i, j \in DOMAIN rows : rows[i].seed = rows[j].seed \/ rows[i].run = rows[j].run => i = j
    /\ Report.complete <=> {rows[i].seed : i \in DOMAIN rows} = Seeds
    /\ Report.successes <= Cardinality({r \in RunIds : filed[r] = "success"})

(* "It never outlives the caller" (drive): once the trial has ended, and before
   it asks for its next run, none of its runs is up, unless an answer was lost. *)
NoneLeft ==
    pc \in {"ended", "up"} /\ ~unheard => ~HoldsOwn

(* A lost answer to `up` is the trial's last call: one run a seed at most, and
   with no answer lost each attempted seed had exactly its own. *)
OneRunASeed ==
    Cardinality({r \in RunIds : filed[r] # "absent"} \cap
                ({rows[i].run : i \in DOMAIN rows} \cup {mine})) <= seed
    /\ (unheard => pc \in {"close", "ended"})

(* A trial comes to an end, whatever is lost and whoever stops its runs. *)
TrialEnds == <>(pc = "ended")

(* A trial starts, stops and scores its own runs, one a seed, whatever is asked
   twice or never answered. *)
OwnTrial == TypeOK /\ OwnRuns /\ OneRunASeed /\ ScoresItsOwn
=============================================================================
