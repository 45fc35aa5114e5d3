------------------------------ MODULE AwsHost ------------------------------
(***************************************************************************)
(* The AWS sim host: the controller Lambda (controller.py), the host's own    *)
(* check for leaving (idle_to_zero.py) and the operator's call of the         *)
(* controller (cloud.py), around one Auto Scaling group of at most one        *)
(* instance.  Controller and check each ask AWS or Docker, decide, and act in  *)
(* later calls; the group, the budget and the host's runs change in between.   *)
(*                                                                         *)
(* Time is in minutes.  AWS is external: the group launches and ends an        *)
(* instance to meet its capacity, and a terminate of one that is already       *)
(* leaving is an error that changes nothing.                                  *)
(***************************************************************************)
EXTENDS Integers, FiniteSets

CONSTANTS
    None,
    Idle,         \* FM_SIM_IDLE_MINUTES
    BlockPercent, \* BUDGET_BLOCK_PERCENT
    Lifetime,     \* the deadline, of the controller and of the host
    Horizon,      \* bound: the last minute
    MaxInstances, \* cloud.MAX_INSTANCES
    MaxLaunch     \* bound: instances at a time; a place is used again

ASSUME AwsAssumption ==
    /\ Idle \in Nat \ {0} /\ Lifetime \in Nat \ {0} /\ BlockPercent \in 1..100
    /\ Horizon \in Nat /\ MaxLaunch \in Nat /\ MaxInstances \in Nat
    /\ None \notin Nat \cup {"idle", "other", "Pending", "InService", "Terminating", "start", "stop"}

Ids     == 1..MaxLaunch
Minutes == 0..Horizon
Reasons == {"under_cap", "over_cap", "budget_unavailable"}
States  == {"unknown", "stopped", "starting", "running", "stopping"}    \* cloud.STATES

(* What AWS Budgets says, None where it fails or says no finite number. *)
Amounts == 0..2 \cup {None}

VARIABLES
    lines,       \* constant: which of the two deadlines run, "schedule" and "timer"
    now,
    desired,     \* the group's capacity
    inst,        \* each instance: None, "Pending", "InService" or "Terminating"
    launch,      \* when it was launched
    busy,        \* a run container is up on it
    last,        \* its idle.json
    leaving,     \* why its check is about to end it
    cmd, rec,    \* the operator's invocation, and the schedule's
    \* history
    lastSeen,    \* when a check last saw a run, or first ran
    fresh,       \* a run started after the check asked Docker, or Docker was silent
    spared,      \* no run was ended as idle that the check could have seen
    idleEnds,    \* every idle end came after a full idle period
    wasUp,       \* capacity was 1 at some moment of the operator's invocation
    startHeld,   \* ... of every start that was answered ok
    accepted     \* the client takes every status published so far

hostVars == <<busy, last, leaving, lastSeen, fresh, spared, idleEnds>>
callVars == <<cmd, rec, accepted, wasUp, startHeld>>
groupVars == <<desired, inst, launch>>
vars == <<lines, now, groupVars, hostVars, callVars>>

NoCall == [act |-> None, step |-> "idle", reason |-> "under_cap", paid |-> <<0, 1>>, late |-> {}]
Live   == {i \in Ids : inst[i] \in {"Pending", "InService"}}
Members == {i \in Ids : inst[i] \in {"Pending", "InService", "Terminating"}}

(* An invocation of the controller: what it was asked, and how far it is. *)
Call == [act : {None, "start", "stop", "reconcile"}, reason : Reasons,
         paid : Amounts \X Amounts, late : SUBSET Ids,
         step : {"idle", "budget", "describe", "set", "terminate", "publish"}]

TypeOK ==
    /\ lines \subseteq {"schedule", "timer"} /\ now \in Minutes /\ desired \in {0, 1}
    /\ inst \in [Ids -> {None, "Pending", "InService", "Terminating"}]
    /\ launch \in [Ids -> Minutes]
    /\ busy \in [Ids -> BOOLEAN] /\ last \in [Ids -> Minutes \cup {None}]
    /\ leaving \in [Ids -> {None, "idle", "other"}]
    /\ cmd \in Call /\ rec \in Call
    /\ lastSeen \in [Ids -> Minutes] /\ fresh \in [Ids -> BOOLEAN]
    /\ spared \in BOOLEAN /\ idleEnds \in BOOLEAN /\ wasUp \in BOOLEAN
    /\ startHeld \in BOOLEAN /\ accepted \in BOOLEAN

Init ==
    /\ lines \in {{"schedule"}, {"timer"}, {"schedule", "timer"}}
    /\ now = 0 /\ desired = 0 /\ inst = [i \in Ids |-> None] /\ launch = [i \in Ids |-> 0]
    /\ busy = [i \in Ids |-> FALSE] /\ last = [i \in Ids |-> None] /\ leaving = [i \in Ids |-> None]
    /\ cmd = NoCall /\ rec = NoCall
    /\ lastSeen = [i \in Ids |-> 0] /\ fresh = [i \in Ids |-> FALSE]
    /\ spared = TRUE /\ idleEnds = TRUE /\ wasUp = FALSE /\ startHeld = TRUE /\ accepted = TRUE

-----------------------------------------------------------------------------
(* AWS and the host's users. *)

Tick ==
    /\ now < Horizon /\ now' = now + 1
    /\ UNCHANGED <<lines, groupVars, hostVars, callVars>>

Launch ==
    /\ desired = 1 /\ Live = {}
    /\ \E i \in Ids : /\ inst[i] = None /\ inst' = [inst EXCEPT ![i] = "Pending"]
                      /\ launch' = [launch EXCEPT ![i] = now]
    /\ UNCHANGED <<lines, now, desired, hostVars, callVars>>

InService(i) ==
    /\ inst[i] = "Pending" /\ inst' = [inst EXCEPT ![i] = "InService"]
    /\ UNCHANGED <<lines, now, desired, launch, hostVars, callVars>>

ScaleIn(i) ==
    /\ desired = 0 /\ i \in Live /\ inst' = [inst EXCEPT ![i] = "Terminating"]
    /\ UNCHANGED <<lines, now, desired, launch, hostVars, callVars>>

Vanish(i) ==
    /\ inst[i] = "Terminating" /\ inst' = [inst EXCEPT ![i] = None]
    /\ launch' = [launch EXCEPT ![i] = 0] /\ busy' = [busy EXCEPT ![i] = FALSE]
    /\ last' = [last EXCEPT ![i] = None] /\ lastSeen' = [lastSeen EXCEPT ![i] = 0]
    /\ leaving' = [leaving EXCEPT ![i] = None] /\ fresh' = [fresh EXCEPT ![i] = FALSE]
    /\ rec' = [rec EXCEPT !.late = @ \ {i}]
    /\ UNCHANGED <<lines, now, desired, spared, idleEnds, cmd, accepted, wasUp, startHeld>>

RunChanges(i) ==
    /\ inst[i] = "InService" /\ busy' = [busy EXCEPT ![i] = ~@]
    /\ fresh' = [fresh EXCEPT ![i] = leaving[i] # None]
    /\ UNCHANGED <<lines, now, groupVars, last, leaving, lastSeen, spared, idleEnds, callVars>>

(* Mutant: a decrement below the group's minimum goes through. *)
TerminateBelow(i) ==
    /\ i \in Live
    /\ inst' = [inst EXCEPT ![i] = "Terminating"] /\ desired' = desired - 1
    /\ UNCHANGED launch
(* terminate-instance-in-auto-scaling-group, with the decrement. *)
Terminate(i) ==
    /\ i \in Live
    /\ inst' = [inst EXCEPT ![i] = "Terminating"]
    /\ desired' = IF desired > 0 THEN desired - 1 ELSE 0
    /\ UNCHANGED launch

-----------------------------------------------------------------------------
(* The host's check, once a minute. *)

(* Mutant: a run does not restart the clock. *)
DecideStale(i, active) ==
    IF last[i] = None THEN [last |-> now, leave |-> FALSE]
    ELSE [last |-> last[i], leave |-> now - last[i] >= Idle]
(* Mutant: one minute short. *)
DecideShort(i, active) ==
    IF active = TRUE \/ last[i] = None THEN [last |-> now, leave |-> FALSE]
    ELSE [last |-> last[i], leave |-> now - last[i] >= Idle - 1]
(* A run, or the first check, restarts the clock; a silent Docker does not. *)
Decide(i, active) ==
    IF active = TRUE \/ last[i] = None THEN [last |-> now, leave |-> FALSE]
    ELSE [last |-> last[i], leave |-> now - last[i] >= Idle]

(* Mutant: the uptime is not looked at. *)
OverdueNever(i) == FALSE
Overdue(i)      == now - launch[i] >= Lifetime

(* The IMDS block cannot be restored, or the lifetime is over: leave, busy or
   not.  Else Docker is asked, and answers or not. *)
Check(i) ==
    /\ inst[i] = "InService" /\ leaving[i] = None /\ "timer" \in lines
    /\ \/ /\ leaving' = [leaving EXCEPT ![i] = "other"]
          /\ UNCHANGED <<last, lastSeen, fresh>>
       \/ \E active \in {busy[i], None} :
            LET d == Decide(i, active) IN
            /\ ~Overdue(i)
            /\ last' = [last EXCEPT ![i] = d.last]
            /\ leaving' = [leaving EXCEPT ![i] = IF d.leave THEN "idle" ELSE None]
            /\ lastSeen' = [lastSeen EXCEPT ![i] = IF active = TRUE \/ last[i] = None THEN now ELSE @]
            /\ fresh' = [fresh EXCEPT ![i] = active = None /\ d.leave]
    /\ UNCHANGED <<lines, now, groupVars, busy, spared, idleEnds, callVars>>

(* A corrupt or lost idle.json reads as a first check. *)
LoseFile(i) ==
    /\ inst[i] = "InService" /\ last[i] # None /\ last' = [last EXCEPT ![i] = None]
    /\ UNCHANGED <<lines, now, groupVars, busy, leaving, lastSeen, fresh, spared, idleEnds, callVars>>

(* The check's last call; one that fails is made again a minute later. *)
Leave(i) ==
    /\ inst[i] = "InService" /\ leaving[i] # None
    /\ \/ Terminate(i)
       \/ UNCHANGED groupVars
    /\ leaving' = [leaving EXCEPT ![i] = None]
    /\ spared'   = (spared /\ (leaving[i] = "idle" /\ inst'[i] = "Terminating" /\ busy[i] => fresh[i]))
    /\ idleEnds' = (idleEnds /\ (leaving[i] = "idle" /\ inst'[i] = "Terminating" => now - lastSeen[i] >= Idle))
    /\ fresh' = [fresh EXCEPT ![i] = FALSE]
    /\ UNCHANGED <<lines, now, busy, last, lastSeen, callVars>>

-----------------------------------------------------------------------------
(* The controller.  `c` is the invocation, `c2` what becomes of it. *)

(* Mutant: a group whose instance is on its way out has a name of its own. *)
StateLeaving(d, members, inService) ==
    IF d = 0 THEN IF members = {} THEN "stopped" ELSE "stopping"
    ELSE IF inService # {} THEN "running" ELSE IF members = {} THEN "starting" ELSE "replacing"
State(d, members, inService) ==
    IF d = 0 THEN IF members = {} THEN "stopped" ELSE "stopping"
    ELSE IF inService # {} THEN "running" ELSE "starting"

Snapshot(reason) ==
    [state |-> State(desired, Members, {i \in Ids : inst[i] = "InService"}),
     desired_capacity |-> desired, instances |-> Members,
     reason |-> reason, blocked |-> reason # "under_cap"]

(* What the client checks of a status before it uses it. *)
Problem(status) ==
    \/ status.state \notin States
    \/ /\ status.state # "unknown"
       /\ \/ status.desired_capacity \notin {0, 1}
          \/ Cardinality(status.instances) > MaxInstances
          \/ status.reason \notin Reasons \/ status.blocked \notin BOOLEAN

(* An unreadable budget blocks as one at its cap does. *)
ReasonOf(actual, limit) ==
    IF actual = None \/ limit \in {None, 0} THEN "budget_unavailable"
    ELSE IF actual * 100 >= limit * BlockPercent THEN "over_cap" ELSE "under_cap"

(* Mutant: a budget that cannot be read lets a start through. *)
BlockedOverOnly(reason) == reason = "over_cap"
Blocked(reason) == reason \in {"over_cap", "budget_unavailable"}

Rest == UNCHANGED <<lines, now, hostVars>>

(* Mutant: a start looks for an instance, not at the capacity. *)
StartRaisesMembers == Members = {}
(* A start sets the capacity only where it is not 1 yet. *)
StartRaises == desired < 1

CmdBudget ==
    /\ cmd.step = "budget"
    /\ \E actual, limit \in Amounts :
         LET reason == ReasonOf(actual, limit) IN
         cmd' = [cmd EXCEPT !.reason = reason,
                            !.paid = IF Blocked(reason) THEN @ ELSE <<actual, limit>>,
                            !.step = IF Blocked(reason) THEN "publish" ELSE "describe"]
    /\ UNCHANGED <<groupVars, rec, accepted, wasUp, startHeld>> /\ Rest

CmdDescribe ==
    /\ cmd.step = "describe"
    /\ cmd' = [cmd EXCEPT !.step = IF IF cmd.act = "start" THEN StartRaises ELSE desired > 0
                                   THEN "set" ELSE "publish"]
    /\ UNCHANGED <<groupVars, rec, accepted, wasUp, startHeld>> /\ Rest

CmdSet ==
    /\ cmd.step = "set"
    /\ desired' = (IF cmd.act = "start" THEN 1 ELSE 0)
    /\ cmd' = [cmd EXCEPT !.step = "publish", !.paid = NoCall.paid] /\ wasUp' = (wasUp \/ desired' = 1)
    /\ UNCHANGED <<inst, launch, rec, accepted, startHeld>> /\ Rest

(* The status is read and published, and the start is answered. *)
CmdPublish ==
    /\ cmd.step = "publish"
    /\ \E reason \in Reasons :
         /\ cmd.act = "start" => reason = cmd.reason
         /\ accepted' = (accepted /\ ~Problem(Snapshot(reason)))
    /\ startHeld' = (startHeld /\ (cmd.act = "start" /\ ~Blocked(cmd.reason) => wasUp))
    /\ cmd' = NoCall /\ wasUp' = FALSE
    /\ UNCHANGED <<groupVars, rec>> /\ Rest

(* A call of AWS fails: controller_error, whatever was done stays done. *)
CmdFails ==
    /\ cmd.step \in {"describe", "set", "publish"}
    /\ cmd' = NoCall /\ wasUp' = FALSE
    /\ UNCHANGED <<groupVars, rec, accepted, startHeld>> /\ Rest

(* `aws lambda invoke`; a throttled one does not reach the controller. *)
Invoke(act) ==
    /\ cmd.step = "idle"
    /\ cmd' = [NoCall EXCEPT !.act = act, !.step = IF act = "start" THEN "budget" ELSE "describe"]
    /\ wasUp' = (desired = 1)
    /\ UNCHANGED <<groupVars, rec, accepted, startHeld>> /\ Rest

(* reconcile, each minute: the instances past their deadline, as far as EC2
   describes them, are ended one by one ... *)
RecDescribe ==
    /\ rec.step = "idle" /\ "schedule" \in lines
    /\ \E known \in SUBSET Ids :
         LET late == {i \in Live \cap known : now - launch[i] >= Lifetime} IN
         rec' = [NoCall EXCEPT !.act = "reconcile", !.late = late,
                               !.step = IF late = {} THEN "publish" ELSE "terminate"]
    /\ UNCHANGED <<groupVars, cmd, accepted, wasUp, startHeld>> /\ Rest

RecTerminate ==
    /\ rec.step = "terminate"
    /\ \/ \E i \in rec.late :
            /\ Terminate(i)
            /\ rec' = [rec EXCEPT !.late = @ \ {i},
                                  !.step = IF rec.late = {i} THEN "publish" ELSE "terminate"]
       \/ UNCHANGED groupVars /\ rec' = NoCall
    /\ UNCHANGED <<cmd, accepted, wasUp, startHeld>> /\ Rest

(* ... and the status is published. *)
RecPublish ==
    /\ rec.step = "publish" /\ rec' = NoCall
    /\ \E reason \in Reasons : accepted' = (accepted /\ ~Problem(Snapshot(reason)))
    /\ UNCHANGED <<groupVars, cmd, wasUp, startHeld>> /\ Rest

-----------------------------------------------------------------------------
Aws   == Launch \/ \E i \in Ids : InService(i) \/ ScaleIn(i) \/ Vanish(i)
Cmd   == CmdBudget \/ CmdDescribe \/ CmdSet \/ CmdPublish \/ CmdFails
Rec   == RecDescribe \/ RecTerminate \/ RecPublish

Next ==
    \/ Tick \/ Aws \/ Cmd \/ Rec
    \/ \E act \in {"start", "stop"} : Invoke(act)
    \/ \E i \in Ids : RunChanges(i) \/ Check(i) \/ LoseFile(i) \/ Leave(i)

Spec == Init /\ [][Next]_vars

(* The schedule and the timer that run come round each minute; AWS takes a call,
   and describes the instance, every now and then. *)
LiveSpec ==
    /\ Spec
    /\ WF_vars(Aws) /\ WF_vars(Rec)
    /\ \A i \in Ids :
         /\ WF_vars(Check(i)) /\ WF_vars(Leave(i)) /\ SF_vars(Leave(i) /\ inst'[i] = "Terminating")
         /\ SF_vars(RecDescribe /\ i \in rec'.late)
         /\ SF_vars(RecTerminate /\ inst'[i] = "Terminating")

-----------------------------------------------------------------------------
(* Properties. *)

(* The host ends itself as idle only after a full idle period without a run that
   a check saw, and a new host has one such period first (decide). *)
EndsIdle == idleEnds

(* A run that was up when the check asked Docker is not ended as idle: only one
   that started since, or that Docker did not show (check). *)
SparesRun == spared

(* "The host's role cannot raise capacity; only the controller, behind the budget
   gate, can": every rise belongs to a start that read a budget under its cap. *)
BudgetGate ==
    [][desired' > desired =>
         /\ cmd.act = "start" /\ cmd.paid \in (0..2) \X (1..2)
         /\ 100 * cmd.paid[1] < cmd.paid[2] * BlockPercent]_vars

(* "start sets desired capacity to 1": when one answered ok, capacity was 1 at
   some moment of the call, whatever the host and the schedule did meanwhile. *)
StartHeld == startHeld

(* The deadline holds from outside or from inside: with either line running, an
   instance past its lifetime is ended, busy or not. *)
DeadlineHolds ==
    \A i \in Ids : i \in Live /\ now - launch[i] >= Lifetime ~> i \notin Live

(* Whatever the group is caught doing, the client accepts the status that is
   published of it (cloud.status_problem). *)
ClientAccepts == accepted

(* The host leaves as idle when it is, and never under a run its check saw. *)
IdleEnds == TypeOK /\ EndsIdle /\ SparesRun

(* What the controller answers and publishes is so, and its client takes it. *)
AnswersTrue == StartHeld /\ ClientAccepts
=============================================================================
