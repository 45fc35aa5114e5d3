---------------------------- MODULE SimAgentSettle ----------------------------
(***************************************************************************)
(* What `up` asks before it claims the host, and the discovery settle       *)
(* window those questions are about (agent.py: _foreign_run,                *)
(* _wait_for_discovery_settle, _mark_stopped).                              *)
(*                                                                         *)
(* Time is the order of three things: a container goes away (its DDS        *)
(* participants then linger, a `ghost`), _mark_stopped notes it, and        *)
(* discovery_settle_s (12 s) passes since that mark.  The participants'     *)
(* lease (10 s) is shorter, so a window that has passed leaves no ghost of  *)
(* a container that went away before its mark.                              *)
(***************************************************************************)
EXTENDS SimAgent

VARIABLES
    pre,      \* how far an unclaimed request has come
    own,      \* the active run it read in _foreign_run
    seen,     \* the marks there were when it read _stopped_at
    waited,   \* no run was active at that read, so it sleeps the window out
    marks,    \* _mark_stopped calls so far
    settled,  \* the marks whose window has passed
    ghost     \* 0, or the mark that will follow the run's container going away

preVars   == <<pre, own, seen, waited>>
clockVars == <<marks, settled, ghost>>
settleVars == <<vars, preVars, clockVars>>

PrePc == {"new", "listing", "settling", "sleeping"}

SettleTypeOK ==
    /\ TypeOK
    /\ pre \in [Runs -> PrePc]
    /\ own \in [Runs -> Runs \cup {NoRun}]
    /\ seen \in [Runs -> Nat]
    /\ waited \in [Runs -> BOOLEAN]
    /\ marks \in Nat /\ settled \in 0..marks
    /\ ghost \in [Runs -> 0..(marks + 1)]

SettleInit ==
    /\ Init
    /\ pre = [r \in Runs |-> "new"]
    /\ own = [r \in Runs |-> NoRun]
    /\ seen = [r \in Runs |-> 0]
    /\ waited = [r \in Runs |-> FALSE]
    /\ marks = 0 /\ settled = 0
    /\ ghost = [r \in Runs |-> 0]

(* _foreign_run reads the agent's own run under the lock ... *)
ReadOwn(r) ==
    /\ up[r] = "new" /\ pre[r] = "new"
    /\ pre' = [pre EXCEPT ![r] = "listing"]
    /\ own' = [own EXCEPT ![r] = run]
    /\ UNCHANGED <<vars, seen, waited, clockVars>>

(* ... and lists the label's containers outside it.  A listing that fails, or
   shows no run but its own, lets the request go on. *)
Foreign(r) == \E q \in Runs : container[q] = "up" /\ q # own[r]

NoForeign(r) ==
    /\ up[r] = "new" /\ pre[r] = "listing"
    /\ ~Foreign(r) \/ "docker" \in Faults
    /\ pre' = [pre EXCEPT ![r] = "settling"]
    /\ own' = [own EXCEPT ![r] = NoRun]
    /\ UNCHANGED <<vars, seen, waited, clockVars>>

RefuseForeign(r) ==
    /\ pre[r] = "listing" /\ Foreign(r)
    /\ UpRefuse(r)
    /\ UNCHANGED <<preVars, clockVars>>

(* _wait_for_discovery_settle reads the last stop once, and does not wait for
   it while a run is active: "refused as busy below; no point waiting first". *)
ReadStopped(r) ==
    /\ up[r] = "new" /\ pre[r] = "settling"
    /\ pre' = [pre EXCEPT ![r] = "sleeping"]
    /\ seen' = [seen EXCEPT ![r] = marks]
    /\ waited' = [waited EXCEPT ![r] = run = NoRun]
    /\ UNCHANGED <<vars, own, clockVars>>

SleepThenClaim(r) ==
    /\ pre[r] = "sleeping"
    /\ waited[r] => settled >= seen[r]
    /\ UpClaim(r)
    /\ UNCHANGED <<preVars, clockVars>>

(* Mutant: an overtaken start that stops its container and does not say so. *)
MarkingFinalisers == \E r \in Runs, a \in Actors : fin[r][a] = "mark" /\ fin'[r][a] # "mark"

(* A step past the claim, with what it does to the clock. *)
Marking ==
    \/ \E r \in Runs : up[r] = "lateMark" /\ up'[r] # "lateMark"
    \/ \E r \in Runs, a \in Actors : fin[r][a] = "mark" /\ fin'[r][a] # "mark"

Leaving(r) == container[r] = "up" /\ container'[r] # "up"

Drive ==
    /\ DriveNext
    /\ marks' = IF Marking THEN marks + 1 ELSE marks
    /\ ghost' = [r \in Runs |-> IF Leaving(r) THEN marks + 1 ELSE ghost[r]]
    /\ UNCHANGED <<settled, preVars>>

(* Mutant: the window counted without a stop to count it from. *)
WindowPassesUnmarked ==
    /\ settled' = settled + 1
    /\ ghost' = [r \in Runs |-> IF ghost[r] <= settled' THEN 0 ELSE ghost[r]]
    /\ UNCHANGED <<vars, preVars, marks>>

(* discovery_settle_s passes since the next mark; what went away before it has
   been dropped by its peers.  (That they may drop it up to 2 s sooner only
   takes ghosts away sooner.) *)
WindowPasses ==
    /\ settled < marks
    /\ settled' = settled + 1
    /\ ghost' = [r \in Runs |-> IF ghost[r] <= settled' THEN 0 ELSE ghost[r]]
    /\ UNCHANGED <<vars, preVars, marks>>

SettleNext ==
    \/ \E r \in Runs : \/ ReadOwn(r) \/ NoForeign(r) \/ RefuseForeign(r)
                       \/ ReadStopped(r) \/ SleepThenClaim(r)
    \/ Drive
    \/ WindowPasses

SettleSpec == SettleInit /\ [][SettleNext]_settleVars

-----------------------------------------------------------------------------
(* Properties. *)

Creating(r) == container[r] = "none" /\ container'[r] = "up"
InDockerRun(q) == up[q] \in {"docker", "leaving", "lateStop", "lateMark"}

(* What the settle wait does give: a request that slept, with no run stopped
   since it read the last stop, starts its container clear of the participants
   of every run but one whose worker is still inside _start_container. *)
SettleHolds ==
    [][\A r \in Runs : Creating(r) /\ waited[r] /\ seen[r] = marks =>
         \A q \in Runs : ghost[q] = 0 \/ InDockerRun(q)]_settleVars

(* "How long after a run's container stops before the next run may start"
   (DISCOVERY_SETTLE_S): no container starts while the participants of a run
   that has ended linger.  The code does not keep to it (README.md): a request
   that read the host busy does not wait, and may then find it free. *)
SettledStart ==
    [][\A r \in Runs : Creating(r) =>
         \A q \in Runs : ghost[q] = 0 \/ InDockerRun(q)]_settleVars
=============================================================================
