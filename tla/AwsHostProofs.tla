---------------------------- MODULE AwsHostProofs ----------------------------
(***************************************************************************)
(* Proofs about AwsHost, for any periods, percentage, horizon and number of   *)
(* instances, and whichever of the two deadline lines run.                  *)
(***************************************************************************)
EXTENDS AwsHost, TLAPS, FiniteSetTheorems

-----------------------------------------------------------------------------
(* The inductive strengthening.  The check's clock starts at what it last saw, and it means to leave as idle
   only after a full period, with no run but one it could not know of. *)
HostInv ==
    /\ \A i \in Ids :
         /\ last[i] # None => last[i] = lastSeen[i]
         /\ leaving[i] = "idle" => now - lastSeen[i] >= Idle
         /\ leaving[i] = "idle" /\ busy[i] => fresh[i]
    /\ EndsIdle /\ SparesRun

(* A capacity of 1 during an invocation has been noted, and a start that is about
   to publish an answer of ok has seen it. *)
StartInv ==
    /\ cmd.step # "idle" /\ desired = 1 => wasUp
    /\ cmd.step = "publish" /\ cmd.act = "start" /\ ~Blocked(cmd.reason) => wasUp
    /\ StartHeld

(* What a start read of the budget on its way to the capacity. *)
UnderCap(paid) == paid \in (0..2) \X (1..2) /\ 100 * paid[1] < paid[2] * BlockPercent
PaidInv == cmd.act = "start" /\ cmd.step \in {"describe", "set"} => UnderCap(cmd.paid)

IInv == TypeOK /\ HostInv /\ StartInv /\ PaidInv

-----------------------------------------------------------------------------
LEMMA NoCallTyped == NoCall \in Call
<1>1. <<0, 1>> \in Amounts \X Amounts /\ {} \in SUBSET Ids /\ "under_cap" \in Reasons
  BY DEF Amounts, Reasons
<1> QED
  BY <1>1 DEF NoCall, Call

LEMMA InitHolds == Init => IInv
<1> SUFFICES ASSUME Init PROVE IInv
  OBVIOUS
<1>1. TypeOK
  <2>1. 0 \in Minutes
    BY AwsAssumption DEF Minutes
  <2>2. lines \subseteq {"schedule", "timer"}
    BY DEF Init
  <2> QED  BY <2>1, <2>2, NoCallTyped DEF Init, TypeOK
<1>2. HostInv
  BY AwsAssumption DEF Init, HostInv, EndsIdle, SparesRun
<1>3. StartInv /\ PaidInv
  BY AwsAssumption DEF Init, StartInv, PaidInv, StartHeld, NoCall
<1> QED
  BY <1>1, <1>2, <1>3 DEF IInv

(* What the check decides: a time that was, and to leave only with nothing seen. *)
LEMMA DecideTyped ==
    ASSUME TypeOK, NEW i \in Ids, NEW active
    PROVE  /\ Decide(i, active).last \in Minutes /\ Decide(i, active).leave \in BOOLEAN
           /\ Decide(i, active).leave => active # TRUE /\ last[i] # None /\ now - last[i] >= Idle
           /\ Decide(i, active).last = IF active = TRUE \/ last[i] = None THEN now ELSE last[i]
<1>1. now \in Minutes /\ last[i] \in Minutes \cup {None}
  BY DEF TypeOK
<1>2. CASE active = TRUE \/ last[i] = None
  <2>1. Decide(i, active) = [last |-> now, leave |-> FALSE]
    BY <1>2 DEF Decide
  <2> QED  BY <1>1, <1>2, <2>1
<1>3. CASE ~(active = TRUE \/ last[i] = None)
  <2> DEFINE over == now - last[i] >= Idle
  <2>1. over \in BOOLEAN
    OBVIOUS
  <2>2. Decide(i, active) = [last |-> last[i], leave |-> over]
    BY <1>3 DEF Decide
  <2> HIDE DEF over
  <2>3. Decide(i, active).last = last[i] /\ Decide(i, active).leave = over
    BY <2>2
  <2>4. Decide(i, active).leave => over
    BY <2>3
  <2> QED  BY <1>1, <1>3, <2>1, <2>3, <2>4 DEF over
<1> QED
  BY <1>2, <1>3

LEMMA TerminateTyped ==
    ASSUME TypeOK, NEW i \in Ids, Terminate(i)
    PROVE  /\ desired' \in {0, 1} /\ desired' <= desired
           /\ inst' \in [Ids -> {None, "Pending", "InService", "Terminating"}]
  BY DEF TypeOK, Terminate

(* The budget's answer lets a start through only under its cap. *)
LEMMA GateReads ==
    ASSUME NEW actual \in Amounts, NEW limit \in Amounts, ~Blocked(ReasonOf(actual, limit))
    PROVE  UnderCap(<<actual, limit>>)
<1>1. actual \in 0..2 /\ limit \in 1..2 /\ ~(actual * 100 >= limit * BlockPercent)
  BY AwsAssumption DEF Blocked, ReasonOf, Amounts
<1>2. actual \in Int /\ limit * BlockPercent \in Int
  BY <1>1, AwsAssumption
<1>3. 100 * actual < limit * BlockPercent
  <2> DEFINE x == limit * BlockPercent
  <2>1. x \in Int /\ ~(actual * 100 >= x)
    BY <1>1, <1>2
  <2> HIDE DEF x
  <2>2. 100 * actual < x
    BY <2>1, <1>2
  <2> QED  BY <2>2 DEF x
<1> QED
  BY <1>1, <1>3 DEF UnderCap

LEMMA ReasonTyped ==
    ASSUME NEW actual, NEW limit
    PROVE  ReasonOf(actual, limit) \in Reasons
  BY DEF ReasonOf, Reasons

-----------------------------------------------------------------------------
LEMMA TypeStep == TypeOK /\ [Next]_vars => TypeOK'
<1> SUFFICES ASSUME TypeOK, [Next]_vars PROVE TypeOK'
  OBVIOUS
<1> USE AwsAssumption DEF TypeOK, groupVars, hostVars, callVars, Rest
<1>1. CASE UNCHANGED vars
  BY <1>1 DEF vars
<1>2. CASE Tick
  BY <1>2 DEF Tick, Minutes
<1>3. CASE Launch
  BY <1>3 DEF Launch
<1>4. ASSUME NEW i \in Ids, InService(i) \/ ScaleIn(i) PROVE TypeOK'
  BY <1>4 DEF InService, ScaleIn
<1>5. ASSUME NEW i \in Ids, Vanish(i) PROVE TypeOK'
  BY <1>5 DEF Vanish, Call, Minutes
<1>6. CASE CmdBudget
  <2>1. PICK actual \in Amounts, limit \in Amounts :
           LET reason == ReasonOf(actual, limit) IN
           cmd' = [cmd EXCEPT !.reason = reason,
                              !.paid = IF Blocked(reason) THEN @ ELSE <<actual, limit>>,
                              !.step = IF Blocked(reason) THEN "publish" ELSE "describe"]
    BY <1>6 DEF CmdBudget
  <2>2. ReasonOf(actual, limit) \in Reasons /\ <<actual, limit>> \in Amounts \X Amounts
    BY ReasonTyped
  <2>3. cmd' \in Call
    BY <2>1, <2>2 DEF Call
  <2> QED  BY <1>6, <2>3 DEF CmdBudget
<1>7. CASE CmdDescribe
  BY <1>7 DEF CmdDescribe, Call
<1>8. CASE CmdSet
  <2>1. NoCall.paid \in Amounts \X Amounts
    BY NoCallTyped DEF Call
  <2>2. cmd' \in Call
    BY <1>8, <2>1 DEF CmdSet, Call
  <2> QED  BY <1>8, <2>2 DEF CmdSet
<1>9. CASE CmdPublish
  BY <1>9, NoCallTyped DEF CmdPublish
<1>10. CASE CmdFails
  BY <1>10, NoCallTyped DEF CmdFails
<1>11. ASSUME NEW act \in {"start", "stop"}, Invoke(act) PROVE TypeOK'
  <2>1. cmd' \in Call
    BY <1>11, NoCallTyped DEF Invoke, Call
  <2> QED  BY <1>11, <2>1 DEF Invoke
<1>12. CASE RecDescribe
  <2>1. PICK known \in SUBSET Ids :
           LET late == {i \in Live \cap known : now - launch[i] >= Lifetime} IN
           rec' = [NoCall EXCEPT !.act = "reconcile", !.late = late,
                                 !.step = IF late = {} THEN "publish" ELSE "terminate"]
    BY <1>12 DEF RecDescribe
  <2>2. rec' \in Call
    BY <2>1, NoCallTyped DEF Call, Live
  <2> QED  BY <1>12, <2>2 DEF RecDescribe
<1>13. CASE RecTerminate
  <2>1. ASSUME NEW i \in rec.late, Terminate(i),
               rec' = [rec EXCEPT !.late = @ \ {i},
                                  !.step = IF rec.late = {i} THEN "publish" ELSE "terminate"]
        PROVE  TypeOK'
    <3>1. i \in Ids /\ rec' \in Call
      BY <2>1 DEF Call
    <3> QED
      BY <1>13, <2>1, <3>1, TerminateTyped DEF RecTerminate, Terminate
  <2>2. CASE UNCHANGED groupVars /\ rec' = NoCall
    BY <1>13, <2>2, NoCallTyped DEF RecTerminate
  <2> QED  BY <1>13, <2>1, <2>2 DEF RecTerminate
<1>14. CASE RecPublish
  BY <1>14, NoCallTyped DEF RecPublish
<1>15. ASSUME NEW i \in Ids, RunChanges(i) \/ LoseFile(i) PROVE TypeOK'
  BY <1>15 DEF RunChanges, LoseFile
<1>16. ASSUME NEW i \in Ids, Check(i) PROVE TypeOK'
  <2>1. CASE leaving' = [leaving EXCEPT ![i] = "other"] /\ UNCHANGED <<last, lastSeen, fresh>>
    BY <1>16, <2>1 DEF Check
  <2>2. ASSUME NEW active \in {busy[i], None},
               last' = [last EXCEPT ![i] = Decide(i, active).last],
               leaving' = [leaving EXCEPT ![i] = IF Decide(i, active).leave THEN "idle" ELSE None],
               lastSeen' = [lastSeen EXCEPT ![i] = IF active = TRUE \/ last[i] = None THEN now ELSE @],
               fresh' = [fresh EXCEPT ![i] = active = None /\ Decide(i, active).leave]
        PROVE  TypeOK'
    <3>1. (active = None /\ Decide(i, active).leave) \in BOOLEAN
      OBVIOUS
    <3> QED  BY <1>16, <2>2, <3>1, DecideTyped DEF Check
  <2> QED  BY <1>16, <2>1, <2>2 DEF Check
<1>17. ASSUME NEW i \in Ids, Leave(i) PROVE TypeOK'
  <2>1. launch' = launch /\ desired' \in {0, 1}
        /\ inst' \in [Ids -> {None, "Pending", "InService", "Terminating"}]
    BY <1>17, TerminateTyped DEF Leave, Terminate
  <2> QED  BY <1>17, <2>1 DEF Leave
<1> QED
  BY <1>1, <1>2, <1>3, <1>4, <1>5, <1>6, <1>7, <1>8, <1>9, <1>10, <1>11, <1>12, <1>13, <1>14,
     <1>15, <1>16, <1>17 DEF Next, Aws, Cmd, Rec

-----------------------------------------------------------------------------
(* HostInv is of the instances alone. *)
LEMMA HostStep == TypeOK /\ HostInv /\ [Next]_vars => HostInv'
<1> SUFFICES ASSUME TypeOK, HostInv, [Next]_vars PROVE HostInv'
  OBVIOUS
<1> USE AwsAssumption DEF HostInv, EndsIdle, SparesRun, groupVars, hostVars, callVars, Rest
<1>1. ASSUME UNCHANGED <<now, hostVars>> PROVE HostInv'
  BY <1>1
<1>2. CASE Tick
  BY <1>2 DEF Tick, TypeOK, Minutes
<1>3. CASE Launch
  BY <1>1, <1>3 DEF Launch
<1>4. ASSUME NEW i \in Ids, InService(i) \/ ScaleIn(i) PROVE HostInv'
  BY <1>1, <1>4 DEF InService, ScaleIn
<1>5. ASSUME NEW i \in Ids, Vanish(i) PROVE HostInv'
  BY <1>5 DEF Vanish, TypeOK
<1>6. CASE Cmd \/ Rec
  BY <1>1, <1>6 DEF Cmd, Rec, CmdBudget, CmdDescribe, CmdSet, CmdPublish, CmdFails,
                    RecDescribe, RecTerminate, RecPublish
<1>7. ASSUME NEW act \in {"start", "stop"}, Invoke(act) PROVE HostInv'
  BY <1>1, <1>7 DEF Invoke
<1>8. ASSUME NEW i \in Ids, RunChanges(i) PROVE HostInv'
  BY <1>8 DEF RunChanges, TypeOK
<1>9. ASSUME NEW i \in Ids, LoseFile(i) PROVE HostInv'
  BY <1>9 DEF LoseFile, TypeOK
<1>10. ASSUME NEW i \in Ids, Check(i) PROVE HostInv'
  <2>1. UNCHANGED <<now, busy, spared, idleEnds>>
    BY <1>10 DEF Check
  <2>2. CASE leaving' = [leaving EXCEPT ![i] = "other"] /\ UNCHANGED <<last, lastSeen, fresh>>
    BY <2>1, <2>2 DEF TypeOK
  <2>3. ASSUME NEW active \in {busy[i], None},
               last' = [last EXCEPT ![i] = Decide(i, active).last],
               leaving' = [leaving EXCEPT ![i] = IF Decide(i, active).leave THEN "idle" ELSE None],
               lastSeen' = [lastSeen EXCEPT ![i] = IF active = TRUE \/ last[i] = None THEN now ELSE @],
               fresh' = [fresh EXCEPT ![i] = active = None /\ Decide(i, active).leave]
        PROVE  HostInv'
    <3>1. last'[i] # None => last'[i] = lastSeen'[i]
      BY <2>3, DecideTyped DEF TypeOK
    <3>2. leaving'[i] = "idle" => Decide(i, active).leave
      BY <2>3 DEF TypeOK
    <3>3. leaving'[i] = "idle" => now - lastSeen'[i] >= Idle
      BY <2>3, <3>2, DecideTyped DEF TypeOK
    <3>4. leaving'[i] = "idle" /\ busy[i] => fresh'[i]
      <4> SUFFICES ASSUME leaving'[i] = "idle", busy[i] PROVE fresh'[i]
        OBVIOUS
      <4>1. active # TRUE /\ Decide(i, active).leave
        BY <3>2, DecideTyped
      <4>2. active = None
        BY <4>1 DEF TypeOK
      <4> QED  BY <2>3, <4>1, <4>2 DEF TypeOK
    <3> QED
      BY <2>1, <2>3, <3>1, <3>3, <3>4 DEF TypeOK
  <2> QED  BY <1>10, <2>2, <2>3 DEF Check
<1>11. ASSUME NEW i \in Ids, Leave(i) PROVE HostInv'
  BY <1>11 DEF Leave, TypeOK
<1> QED
  BY <1>1, <1>2, <1>3, <1>4, <1>5, <1>6, <1>7, <1>8, <1>9, <1>10, <1>11 DEF Next, Aws, vars

(* StartInv is of the group's capacity and the operator's invocation. *)
LEMMA StartStep == TypeOK /\ StartInv /\ [Next]_vars => StartInv'
<1> SUFFICES ASSUME TypeOK, StartInv, [Next]_vars PROVE StartInv'
  OBVIOUS
<1> USE DEF StartInv, StartHeld, groupVars, hostVars, callVars, Rest
<1>1. ASSUME UNCHANGED <<cmd, wasUp, startHeld>>, desired' <= desired, desired' \in {0, 1} PROVE StartInv'
  BY <1>1 DEF TypeOK, Blocked
<1>2. ASSUME UNCHANGED <<cmd, wasUp, startHeld, desired>> PROVE StartInv'
  BY <1>2 DEF Blocked
<1>3. CASE CmdBudget
  BY <1>3 DEF CmdBudget, TypeOK, Call, Blocked
<1>4. CASE CmdDescribe
  BY <1>4 DEF CmdDescribe, TypeOK, Call, StartRaises, Blocked
<1>5. CASE CmdSet
  BY <1>5 DEF CmdSet, TypeOK, Call, Blocked
<1>6. CASE CmdPublish
  BY <1>6 DEF CmdPublish, NoCall
<1>7. CASE CmdFails
  BY <1>7 DEF CmdFails, NoCall
<1>8. ASSUME NEW act \in {"start", "stop"}, Invoke(act) PROVE StartInv'
  BY <1>8 DEF Invoke, NoCall, TypeOK
<1>9. CASE Rec
  <2>1. CASE RecDescribe \/ RecPublish
    BY <1>2, <2>1 DEF RecDescribe, RecPublish
  <2>2. CASE RecTerminate
    <3>1. ASSUME NEW i \in rec.late, Terminate(i) PROVE desired' <= desired /\ desired' \in {0, 1}
      BY <3>1, TerminateTyped DEF TypeOK, Call
    <3> QED  BY <1>1, <1>2, <2>2, <3>1 DEF RecTerminate
  <2> QED  BY <1>9, <2>1, <2>2 DEF Rec
<1>10. ASSUME NEW i \in Ids, Leave(i) PROVE StartInv'
  BY <1>1, <1>2, <1>10, TerminateTyped DEF Leave
<1>11. CASE Aws \/ Tick
  BY <1>2, <1>11 DEF Aws, Launch, InService, ScaleIn, Vanish, Tick
<1>12. ASSUME NEW i \in Ids, RunChanges(i) \/ Check(i) \/ LoseFile(i) PROVE StartInv'
  BY <1>2, <1>12 DEF RunChanges, Check, LoseFile
<1> QED
  BY <1>2, <1>3, <1>4, <1>5, <1>6, <1>7, <1>8, <1>9, <1>10, <1>11, <1>12 DEF Next, Cmd, vars

-----------------------------------------------------------------------------
LEMMA PaidStep == TypeOK /\ PaidInv /\ [Next]_vars => PaidInv'
<1> SUFFICES ASSUME TypeOK, PaidInv, [Next]_vars PROVE PaidInv'
  OBVIOUS
<1> USE DEF PaidInv, groupVars, hostVars, callVars, Rest
<1>1. ASSUME UNCHANGED cmd PROVE PaidInv'
  BY <1>1 DEF UnderCap
<1>2. CASE CmdBudget
  <2>1. PICK actual \in Amounts, limit \in Amounts :
           LET reason == ReasonOf(actual, limit) IN
           cmd' = [cmd EXCEPT !.reason = reason,
                              !.paid = IF Blocked(reason) THEN @ ELSE <<actual, limit>>,
                              !.step = IF Blocked(reason) THEN "publish" ELSE "describe"]
    BY <1>2 DEF CmdBudget
  <2>2. CASE Blocked(ReasonOf(actual, limit))
    BY <2>1, <2>2 DEF TypeOK, Call
  <2>3. CASE ~Blocked(ReasonOf(actual, limit))
    <3>1. cmd'.paid = <<actual, limit>>
      BY <2>1, <2>3 DEF TypeOK, Call
    <3> QED  BY <2>3, <3>1, GateReads DEF UnderCap
  <2> QED  BY <2>2, <2>3
<1>3. CASE CmdDescribe
  BY <1>3 DEF CmdDescribe, TypeOK, Call, UnderCap
<1>4. CASE CmdSet \/ CmdPublish \/ CmdFails
  <2>1. cmd'.step \in {"publish", "idle"}
    <3>1. CASE CmdSet
      BY <3>1 DEF CmdSet, TypeOK, Call
    <3>2. CASE CmdPublish \/ CmdFails
      BY <3>2 DEF CmdPublish, CmdFails, NoCall
    <3> QED  BY <1>4, <3>1, <3>2
  <2> QED  BY <2>1
<1>5. ASSUME NEW act \in {"start", "stop"}, Invoke(act) PROVE PaidInv'
  BY <1>5 DEF Invoke, NoCall
<1>6. CASE Rec \/ Aws \/ Tick
  BY <1>1, <1>6 DEF Rec, RecDescribe, RecTerminate, RecPublish, Aws, Launch, InService, ScaleIn,
                    Vanish, Tick
<1>7. ASSUME NEW i \in Ids, RunChanges(i) \/ Check(i) \/ LoseFile(i) \/ Leave(i) PROVE PaidInv'
  BY <1>1, <1>7 DEF RunChanges, Check, LoseFile, Leave
<1> QED
  BY <1>1, <1>2, <1>3, <1>4, <1>5, <1>6, <1>7 DEF Next, Cmd, vars

LEMMA Inductive == IInv /\ [Next]_vars => IInv'
  BY TypeStep, HostStep, StartStep, PaidStep DEF IInv

LEMMA Invariance == Spec => []IInv
  BY InitHolds, Inductive, PTL DEF Spec

(* The host leaves as idle only after a full idle period in which no check saw a
   run, and never under a run that its check could have seen. *)
THEOREM LeavesWhenIdle == Spec => []IdleEnds
<1>1. IInv => IdleEnds
  BY DEF IInv, HostInv, IdleEnds
<1> QED
  BY <1>1, Invariance, PTL

-----------------------------------------------------------------------------
(* Only a start that read a budget under its cap raises the capacity. *)
THEOREM OnlyPaidStartsRaise == Spec => BudgetGate
<1> DEFINE Gate == desired' > desired =>
                     /\ cmd.act = "start" /\ cmd.paid \in (0..2) \X (1..2)
                     /\ 100 * cmd.paid[1] < cmd.paid[2] * BlockPercent
<1>1. ASSUME IInv, [Next]_vars PROVE Gate
  <2> SUFFICES ASSUME desired' > desired PROVE cmd.act = "start" /\ UnderCap(cmd.paid)
    BY Zenon DEF UnderCap
  <2> USE <1>1 DEF TypeOK, groupVars, hostVars, callVars, Rest
  <2>1. TypeOK /\ PaidInv
    BY DEF IInv
  <2>2. ~(UNCHANGED desired)
    BY <2>1
  <2>3. ASSUME NEW i \in Ids PROVE ~Terminate(i)
    BY <2>1, TerminateTyped
  <2>4. ~RecTerminate
    BY <2>1, <2>2, <2>3 DEF RecTerminate, Call
  <2>5. ASSUME NEW i \in Ids PROVE ~Leave(i)
    BY <2>2, <2>3 DEF Leave
  <2>6. CmdSet
    BY <2>2, <2>4, <2>5 DEF Next, Aws, Cmd, Rec, vars, Tick, Launch, InService, ScaleIn, Vanish,
       CmdBudget, CmdDescribe, CmdPublish, CmdFails, RecDescribe, RecPublish, Invoke,
       RunChanges, Check, LoseFile
  <2>7. cmd.act = "start" /\ cmd.step = "set"
    BY <2>1, <2>2, <2>6 DEF CmdSet
  <2> QED
    BY <2>1, <2>7 DEF PaidInv
<1>2. IInv /\ [Next]_vars => [Gate]_vars
  BY <1>1, Zenon
<1> QED
  BY <1>2, Invariance, PTL DEF Spec, BudgetGate

(* A start answered ok had the capacity at 1 at some moment of the call. *)
THEOREM StartsAreHeld == Spec => []StartHeld
<1>1. IInv => StartHeld
  BY DEF IInv, StartInv
<1> QED
  BY <1>1, Invariance, PTL

(* There are never more members than places. *)
LEMMA MembersBound == IsFiniteSet(Members) /\ Cardinality(Members) <= MaxLaunch
<1>1. IsFiniteSet(Ids) /\ Cardinality(Ids) = MaxLaunch
  BY FS_Interval, AwsAssumption DEF Ids
<1>2. Members \subseteq Ids
  BY DEF Members
<1> QED
  BY <1>1, <1>2, FS_Subset

(* Every status of a group of no more instances than the client allows is one it
   takes. *)
LEMMA SnapshotTaken ==
    ASSUME TypeOK, MaxLaunch <= MaxInstances, NEW reason \in Reasons
    PROVE  ~Problem(Snapshot(reason))
<1>1. Cardinality(Members) \in Nat /\ ~(Cardinality(Members) > MaxInstances)
  BY MembersBound, FS_CardinalityType, AwsAssumption
<1>2. Snapshot(reason).instances = Members /\ Snapshot(reason).state \in States
  BY DEF Snapshot, State, States
<1> QED
  BY <1>1, <1>2 DEF Snapshot, Problem, TypeOK

LEMMA TakenStep ==
    MaxLaunch <= MaxInstances /\ IInv /\ ClientAccepts /\ [Next]_vars => ClientAccepts'
<1> SUFFICES ASSUME MaxLaunch <= MaxInstances, IInv, ClientAccepts, [Next]_vars PROVE ClientAccepts'
  OBVIOUS
<1> USE DEF ClientAccepts, callVars, Rest
<1>1. CASE CmdPublish \/ RecPublish
  BY <1>1, SnapshotTaken DEF CmdPublish, RecPublish, IInv
<1>2. CASE UNCHANGED accepted
  BY <1>2
<1> QED
  BY <1>1, <1>2 DEF Next, Aws, Cmd, Rec, vars, Tick, Launch, InService, ScaleIn, Vanish,
     CmdBudget, CmdDescribe, CmdSet, CmdFails, RecDescribe, RecTerminate, Invoke,
     RunChanges, Check, LoseFile, Leave

(* What the controller answers and publishes is so, and the client takes it, as
   long as AWS keeps no more instances at a time than the client counts. *)
THEOREM AnswersHold == MaxLaunch <= MaxInstances => (Spec => []AnswersTrue)
<1> SUFFICES ASSUME MaxLaunch <= MaxInstances PROVE Spec => []AnswersTrue
  OBVIOUS
<1>1. Init => ClientAccepts
  BY DEF Init, ClientAccepts
<1>2. IInv /\ ClientAccepts /\ [Next]_vars => ClientAccepts'
  BY TakenStep
<1>3. IInv /\ ClientAccepts => AnswersTrue
  BY DEF IInv, StartInv, AnswersTrue
<1> QED
  BY <1>1, <1>2, <1>3, Invariance, PTL DEF Spec
=============================================================================
