----------------------------- MODULE TrialProofs -----------------------------
(***************************************************************************)
(* Proofs about Trial, for any number of seeds and of the host's runs, over   *)
(* the router or in this process.                                          *)
(***************************************************************************)
EXTENDS Trial, TLAPS, FiniteSetTheorems, WellFoundedInduction

-----------------------------------------------------------------------------
(* The inductive strengthening.  A run the host holds is open, and one of the
   trial's that is not being stopped is the one it waits on, or one it was never
   told of. *)
HostInv ==
    active # None =>
      /\ filed[active.run] = "open"
      /\ active.run = mine => active.by = "trial"
      /\ HoldsOwn => \/ active.run = mine /\ pc \in {"status", "down"}
                     \/ unheard
                     \/ pc = "close" /\ ~remote

(* Which run the trial has in hand: one that no row has. *)
MineInv ==
    /\ pc \in {"status", "down", "answer", "find", "row"} => mine # None /\ seed \in Seeds
    /\ pc = "up" => mine = None /\ seed \in Seeds
    /\ mine # None => filed[mine] # "absent" /\ \A i \in DOMAIN rows : rows[i].run # mine
    /\ unheard => pc \in {"close", "ended"}

(* What it knows of that run: nothing, that it has no score, or what was filed. *)
SummaryInv ==
    pc = "row" => summary # None /\ (summary # "none" => filed[mine] = summary)

(* A row a seed, in order, each of a run of its own. *)
RowsInv ==
    /\ Len(rows) = seed - 1
    /\ \A i \in DOMAIN rows :
         /\ rows[i].seed = i /\ filed[rows[i].run] # "absent"
         /\ rows[i].verdict # "none" => filed[rows[i].run] = rows[i].verdict
    /\ \A i, j \in DOMAIN rows : rows[i].run = rows[j].run => i = j

TrialInv == TypeOK /\ OwnRuns /\ HostInv /\ MineInv /\ SummaryInv /\ RowsInv

-----------------------------------------------------------------------------
(* The host. *)

LEMMA LeastNatural ==
    ASSUME NEW S \in SUBSET Nat, S # {}
    PROVE  \E r \in S : \A q \in S : r <= q
  <1> DEFINE R == OpToRel(<, Nat)
  <1>1. IsWellFoundedOn(R, Nat)
    BY NatLessThanWellFounded
  <1>2. R = {ss \in Nat \X Nat : ss[1] < ss[2]}
    BY DEF OpToRel
  <1> HIDE DEF R
  <1>3. PICK r \in S : \A q \in S : ~(<<q, r>> \in R)
    BY <1>1, WFMin
  <1>4. \A q \in S : ~(q < r)
    BY <1>2, <1>3
  <1> QED
    BY <1>3, <1>4

(* An accepted `up` starts a run that no one has seen. *)
LEMMA UpStarts ==
    ASSUME TypeOK, NEW who \in {"trial", "other"}, NEW s \in Seeds, HostUp(who, s)
    PROVE  /\ active = None /\ active' \in Active
           /\ active'.by = who /\ active'.state = "starting" /\ active'.run \in RunIds
           /\ filed[active'.run] = "absent" /\ filed' = [filed EXCEPT ![active'.run] = "open"]
  <1> DEFINE r == CHOOSE r \in Fresh : \A q \in Fresh : r <= q
  <1>1. \E r_1 \in Fresh : \A q \in Fresh : r_1 <= q
    <2>1. Fresh \in SUBSET Nat /\ Fresh # {}
      BY DEF Fresh, RunIds, HostUp
    <2> QED
      BY <2>1, LeastNatural
  <1>2. r \in Fresh
    BY <1>1
  <1> HIDE DEF r
  <1>3. /\ active = None /\ filed' = [filed EXCEPT ![r] = "open"]
        /\ active' = [run |-> r, seed |-> s, by |-> who, verdict |-> "none",
                      state |-> "starting", asked |-> FALSE]
    BY DEF HostUp, r
  <1>4. r \in RunIds /\ filed[r] = "absent"
    BY <1>2 DEF Fresh
  <1>5. active' \in Active
    BY <1>3, <1>4 DEF Active
  <1> QED
    BY <1>3, <1>4, <1>5

LEMMA ActiveKept ==
    ASSUME TypeOK, active # None
    PROVE  /\ active \in Active /\ active.run \in RunIds
           /\ \A st \in {"running", "stopping"} :
                /\ [active EXCEPT !.state = st] \in Active
                /\ [active EXCEPT !.state = st].run = active.run
                /\ [active EXCEPT !.state = st].by = active.by
                /\ [active EXCEPT !.state = st].state = st
           /\ \A v \in Verdicts :
                /\ [active EXCEPT !.verdict = v] \in Active
                /\ [active EXCEPT !.verdict = v].run = active.run
                /\ [active EXCEPT !.verdict = v].by = active.by
                /\ [active EXCEPT !.verdict = v].state = active.state
           /\ LET a == [active EXCEPT !.state = "stopping", !.asked = TRUE] IN
                a \in Active /\ a.run = active.run /\ a.by = active.by /\ a.state = "stopping"
  <1>1. active \in Active
    BY DEF TypeOK
  <1> QED
    BY <1>1 DEF Active

-----------------------------------------------------------------------------
(* Types. *)

LEMMA TypeInit == Init => TypeOK
  <1> SUFFICES ASSUME Init PROVE TypeOK
    OBVIOUS
  <1>1. filed \in [RunIds -> Filed]
    BY DEF Init, Filed
  <1>2. seed \in 1..(NSeeds + 1)
    BY TrialAssumption DEF Init
  <1>3. rows \in Seq(Row)
    BY DEF Init
  <1>4. hurt \subseteq RunIds /\ active \in Active \cup {None} /\ remote \in BOOLEAN
    BY DEF Init
  <1> QED
    BY <1>1, <1>2, <1>3, <1>4 DEF Init, TypeOK

(* The host's steps leave the trial alone. *)
HostStep ==
    UNCHANGED <<remote, pc, trialVars, unheard, hurt>>

LEMMA TypeHost ==
    ASSUME TypeOK, HostStep, active' \in Active \cup {None}, filed' \in [RunIds -> Filed]
    PROVE  TypeOK'
  BY DEF TypeOK, HostStep, trialVars

LEMMA TypeNext == TypeOK /\ MineInv /\ SummaryInv /\ [Next]_vars => TypeOK'
  <1> SUFFICES ASSUME TypeOK, MineInv, SummaryInv, [Next]_vars PROVE TypeOK'
    OBVIOUS
  <1>a. active # None => active \in Active /\ active.run \in RunIds
    BY ActiveKept
  <1>1. CASE HostReady
    BY <1>1, ActiveKept, TypeHost DEF HostReady, HostStep, TypeOK
  <1>2. CASE HostScores
    <2>1. PICK v \in Verdicts : active' = [active EXCEPT !.verdict = v]
      BY <1>2 DEF HostScores
    <2> QED
      BY <1>2, <2>1, ActiveKept, TypeHost DEF HostScores, HostStep, TypeOK
  <1>3. CASE HostEndsRun
    BY <1>3, ActiveKept, TypeHost DEF HostEndsRun, HostStep, TypeOK
  <1>4. CASE HostFinalises
    <2>1. PICK v \in {"none", IF active.asked THEN active.verdict ELSE "none"} :
            filed' = [filed EXCEPT ![active.run] = v]
      BY <1>4 DEF HostFinalises
    <2>2. v \in Filed
      BY <1>4, <1>a DEF HostFinalises, Active, Filed
    <2>3. filed' \in [RunIds -> Filed]
      BY <2>1, <2>2 DEF TypeOK
    <2> QED
      BY <1>4, <2>3, TypeHost DEF HostFinalises, HostStep
  <1>5. CASE OtherUp
    <2>1. PICK s \in Seeds : HostUp("other", s)
      BY <1>5 DEF OtherUp
    <2>2. active' \in Active /\ filed' = [filed EXCEPT ![active'.run] = "open"]
      BY <2>1, UpStarts
    <2>3. filed' \in [RunIds -> Filed]
      BY <2>2 DEF TypeOK, Filed
    <2> QED
      BY <1>5, <2>2, <2>3, TypeHost DEF OtherUp, HostStep
  <1>6. CASE OtherDown
    BY <1>6, ActiveKept, TypeHost DEF OtherDown, Takes, HostDown, HostStep, TypeOK
  <1>7. CASE Up
    <2>1. UNCHANGED <<remote, seed, raising, summary, rows, hurt>> /\ seed \in Seeds
      BY <1>7 DEF Up, MineInv
    <2>2. /\ active' \in Active \cup {None} /\ filed' \in [RunIds -> Filed]
          /\ pc' \in {"status", "close"} /\ mine' \in RunIds \cup {None} /\ unheard' \in BOOLEAN
      <3>1. CASE HostUp("trial", seed)
        <4>1. active' \in Active /\ active'.run \in RunIds /\ filed' = [filed EXCEPT ![active'.run] = "open"]
          BY <2>1, <3>1, UpStarts
        <4>2. filed' \in [RunIds -> Filed]
          BY <4>1 DEF TypeOK, Filed
        <4> QED
          BY <1>7, <4>1, <4>2 DEF Up, Stop, TypeOK
      <3>2. CASE Stop /\ UNCHANGED <<active, filed, mine, unheard>>
        BY <3>2 DEF Stop, TypeOK
      <3> QED
        BY <1>7, <3>1, <3>2 DEF Up
    <2> QED
      BY <2>1, <2>2 DEF TypeOK
  <1>8. CASE Status
    BY <1>8 DEF Status, TypeOK, trialVars
  <1>9. CASE WaitEnds
    BY <1>9 DEF WaitEnds, TypeOK
  <1>10. CASE Down
    <2>1. UNCHANGED <<remote, filed, trialVars>>
      BY <1>10 DEF Down
    <2>2. /\ active' \in Active \cup {None} /\ pc' \in {"answer", "find", "close"}
          /\ hurt' \subseteq RunIds /\ unheard' \in BOOLEAN
      <3>1. CASE Takes(DownNames) /\ HostDown /\ pc' = "answer" /\ UNCHANGED unheard
                 /\ hurt' = IF active.by = "other" THEN hurt \cup {active.run} ELSE hurt
        BY <3>1, ActiveKept DEF Takes, HostDown, TypeOK
      <3>2. CASE UNCHANGED <<active, hurt>> /\ pc' \in {"find", "close"} /\ unheard' \in BOOLEAN
        BY <3>2 DEF TypeOK
      <3> QED
        BY <1>10, <3>1, <3>2 DEF Down, NoAnswer, Stop, TypeOK
    <2> QED
      BY <2>1, <2>2 DEF TypeOK, trialVars
  <1>11. CASE Answer
    <2>1. mine \in RunIds /\ filed[mine] # "absent"
      BY <1>11 DEF Answer, MineInv, TypeOK
    <2>2. filed[mine] # "open" => filed[mine] \in Verdicts \cup {"none", None}
      BY <2>1 DEF TypeOK, Filed
    <2>3. summary' \in Verdicts \cup {"none", None} /\ pc' \in {"row", "down", "close"} /\ unheard' \in BOOLEAN
      BY <1>11, <2>2 DEF Answer, NoAnswer, Stop, TypeOK
    <2> QED
      BY <1>11, <2>3 DEF Answer, TypeOK
  <1>12. CASE Find
    <2>1. summary' \in Verdicts \cup {"none", None}
      BY <1>12 DEF Find, Found, VerdictOf, TypeOK
    <2>2. pc' \in {"row", "close"}
      BY <1>12 DEF Find, Stop
    <2> QED
      BY <1>12, <2>1, <2>2 DEF Find, TypeOK
  <1>13. CASE NextSeed
    <2>1. [seed |-> seed, run |-> mine, verdict |-> summary] \in Row /\ seed \in Seeds
      BY <1>13 DEF NextSeed, MineInv, SummaryInv, TypeOK, Row
    <2>2. rows' \in Seq(Row)
      BY <1>13, <2>1 DEF NextSeed, TypeOK
    <2>3. seed' \in 1..(NSeeds + 1)
      BY <1>13, <2>1, TrialAssumption DEF NextSeed, Seeds, TypeOK
    <2>4. pc' \in {"close", "up"}
      BY <1>13 DEF NextSeed, Stop
    <2> QED
      BY <1>13, <2>2, <2>3, <2>4 DEF NextSeed, TypeOK
  <1>14. CASE Close
    <2>1. active' \in Active \cup {None} /\ pc' \in {"close", "ended"}
      BY <1>14, ActiveKept DEF Close, HoldsOwn, HostDown, TypeOK
    <2> QED
      BY <1>14, <2>1 DEF Close, TypeOK, trialVars
  <1>15. CASE UNCHANGED vars
    BY <1>15 DEF vars, TypeOK
  <1> QED
    BY <1>1, <1>2, <1>3, <1>4, <1>5, <1>6, <1>7, <1>8, <1>9, <1>10, <1>11, <1>12, <1>13, <1>14, <1>15
       DEF Next, Host, TrialStep

-----------------------------------------------------------------------------
(* The trial and its runs. *)

Facts == OwnRuns /\ HostInv /\ MineInv /\ SummaryInv /\ RowsInv

LEMMA RowTyped ==
    ASSUME TypeOK
    PROVE  \A i \in DOMAIN rows :
             rows[i] \in Row /\ rows[i].run \in RunIds /\ rows[i].verdict \in Verdicts \cup {"none"}
  <1>1. \A i \in DOMAIN rows : rows[i] \in Row
    BY DEF TypeOK
  <1> QED
    BY <1>1 DEF Row

(* Filing a run's verdict, or a new run, takes no row's and no summary's away. *)
LEMMA RowsFiled ==
    ASSUME TrialInv, UNCHANGED <<seed, rows>>, NEW r \in RunIds, NEW v \in Filed \ {"absent"},
           filed' = [filed EXCEPT ![r] = v], filed[r] \in {"open", "absent"}
    PROVE  RowsInv' /\ \A i \in DOMAIN rows : rows[i].run = r => filed[r] = "open"
  <1>1. \A i \in DOMAIN rows : rows[i].run \in RunIds /\ rows[i].verdict \in Verdicts \cup {"none"}
    BY RowTyped DEF TrialInv
  <1>2. filed \in [RunIds -> Filed]
    BY DEF TrialInv, TypeOK
  <1>3. \A i \in DOMAIN rows : filed[rows[i].run] # "absent"
                               /\ (rows[i].verdict # "none" => filed[rows[i].run] = rows[i].verdict)
    BY DEF TrialInv, RowsInv
  <1>4. \A i \in DOMAIN rows : rows[i].run = r => filed[r] = "open" /\ rows[i].verdict = "none"
    BY <1>1, <1>3 DEF Verdicts
  <1>5. \A i \in DOMAIN rows : filed'[rows[i].run] # "absent"
                               /\ (rows[i].verdict # "none" => filed'[rows[i].run] = rows[i].verdict)
    BY <1>1, <1>2, <1>3, <1>4
  <1> QED
    BY <1>4, <1>5 DEF TrialInv, RowsInv

(* The host's run goes from state to state, keeping whose it is. *)
LEMMA HostRunKept ==
    ASSUME TrialInv, HostStep, filed' = filed, active # None,
           active'.run = active.run, active'.by = active.by,
           active.state = "stopping" => active'.state = "stopping"
    PROVE  Facts'
  <1>1. HoldsOwn' => HoldsOwn
    BY DEF HoldsOwn
  <1> QED
    BY <1>1 DEF TrialInv, Facts, HostStep, trialVars, OwnRuns, HostInv, MineInv, SummaryInv, RowsInv


(* A run is filed: the one that was let go, or a new one of the other client's. *)
LEMMA RunFiled ==
    ASSUME TrialInv, HostStep, NEW r \in RunIds, NEW v \in Filed \ {"absent"},
           filed' = [filed EXCEPT ![r] = v], filed[r] \in {"open", "absent"}
    PROVE  OwnRuns' /\ MineInv' /\ SummaryInv' /\ RowsInv'
  <1>1. RowsInv'
    BY RowsFiled DEF HostStep, trialVars
  <1>2. UNCHANGED <<pc, mine, seed, summary, rows, unheard, hurt>>
    BY DEF HostStep, trialVars
  <1>3. mine # None => mine \in RunIds /\ filed[mine] # "absent"
    BY DEF TrialInv, TypeOK, MineInv
  <1>4. mine # None => filed'[mine] # "absent" /\ (mine # r => filed'[mine] = filed[mine])
    BY <1>3 DEF TrialInv, TypeOK
  <1>5. MineInv'
    BY <1>2, <1>4 DEF TrialInv, MineInv
  <1>6. SummaryInv'
    <2>1. SUFFICES ASSUME pc = "row", summary # "none"
                   PROVE  summary # None /\ filed'[mine] = summary
      BY <1>2 DEF TrialInv, SummaryInv
    <2>2. mine # None /\ summary # None /\ filed[mine] = summary
      BY <2>1 DEF TrialInv, MineInv, SummaryInv
    <2>3. summary \in Verdicts
      BY <2>1, <2>2 DEF TrialInv, TypeOK
    <2>4. mine # r
      BY <2>2, <2>3 DEF Verdicts
    <2> QED
      BY <1>4, <2>2, <2>4
  <1> QED
    BY <1>1, <1>2, <1>5, <1>6 DEF TrialInv, OwnRuns

(* Every step keeps what the types do not say. *)
LEMMA FactsNext == TrialInv /\ [Next]_vars => Facts'
  <1> SUFFICES ASSUME TrialInv, [Next]_vars PROVE Facts'
    OBVIOUS
  <1>t. TypeOK /\ OwnRuns /\ HostInv /\ MineInv /\ SummaryInv /\ RowsInv
    BY DEF TrialInv
  <1>n. None \notin RunIds
    BY TrialAssumption DEF RunIds
  <1>1. CASE HostReady
    BY <1>1, <1>t, ActiveKept, HostRunKept DEF HostReady, HostStep
  <1>2. CASE HostScores
    <2>1. PICK v \in Verdicts : active' = [active EXCEPT !.verdict = v]
      BY <1>2 DEF HostScores
    <2> QED
      BY <1>2, <1>t, <2>1, ActiveKept, HostRunKept DEF HostScores, HostStep
  <1>3. CASE HostEndsRun
    BY <1>3, <1>t, ActiveKept, HostRunKept DEF HostEndsRun, HostStep
  <1>4. CASE HostFinalises
    <2>1. PICK v \in {"none", IF active.asked THEN active.verdict ELSE "none"} :
            filed' = [filed EXCEPT ![active.run] = v]
      BY <1>4 DEF HostFinalises
    <2>2. active # None /\ active' = None /\ HostStep
      BY <1>4 DEF HostFinalises, HostStep
    <2>3. active \in Active /\ active.run \in RunIds /\ filed[active.run] = "open"
      BY <1>t, <2>2, ActiveKept DEF HostInv
    <2>4. v \in Filed \ {"absent"}
      BY <2>3 DEF Active, Filed, Verdicts
    <2>5. OwnRuns' /\ MineInv' /\ SummaryInv' /\ RowsInv'
      BY <2>1, <2>2, <2>3, <2>4, RunFiled
    <2> QED
      BY <2>2, <2>5 DEF Facts, HostInv
  <1>5. CASE OtherUp
    <2>1. PICK s \in Seeds : HostUp("other", s)
      BY <1>5 DEF OtherUp
    <2>2. HostStep
      BY <1>5 DEF OtherUp, HostStep
    <2>3. /\ active'.by = "other" /\ active'.run \in RunIds /\ filed[active'.run] = "absent"
          /\ filed' = [filed EXCEPT ![active'.run] = "open"]
      BY <1>t, <2>1, UpStarts
    <2>4. OwnRuns' /\ MineInv' /\ SummaryInv' /\ RowsInv'
      <3>1. "open" \in Filed \ {"absent"}
        BY DEF Filed
      <3> QED
        BY <2>2, <2>3, <3>1, RunFiled
    <2>5. active'.run # mine
      BY <1>n, <1>t, <2>3 DEF MineInv
    <2>6. filed'[active'.run] = "open" /\ ~HoldsOwn' /\ mine' = mine
      BY <1>t, <2>2, <2>3 DEF TypeOK, HoldsOwn, HostStep, trialVars
    <2> QED
      BY <2>4, <2>5, <2>6 DEF Facts, HostInv
  <1>6. CASE OtherDown
    BY <1>6, <1>t, ActiveKept, HostRunKept DEF OtherDown, Takes, HostDown, HostStep
  <1>7. CASE Up
    <2>1. /\ pc = "up" /\ UNCHANGED <<remote, seed, raising, summary, rows, hurt>>
          /\ seed \in Seeds /\ mine = None /\ ~unheard
      BY <1>7, <1>t DEF Up, MineInv
    <2>2. CASE HostUp("trial", seed)
      <3>1. /\ active = None /\ active'.by = "trial" /\ active'.run \in RunIds
            /\ filed[active'.run] = "absent" /\ filed' = [filed EXCEPT ![active'.run] = "open"]
        BY <1>t, <2>1, <2>2, UpStarts
      <3>2. filed'[active'.run] = "open"
        BY <1>t, <3>1 DEF TypeOK
      <3>3. RowsInv' /\ \A i \in DOMAIN rows : rows[i].run # active'.run
        <4>1. "open" \in Filed \ {"absent"}
          BY DEF Filed
        <4> QED
          BY <2>1, <3>1, <4>1, RowsFiled
      <3>4. \/ mine' = active'.run /\ pc' = "status" /\ unheard' = unheard
            \/ mine' = None /\ pc' = "close" /\ unheard' = remote
        <4>1. filed' # filed
          BY <3>1, <3>2
        <4> QED
          BY <1>7, <2>1, <3>1, <4>1 DEF Up, Stop
      <3>5. HostInv'
        BY <1>n, <2>1, <3>1, <3>2, <3>4, <1>t DEF HostInv, HoldsOwn, TypeOK
      <3>6. MineInv'
        <4>1. rows' = rows /\ seed' = seed /\ pc' # "up"
          BY <2>1, <3>4
        <4>2. mine' # None => filed'[mine'] # "absent" /\ \A i \in DOMAIN rows : rows[i].run # mine'
          BY <3>2, <3>3, <3>4
        <4>3. pc' \in {"status", "down", "answer", "find", "row"} => mine' # None
          BY <1>n, <3>1, <3>4
        <4>4. unheard' => pc' \in {"close", "ended"}
          BY <2>1, <3>4
        <4> QED
          BY <2>1, <4>1, <4>2, <4>3, <4>4 DEF MineInv
      <3> QED
        BY <1>t, <2>1, <3>3, <3>4, <3>5, <3>6 DEF Facts, OwnRuns, SummaryInv
    <2>3. CASE Stop /\ UNCHANGED <<active, filed, mine, unheard>>
      <3>1. ~HoldsOwn
        BY <1>t, <2>1 DEF HostInv, HoldsOwn
      <3> QED
        BY <1>t, <2>1, <2>3, <3>1 DEF Stop, Facts, OwnRuns, HostInv, HoldsOwn, MineInv, SummaryInv, RowsInv
    <2> QED
      BY <1>7, <2>2, <2>3 DEF Up
  <1>8. CASE Status \/ WaitEnds
    <2>1. /\ pc = "status" /\ pc' \in {"status", "down"}
          /\ UNCHANGED <<remote, active, filed, seed, mine, summary, rows, unheard, hurt>>
      BY <1>8 DEF Status, WaitEnds, trialVars
    <2> QED
      BY <1>t, <2>1 DEF Facts, OwnRuns, HostInv, HoldsOwn, MineInv, SummaryInv, RowsInv
  <1>9. CASE Down
    <2>1. pc = "down" /\ UNCHANGED <<remote, filed, seed, mine, summary, rows>> /\ mine # None
      BY <1>9, <1>t DEF Down, trialVars, MineInv
    <2>2. CASE Takes(DownNames) /\ HostDown /\ pc' = "answer" /\ UNCHANGED unheard
               /\ hurt' = IF active.by = "other" THEN hurt \cup {active.run} ELSE hurt
      <3>1. active # None /\ active.run = mine
        BY <2>1, <2>2 DEF Takes, DownNames
      <3>2. active.by = "trial" /\ hurt' = hurt /\ filed[active.run] = "open"
        BY <1>t, <2>2, <3>1 DEF HostInv
      <3>3. active'.run = active.run /\ active'.by = active.by /\ active'.state = "stopping"
        BY <1>t, <2>2, <3>1, ActiveKept DEF HostDown
      <3> QED
        BY <1>t, <2>1, <2>2, <3>1, <3>2, <3>3
           DEF Facts, OwnRuns, HostInv, HoldsOwn, MineInv, SummaryInv, RowsInv
    <2>3. CASE ~Takes(DownNames) /\ pc' = "find" /\ UNCHANGED <<active, unheard, hurt>>
      <3>1. ~HoldsOwn
        BY <1>t, <2>1, <2>3 DEF HostInv, HoldsOwn, Takes, DownNames, MineInv
      <3> QED
        BY <1>t, <2>1, <2>3, <3>1 DEF Facts, OwnRuns, HostInv, HoldsOwn, MineInv, SummaryInv, RowsInv
    <2>4. CASE NoAnswer /\ UNCHANGED <<active, hurt>>
      BY <1>t, <2>1, <2>4 DEF NoAnswer, Stop, Facts, OwnRuns, HostInv, HoldsOwn, MineInv, SummaryInv, RowsInv
    <2> QED
      BY <1>9, <2>2, <2>3, <2>4 DEF Down
  <1>10. CASE Answer
    <2>1. /\ pc = "answer" /\ UNCHANGED <<remote, active, filed, seed, mine, raising, rows, hurt>>
          /\ mine \in RunIds /\ filed[mine] # "absent" /\ ~HoldsOwn
      BY <1>10, <1>t DEF Answer, MineInv, HostInv, HoldsOwn, TypeOK
    <2>2. CASE filed[mine] # "open" /\ summary' = filed[mine] /\ pc' = "row" /\ UNCHANGED unheard
      <3>1. summary' # None
        BY <1>t, <2>1, <2>2, TrialAssumption DEF TypeOK, Filed, Verdicts
      <3> QED
        BY <1>t, <2>1, <2>2, <3>1 DEF Facts, OwnRuns, HostInv, HoldsOwn, MineInv, SummaryInv, RowsInv
    <2>3. CASE pc' = "down" /\ UNCHANGED <<summary, unheard>>
      BY <1>t, <2>1, <2>3 DEF Facts, OwnRuns, HostInv, HoldsOwn, MineInv, SummaryInv, RowsInv
    <2>4. CASE NoAnswer /\ UNCHANGED summary
      BY <1>t, <2>1, <2>4 DEF NoAnswer, Stop, Facts, OwnRuns, HostInv, HoldsOwn, MineInv, SummaryInv, RowsInv
    <2> QED
      BY <1>10, <2>2, <2>3, <2>4 DEF Answer
  <1>11. CASE Find
    <2>1. /\ pc = "find" /\ UNCHANGED <<remote, active, filed, seed, mine, rows, unheard, hurt>> /\ ~HoldsOwn
      BY <1>11, <1>t DEF Find, MineInv, HostInv, HoldsOwn
    <2>2. CASE summary' \in {Found, "none"} /\ pc' = "row"
      <3>1. summary' # None /\ (summary' # "none" => filed[mine] = summary')
        BY <2>2, TrialAssumption DEF Found, VerdictOf, Verdicts
      <3> QED
        BY <1>t, <2>1, <2>2, <3>1 DEF Facts, OwnRuns, HostInv, HoldsOwn, MineInv, SummaryInv, RowsInv
    <2>3. CASE Stop
      BY <1>t, <2>1, <2>3 DEF Stop, Facts, OwnRuns, HostInv, HoldsOwn, MineInv, SummaryInv, RowsInv
    <2> QED
      BY <1>11, <2>2, <2>3 DEF Find
  <1>12. CASE NextSeed
    <2>1. /\ pc = "row" /\ UNCHANGED <<remote, active, filed, unheard, hurt>> /\ mine' = None /\ pc' # "row"
          /\ mine # None /\ filed[mine] # "absent" /\ \A i \in DOMAIN rows : rows[i].run # mine
          /\ ~unheard /\ ~HoldsOwn /\ seed \in Seeds
          /\ (summary # "none" => filed[mine] = summary)
      <3>1. /\ pc = "row" /\ UNCHANGED <<remote, active, filed, unheard, hurt>> /\ mine' = None
            /\ pc' \in {"close", "up"}
        BY <1>12 DEF NextSeed, Stop
      <3>2. /\ mine # None /\ filed[mine] # "absent" /\ \A i \in DOMAIN rows : rows[i].run # mine
            /\ ~unheard /\ seed \in Seeds
        BY <1>t, <3>1 DEF MineInv
      <3>3. ~HoldsOwn
        BY <1>t, <3>1, <3>2 DEF HostInv, HoldsOwn
      <3> QED
        BY <1>t, <3>1, <3>2, <3>3 DEF SummaryInv
    <2>2. HostInv' /\ SummaryInv' /\ OwnRuns'
      <3>1. active # None => active.run # None
        BY <1>n, <1>t, ActiveKept
      <3> QED
        BY <1>t, <2>1, <3>1 DEF HostInv, HoldsOwn, SummaryInv, OwnRuns
    <2>3. CASE raising
      BY <1>12, <1>t, <2>1, <2>2, <2>3 DEF NextSeed, Stop, Facts, MineInv, RowsInv
    <2>4. CASE ~raising
      <3> DEFINE row == [seed |-> seed, run |-> mine, verdict |-> summary]
      <3>1. /\ rows' = Append(rows, row) /\ seed' = seed + 1
            /\ pc' = IF seed = NSeeds THEN "close" ELSE "up"
        BY <1>12, <2>4 DEF NextSeed
      <3>2. row.seed = seed /\ row.run = mine /\ row.verdict = summary
        OBVIOUS
      <3> HIDE DEF row
      <3>3. Len(rows) = seed - 1 /\ seed \in Nat /\ rows \in Seq(Row)
        BY <1>t, <2>1 DEF RowsInv, TypeOK, Seeds
      <3>4. /\ Len(rows') = seed /\ DOMAIN rows' = 1..seed /\ DOMAIN rows = 1..(seed - 1)
            /\ \A i \in 1..seed : rows'[i] = IF i = seed THEN row ELSE rows[i]
        BY <3>1, <3>3
      <3>5. \A i \in DOMAIN rows' : i \in DOMAIN rows \/ i = seed
        BY <3>3, <3>4
      <3>6. RowsInv'
        <4>1. Len(rows') = seed' - 1
          BY <3>1, <3>3, <3>4
        <4>2. \A i \in DOMAIN rows' :
                 /\ rows'[i].seed = i /\ filed'[rows'[i].run] # "absent"
                 /\ rows'[i].verdict # "none" => filed'[rows'[i].run] = rows'[i].verdict
          BY <1>t, <2>1, <3>2, <3>4, <3>5 DEF RowsInv
        <4>3. \A i, j \in DOMAIN rows' : rows'[i].run = rows'[j].run => i = j
          BY <1>t, <2>1, <3>2, <3>4, <3>5 DEF RowsInv
        <4> QED
          BY <4>1, <4>2, <4>3 DEF RowsInv
      <3>7. MineInv'
        <4>1. pc' = "up" => seed' \in Seeds
          BY <2>1, <3>1, TrialAssumption DEF Seeds
        <4> QED
          BY <2>1, <3>1, <4>1 DEF MineInv
      <3> QED
        BY <2>2, <3>6, <3>7 DEF Facts
    <2> QED
      BY <2>3, <2>4
  <1>13. CASE Close
    <2>1. pc = "close" /\ UNCHANGED <<remote, filed, seed, mine, summary, rows, unheard, hurt>>
      BY <1>13 DEF Close, trialVars
    <2>2. CASE ~remote /\ HoldsOwn
      <3>1. HostDown /\ pc' = pc /\ active # None
        BY <1>13, <2>2 DEF Close, HoldsOwn
      <3>2. active'.run = active.run /\ active'.by = active.by /\ active'.state = "stopping"
        BY <1>t, <3>1, ActiveKept DEF HostDown
      <3> QED
        BY <1>t, <2>1, <2>2, <3>1, <3>2 DEF Facts, OwnRuns, HostInv, HoldsOwn, MineInv, SummaryInv, RowsInv
    <2>3. CASE ~(~remote /\ HoldsOwn)
      <3>1. pc' = "ended" /\ active' = active
        BY <1>13, <2>3 DEF Close
      <3> QED
        BY <1>t, <2>1, <2>3, <3>1 DEF Facts, OwnRuns, HostInv, HoldsOwn, MineInv, SummaryInv, RowsInv
    <2> QED
      BY <2>2, <2>3
  <1>14. CASE UNCHANGED vars
    BY <1>14, <1>t DEF vars, Facts, OwnRuns, HostInv, HoldsOwn, MineInv, SummaryInv, RowsInv
  <1> QED
    BY <1>1, <1>2, <1>3, <1>4, <1>5, <1>6, <1>7, <1>8, <1>9, <1>10, <1>11, <1>12, <1>13, <1>14
       DEF Next, Host, TrialStep

-----------------------------------------------------------------------------
(* What the invariant says of the report. *)

LEMMA RunsCounted ==
    ASSUME TrialInv
    PROVE  OneRunASeed
  <1> DEFINE D   == DOMAIN rows
             Own == {rows[i].run : i \in D}
             f   == [i \in D |-> rows[i].run]
             All == {r \in RunIds : filed[r] # "absent"} \cap (Own \cup {mine})
  <1>1. Len(rows) = seed - 1 /\ seed \in Nat /\ seed - 1 \in Nat /\ D = 1..(seed - 1)
    BY TrialAssumption DEF TrialInv, TypeOK, RowsInv
  <1>2. IsFiniteSet(D) /\ Cardinality(D) = seed - 1
    BY <1>1, FS_Interval
  <1>3. f \in Surjection(D, Own)
    BY DEF Surjection
  <1>4. IsFiniteSet(Own) /\ Cardinality(Own) <= Cardinality(D)
    <2> HIDE DEF D, Own, f
    <2> QED
      BY <1>2, <1>3, FS_Surjection
  <1> HIDE DEF D, Own, f
  <1>5. IsFiniteSet(Own \cup {mine}) /\ Cardinality(Own \cup {mine}) <= Cardinality(Own) + 1
        /\ Cardinality(Own) \in Nat /\ Cardinality(Own \cup {mine}) \in Nat
    <2>1. IsFiniteSet(Own \cup {mine}) /\ Cardinality(Own \cup {mine})
              = IF mine \in Own THEN Cardinality(Own) ELSE Cardinality(Own) + 1
      BY <1>4, FS_AddElement, Zenon
    <2>2. Cardinality(Own) \in Nat
      BY <1>4, FS_CardinalityType
    <2> QED
      BY <2>1, <2>2
  <1>6. All \in SUBSET (Own \cup {mine})
    OBVIOUS
  <1>7. IsFiniteSet(All) /\ Cardinality(All) <= Cardinality(Own \cup {mine}) /\ Cardinality(All) \in Nat
    BY <1>5, <1>6, FS_Subset, FS_CardinalityType
  <1>8. Cardinality(All) <= seed
    <2> HIDE DEF All
    <2> QED
      BY <1>1, <1>2, <1>4, <1>5, <1>7
  <1> QED
    BY <1>8 DEF TrialInv, MineInv, OneRunASeed, D, Own

LEMMA SuccessesCounted ==
    ASSUME TrialInv
    PROVE  Cardinality(Scored("success")) <= Cardinality({r \in RunIds : filed[r] = "success"})
  <1> DEFINE S == Scored("success")
             T == {r \in RunIds : filed[r] = "success"}
             f == [i \in S |-> rows[i].run]
  <1>1. \A i \in S : i \in DOMAIN rows /\ rows[i].verdict = "success"
    BY DEF Scored
  <1>2. \A i \in S : rows[i].run \in T
    <2>1. \A i \in S : rows[i].run \in RunIds
      BY <1>1, RowTyped DEF TrialInv
    <2>2. \A i \in S : filed[rows[i].run] = "success"
      BY <1>1 DEF TrialInv, RowsInv
    <2> QED
      BY <2>1, <2>2
  <1>3. f \in Injection(S, T)
    <2>1. f \in [S -> T]
      BY <1>2
    <2>2. \A i, j \in S : f[i] = f[j] => i = j
      BY <1>1 DEF TrialInv, RowsInv
    <2> QED
      BY <2>1, <2>2 DEF Injection, IsInjective
  <1>4. IsFiniteSet(T)
    <2>1. IsFiniteSet(RunIds)
      BY TrialAssumption, FS_Interval DEF RunIds
    <2> QED
      BY <2>1, FS_Subset
  <1> HIDE DEF S, T, f
  <1>5. Cardinality(S) <= Cardinality(T)
    BY <1>3, <1>4, FS_Injection
  <1> QED
    BY <1>5 DEF S, T

LEMMA RowsScored ==
    ASSUME TrialInv
    PROVE  ScoresItsOwn
  <1>1. Len(rows) = seed - 1 /\ seed \in 1..(NSeeds + 1) /\ DOMAIN rows = 1..(seed - 1)
    BY DEF TrialInv, TypeOK, RowsInv
  <1>2. \A i \in DOMAIN rows : rows[i].seed = i
    BY DEF TrialInv, RowsInv
  <1>3. {rows[i].seed : i \in DOMAIN rows} = 1..(seed - 1)
    BY <1>1, <1>2
  <1>4. (seed - 1 = NSeeds) <=> (1..(seed - 1) = Seeds)
    <2>1. ASSUME 1..(seed - 1) = Seeds PROVE seed - 1 = NSeeds
      <3>1. NSeeds \in 1..(seed - 1)
        <4>1. NSeeds \in Seeds
          BY TrialAssumption DEF Seeds
        <4> QED
          BY <2>1, <4>1
      <3> QED
        BY <1>1, <3>1, TrialAssumption
    <2> QED
      BY <2>1 DEF Seeds
  <1>5. Report.complete <=> {rows[i].seed : i \in DOMAIN rows} = Seeds
    <2>1. Report.complete = (Len(rows) = NSeeds)
      BY DEF Report
    <2> QED
      BY <1>1, <1>3, <1>4, <2>1
  <1>6. Report.successes <= Cardinality({r \in RunIds : filed[r] = "success"})
    BY SuccessesCounted DEF Report
  <1> QED
    BY <1>2, <1>5, <1>6 DEF TrialInv, RowsInv, ScoresItsOwn

-----------------------------------------------------------------------------
LEMMA TrialInit == Init => TrialInv
  <1> SUFFICES ASSUME Init PROVE TrialInv
    OBVIOUS
  <1>1. TypeOK
    BY TypeInit
  <1>2. 1 \in Seeds
    BY TrialAssumption DEF Seeds
  <1>3. MineInv
    BY <1>2 DEF Init, MineInv
  <1>4. RowsInv
    BY DEF Init, RowsInv
  <1> QED
    BY <1>1, <1>3, <1>4 DEF Init, TrialInv, OwnRuns, HostInv, SummaryInv

LEMMA TrialNext == TrialInv /\ [Next]_vars => TrialInv'
  <1> SUFFICES ASSUME TrialInv, [Next]_vars PROVE TrialInv'
    OBVIOUS
  <1>1. TypeOK'
    BY TypeNext DEF TrialInv
  <1>2. Facts'
    BY FactsNext
  <1> QED
    BY <1>1, <1>2 DEF Facts, TrialInv

(* The trial stops no run of the other client's, has one run a seed, and scores each
   seed by what its own run's summary was closed with, whatever is asked twice, late
   or never answered (client.py, REPEATABLE_VERBS; trial.py, run_trial, aggregate). *)
THEOREM TrialScoresItsOwn == Spec => []OwnTrial
  <1>1. TrialInv => OwnTrial
    BY RunsCounted, RowsScored DEF TrialInv, OwnTrial
  <1> QED
    BY TrialInit, TrialNext, <1>1, PTL DEF Spec

(* No run of the trial's is left up when it ends or asks for the next, unless the
   answer that named it was lost (trial.py, drive). *)
THEOREM TrialLeavesNone == Spec => []NoneLeft
  <1>1. TrialInv => NoneLeft
    BY DEF TrialInv, HostInv, NoneLeft, HoldsOwn
  <1> QED
    BY TrialInit, TrialNext, <1>1, PTL DEF Spec
=============================================================================
