-------------------------- MODULE ThisMachineProofs --------------------------
(***************************************************************************)
(* Proofs about ThisMachine, for any commands, whatever they are asked, any   *)
(* pids and any faults.                                                     *)
(***************************************************************************)
EXTENDS ThisMachine, TLAPS, FiniteSetTheorems

-----------------------------------------------------------------------------
(* The inductive strengthening.  A pid is an agent's at most once, and what the
   pid file and the commands name are pids that have been one. *)
Holding == {"file", "settle", "unfile", "list", "term", "grace", "wait", "stopfile"}

UsedInv ==
    /\ \A p \in Pids : IsAgent(p) => p \in used
    /\ pidfile # None => pidfile \in used
    /\ \A c \in Commands : at[c] \in Holding => rec[c] \in used

(* From the spawn to the file the lock is the start's, and no agent is filed. *)
FileInv == \A c \in Commands : at[c] = "file" => lock = c /\ ~IsManaged(pidfile)

(* A command that is about to remove its agent from the pid file has seen it gone. *)
GoneInv == \A c \in Commands : at[c] \in {"unfile", "stopfile"} => ~IsAgent(rec[c])

(* What stop noted was up when it looked. *)
NotedInv == \A c \in Commands : its[c] \subseteq early[c]

Control == UsedInv /\ FileInv /\ GoneInv /\ Stoppable
IInv    == TypeOK /\ Control /\ NotedInv /\ NoStrangerHit /\ SparesLater

-----------------------------------------------------------------------------
LEMMA InitHolds == Init => IInv
<1> SUFFICES ASSUME Init PROVE IInv
  OBVIOUS
<1>1. TypeOK
  BY DEF Init, TypeOK, Maybe
<1>2. \A p \in Pids : ~IsAgent(p)
  BY DEF Init, IsAgent, Agents
<1>3. Control
  BY <1>2 DEF Init, Control, UsedInv, FileInv, GoneInv, Stoppable, Holding, OtherAgents
<1>4. NotedInv /\ NoStrangerHit /\ SparesLater
  BY DEF Init, NotedInv, NoStrangerHit, SparesLater
<1> QED
  BY <1>1, <1>3, <1>4 DEF IInv

LEMMA TypeStep == TypeOK /\ UsedInv /\ [Next]_vars => TypeOK'
<1> SUFFICES ASSUME TypeOK, UsedInv, [Next]_vars PROVE TypeOK'
  OBVIOUS
<1> USE DEF TypeOK, Maybe, local, Go, Agents
<1>1. CASE UNCHANGED vars
  BY <1>1 DEF vars
<1>2. ASSUME NEW c \in Commands, Asked(c) PROVE TypeOK'
  <2>1. PICK verb \in Does[c] :
           /\ at' = [at EXCEPT ![c] = CASE verb \in {"start", "pull"} -> verb
                                        [] verb \in {"stop", "restart"} -> "stop"
                                        [] verb = "up" -> "connect"
                                        [] verb = "down" -> "downcheck"]
           /\ again' = [again EXCEPT ![c] = (verb = "restart")]
    BY <1>2 DEF Asked
  <2>2. verb \in {"start", "stop", "restart", "up", "down", "pull"}
    BY MachineAssumption
  <2> QED  BY <1>2, <2>1, <2>2 DEF Asked
<1>3. ASSUME NEW c \in Commands, StartLook(c) \/ StartProbe(c) \/ StartOthers(c) \/ StartRuns(c)
      PROVE TypeOK'
  BY <1>3 DEF StartLook, StartProbe, StartOthers, StartRuns
<1>4. ASSUME NEW c \in Commands, StartSpawn(c) PROVE TypeOK'
  BY <1>4 DEF StartSpawn
<1>5. ASSUME NEW c \in Commands, StartFile(c) PROVE TypeOK'
  BY <1>5 DEF StartFile
<1>6. ASSUME NEW c \in Commands, StartSettle(c) \/ StartUnfile(c) PROVE TypeOK'
  BY <1>6 DEF StartSettle, StartUnfile, RemovePidfile
<1>7. ASSUME NEW c \in Commands, StopLook(c) PROVE TypeOK'
  BY <1>7 DEF StopLook, Managed
<1>8. ASSUME NEW c \in Commands, StopStale(c) PROVE TypeOK'
  BY <1>8 DEF StopStale, Finish
<1>9. ASSUME NEW c \in Commands, StopList(c) PROVE TypeOK'
  BY <1>9 DEF StopList, Listed, UpRuns
<1>10. ASSUME NEW c \in Commands, StopTerm(c) \/ StopGrace(c) PROVE TypeOK'
  BY <1>10 DEF StopTerm, StopGrace, Signal
<1>11. ASSUME NEW c \in Commands, StopWait(c) PROVE TypeOK'
  BY <1>11 DEF StopWait
<1>12. ASSUME NEW c \in Commands, StopFile(c) PROVE TypeOK'
  BY <1>12 DEF StopFile, RemovePidfile, Finish
<1>13. ASSUME NEW c \in Commands, StopClear(c) PROVE TypeOK'
  <2>1. PICK gone \in SUBSET (RunsToClear(c) \cap UpRuns) :
           /\ run' = [h \in Holders |-> IF h \in gone THEN "gone" ELSE run[h]]
           /\ cleared' = cleared \cup (gone \ early[c])
    BY <1>13 DEF StopClear
  <2>2. run' \in [Holders -> {"none", "up", "gone"}] /\ cleared' \subseteq Holders
    BY <2>1 DEF UpRuns
  <2> QED  BY <1>13, <2>2 DEF StopClear, Finish
<1>14. ASSUME NEW c \in Commands, Pull(c) \/ Tag(c) \/ Connect(c) \/ UpCheck(c) PROVE TypeOK'
  BY <1>14 DEF Pull, Tag, Connect, UpCheck
<1>15. ASSUME NEW c \in Commands, UpLaunch(c) \/ UpEnds(c) \/ DownClears(c) PROVE TypeOK'
  BY <1>15 DEF UpLaunch, UpEnds, DownClears
<1>16. ASSUME NEW c \in Commands, StartKilled(c) PROVE TypeOK'
  BY <1>16 DEF StartKilled, UsedInv, Holding
<1>17. ASSUME NEW p \in Pids, AgentRecovers(p) \/ AgentClears(p) \/ AgentUp(p) \/ AgentLaunch(p)
                              \/ AgentDown(p) \/ AgentExits(p) \/ AgentDies(p) \/ PidReused(p)
       PROVE TypeOK'
  BY <1>17 DEF AgentRecovers, AgentClears, AgentUp, AgentLaunch, AgentDown, AgentExits, AgentDies,
               PidReused, Agent, Still
<1> QED
  BY <1>1, <1>2, <1>3, <1>4, <1>5, <1>6, <1>7, <1>8, <1>9, <1>10, <1>11, <1>12, <1>13,
     <1>14, <1>15, <1>16, <1>17 DEF Next, CommandStep

-----------------------------------------------------------------------------
(* Control.  What a command knows of its agent stays so while agents only end,
   and while the pid file only loses a name that is nobody's. *)
Ebb == /\ \A p \in Pids : IsAgent(p)' => IsAgent(p)
       /\ pidfile' = pidfile \/ (pidfile' = None /\ ~IsManaged(pidfile))
       /\ UNCHANGED <<lock, used, unfiled>>

LEMMA AgentsOnly ==
    ASSUME TypeOK, Control, Ebb, UNCHANGED <<at, rec>>
    PROVE  Control'
<1> USE DEF Ebb, TypeOK, Maybe, IsManaged
<1>1. UsedInv'
  BY DEF Control, UsedInv
<1>2. FileInv'
  BY DEF Control, FileInv
<1>3. GoneInv'
  BY DEF Control, GoneInv, UsedInv, Holding, IsAgent
<1>4. Stoppable'
  BY DEF Control, Stoppable, OtherAgents
<1> QED
  BY <1>1, <1>2, <1>3, <1>4 DEF Control

(* A command that neither spawns nor files moves on. *)
LEMMA MovesOn ==
    ASSUME TypeOK, Control, Ebb,
           NEW c \in Commands, NEW w, NEW p \in Maybe(Pids),
           at[c] # "file", w # "file", w \in Holding => p \in used,
           w \in {"unfile", "stopfile"} => proc'[p] \notin Agents,
           at' = [at EXCEPT ![c] = w], rec' = [rec EXCEPT ![c] = p]
    PROVE  Control'
<1> USE DEF Ebb, TypeOK, Maybe, IsManaged
<1>1. UsedInv'
  BY DEF Control, UsedInv
<1>2. FileInv'
  BY DEF Control, FileInv
<1>3. GoneInv'
  BY DEF Control, GoneInv, UsedInv, Holding, IsAgent
<1>4. Stoppable'
  BY DEF Control, Stoppable, OtherAgents
<1> QED
  BY <1>1, <1>2, <1>3, <1>4 DEF Control

LEMMA ManagedIs == IF Managed = None THEN ~IsManaged(pidfile)
                                     ELSE Managed = pidfile /\ IsManaged(pidfile)
  BY DEF Managed, IsManaged

(* A signal makes no agent of a process. *)
LEMMA SignalEbbs ==
    ASSUME TypeOK, NEW c \in Commands, NEW kill \in BOOLEAN, Signal(c, kill)
    PROVE  \A p \in Pids : IsAgent(p)' => IsAgent(p)
  BY DEF TypeOK, Signal, IsManaged, IsAgent, Agents

LEMMA SpawnKeeps ==
    ASSUME TypeOK, Control, NEW c \in Commands, at[c] = "lock", Free(c), Managed = None,
           NEW p \in Pids \ used,
           proc' = [proc EXCEPT ![p] = "boot"], used' = used \cup {p},
           rec' = [rec EXCEPT ![c] = p], lock' = c, Go(c, "file"), UNCHANGED <<pidfile, unfiled>>
    PROVE  Control'
<1> USE DEF TypeOK, Maybe
<1>1. ~IsManaged(pidfile) /\ p # pidfile
  BY ManagedIs, MachineAssumption DEF Control, UsedInv
<1>2. \A q \in Pids : IsAgent(q)' => IsAgent(q) \/ q = p
  BY DEF IsAgent
<1>3. \A d \in Commands : at[d] # "file"
  BY MachineAssumption DEF Control, FileInv, Free
<1>4. UsedInv'
  BY <1>2 DEF Control, UsedInv, Go
<1>5. ~IsManaged(pidfile)'
  BY <1>1, <1>2 DEF IsManaged
<1>6. FileInv'
  BY <1>3, <1>5 DEF FileInv, Go
<1>7. GoneInv'
  BY <1>2 DEF Control, GoneInv, UsedInv, Holding, Go
<1>8. Stoppable'
  <2> SUFFICES ASSUME NEW q \in Pids, IsAgent(q)'
               PROVE  q \in unfiled' \/ \E d \in Commands : at'[d] = "file" /\ rec'[d] = q
    BY DEF Stoppable, OtherAgents
  <2>1. CASE q = p
    BY <2>1 DEF Go
  <2>2. CASE IsAgent(q)
    BY <1>1, <1>3, <2>2, MachineAssumption DEF Control, Stoppable, OtherAgents, IsManaged
  <2> QED  BY <1>2, <2>1, <2>2
<1> QED
  BY <1>4, <1>6, <1>7, <1>8 DEF Control

(* The one start between its spawn and the file: it files its agent, kills it, or is
   killed itself. *)
LEMMA FileKeeps ==
    ASSUME TypeOK, Control, NEW c \in Commands, StartFile(c) \/ StartKilled(c)
    PROVE  Control'
<1> USE DEF TypeOK, Maybe, Go, local
<1>1. at[c] = "file" /\ ~IsManaged(pidfile) /\ rec[c] \in used /\ rec[c] \in Pids
  BY DEF Control, FileInv, UsedInv, Holding, StartFile, StartKilled
<1>2. \A d \in Commands : at[d] = "file" => d = c
  BY <1>1 DEF Control, FileInv
<1>3. \A p \in Pids : IsAgent(p)' => IsAgent(p)
  BY DEF StartFile, StartKilled, IsAgent, Agents
<1>4. PICK w \in {"settle", "refused"} :
         at' = [at EXCEPT ![c] = w] /\ UNCHANGED <<rec, used>>
  BY DEF StartFile, StartKilled
<1>5. pidfile' \in {pidfile, rec[c]}
  BY DEF StartFile, StartKilled
<1>6. UsedInv'
  BY <1>1, <1>3, <1>4, <1>5 DEF Control, UsedInv, Holding
<1>7. FileInv'
  BY <1>2, <1>4 DEF FileInv
<1>8. GoneInv'
  BY <1>3, <1>4 DEF Control, GoneInv, UsedInv, Holding
<1>9. ASSUME NEW p \in Pids, IsAgent(p)' PROVE pidfile' = p \/ p \in unfiled'
  <2>1. p \in unfiled \/ p = rec[c]
    BY <1>1, <1>2, <1>3, <1>9, MachineAssumption DEF Control, Stoppable, OtherAgents, IsManaged
  <2>2. CASE p = rec[c]
    BY <1>9, <2>2 DEF StartFile, StartKilled, IsAgent, Agents
  <2> QED  BY <2>1, <2>2 DEF StartFile, StartKilled
<1>10. Stoppable'
  BY <1>9 DEF Stoppable, OtherAgents
<1> QED
  BY <1>6, <1>7, <1>8, <1>10 DEF Control

LEMMA ControlStep == TypeOK /\ Control /\ [Next]_vars => Control'
<1> SUFFICES ASSUME TypeOK, Control, [Next]_vars PROVE Control'
  OBVIOUS
<1> USE DEF local, Go
<1>1. CASE UNCHANGED vars
  BY <1>1, AgentsOnly DEF vars, Ebb, IsAgent
<1>2. ASSUME NEW p \in Pids, AgentRecovers(p) \/ AgentClears(p) \/ AgentUp(p) \/ AgentLaunch(p)
                             \/ AgentDown(p) \/ AgentExits(p) \/ AgentDies(p) \/ PidReused(p)
      PROVE Control'
  <2>1. \A q \in Pids : IsAgent(q)' => IsAgent(q)
    BY <1>2 DEF AgentRecovers, AgentClears, AgentUp, AgentLaunch, AgentDown, AgentExits, AgentDies,
                PidReused, Agent, IsAgent, Agents, TypeOK
  <2> QED
    BY <1>2, <2>1, AgentsOnly
    DEF Ebb, AgentRecovers, AgentClears, AgentUp, AgentLaunch, AgentDown, AgentExits, AgentDies,
        PidReused, Still
<1>3. ASSUME NEW c \in Commands, at[c] # "file", NEW w, w # "file", w \notin Holding,
             at' = [at EXCEPT ![c] = w], UNCHANGED <<proc, pidfile, lock, rec, used, unfiled>>
      PROVE Control'
  <2>1. Ebb /\ rec' = [rec EXCEPT ![c] = rec[c]] /\ rec[c] \in Maybe(Pids)
    BY <1>3 DEF Ebb, IsAgent, TypeOK
  <2> QED  BY <1>3, <2>1, MovesOn DEF Holding
<1>4. ASSUME NEW c \in Commands, Asked(c) PROVE Control'
  <2>1. PICK verb \in Does[c] :
           at' = [at EXCEPT ![c] = CASE verb \in {"start", "pull"} -> verb
                                     [] verb \in {"stop", "restart"} -> "stop"
                                     [] verb = "up" -> "connect"
                                     [] verb = "down" -> "downcheck"]
    BY <1>4 DEF Asked
  <2>2. verb \in {"start", "stop", "restart", "up", "down", "pull"}
    BY MachineAssumption
  <2> QED  BY <1>3, <1>4, <2>1, <2>2 DEF Asked, Holding
<1>5. ASSUME NEW c \in Commands, StartLook(c) \/ StartProbe(c) \/ StartOthers(c) \/ StartRuns(c)
      PROVE Control'
  BY <1>3, <1>5 DEF StartLook, StartProbe, StartOthers, StartRuns, Holding
<1>6. ASSUME NEW c \in Commands, StartSpawn(c) PROVE Control'
  <2>1. CASE Managed = None /\ lock' = c
    BY <1>6, <2>1, SpawnKeeps, MachineAssumption DEF StartSpawn, Free
  <2>2. CASE UNCHANGED <<proc, used, rec, lock>>
    BY <1>3, <1>6, <2>2 DEF StartSpawn, Holding
  <2> QED  BY <1>6, <2>1, <2>2 DEF StartSpawn
<1>7. ASSUME NEW c \in Commands, StartFile(c) \/ StartKilled(c) PROVE Control'
  BY <1>7, FileKeeps
<1>8. ASSUME NEW c \in Commands, StartSettle(c) PROVE Control'
  <2>1. rec[c] \in used /\ rec' = [rec EXCEPT ![c] = rec[c]] /\ rec[c] \in Maybe(Pids)
    BY <1>8 DEF StartSettle, Control, UsedInv, Holding, TypeOK
  <2>2. Ebb /\ proc' = proc
    BY <1>8 DEF StartSettle, Ebb, IsAgent
  <2> QED  BY <1>8, <2>1, <2>2, MovesOn DEF StartSettle, Holding, IsAgent
<1>9. ASSUME NEW c \in Commands, StartUnfile(c) PROVE Control'
  <2>1. rec[c] \in used /\ rec' = [rec EXCEPT ![c] = rec[c]] /\ rec[c] \in Maybe(Pids)
    BY <1>9 DEF StartUnfile, Control, UsedInv, Holding, TypeOK
  <2>2. ~IsAgent(rec[c])
    BY <1>9 DEF StartUnfile, Control, GoneInv
  <2>3. Ebb
    BY <1>9, <2>2 DEF StartUnfile, RemovePidfile, Ebb, IsAgent, IsManaged
  <2> QED  BY <1>9, <2>1, <2>3, MovesOn DEF StartUnfile, Holding
<1>10. ASSUME NEW c \in Commands, StopLook(c) PROVE Control'
  <2>1. Managed \in Maybe(Pids) /\ (Managed # None => Managed \in used)
    BY ManagedIs DEF Control, UsedInv, TypeOK, Maybe
  <2>2. Ebb
    BY <1>10 DEF StopLook, Ebb, IsAgent
  <2> QED  BY <1>10, <2>1, <2>2, MovesOn DEF StopLook, Holding
<1>11. ASSUME NEW c \in Commands, at[c] # "file", Finish(c), Ebb PROVE Control'
  <2>1. PICK w \in {"start", "done"} : at' = [at EXCEPT ![c] = w]
    BY <1>11 DEF Finish
  <2> QED  BY <1>11, <2>1, MovesOn DEF Finish, Holding, Maybe
<1>12. ASSUME NEW c \in Commands, StopStale(c) PROVE Control'
  <2>1. Ebb
    BY <1>12, ManagedIs DEF StopStale, Ebb, IsAgent
  <2> QED  BY <1>11, <1>12, <2>1 DEF StopStale
<1>13. ASSUME NEW c \in Commands, StopList(c) \/ StopTerm(c) \/ StopGrace(c) \/ StopWait(c)
       PROVE Control'
  <2>1. at[c] # "file" /\ rec[c] \in used /\ rec' = [rec EXCEPT ![c] = rec[c]] /\ rec[c] \in Pids
    BY <1>13 DEF StopList, StopTerm, StopGrace, StopWait, Control, UsedInv, Holding, TypeOK
  <2>2. Ebb
    BY <1>13, SignalEbbs DEF StopList, StopTerm, StopGrace, StopWait, Ebb, IsAgent
  <2>3. PICK w \in {"term", "grace", "wait", "stopfile", "refused"} :
           at' = [at EXCEPT ![c] = w] /\ (w = "stopfile" => ~IsManaged(rec[c]))
    BY <1>13 DEF StopList, StopTerm, StopGrace, StopWait
  <2>4. w = "stopfile" => proc'[rec[c]] \notin Agents
    BY <2>1, <2>2, <2>3, MachineAssumption DEF IsManaged, IsAgent, Ebb
  <2> QED  BY <2>1, <2>2, <2>3, <2>4, MovesOn DEF Maybe
<1>14. ASSUME NEW c \in Commands, StopFile(c) PROVE Control'
  <2>1. ~IsAgent(rec[c]) /\ rec[c] \in used /\ rec[c] \in Pids
    BY <1>14 DEF StopFile, Control, GoneInv, UsedInv, Holding, TypeOK
  <2>2. Ebb
    BY <1>14, <2>1 DEF StopFile, RemovePidfile, Ebb, IsAgent, IsManaged
  <2>3. CASE killed[c]
    <3>1. rec' = [rec EXCEPT ![c] = rec[c]]
      BY <1>14, <2>3 DEF StopFile, TypeOK
    <3> QED  BY <1>14, <2>1, <2>2, <2>3, <3>1, MovesOn DEF StopFile, Holding, Maybe
  <2>4. CASE ~killed[c]
    BY <1>11, <1>14, <2>2, <2>4 DEF StopFile
  <2> QED  BY <2>3, <2>4
<1>15. ASSUME NEW c \in Commands, StopClear(c) PROVE Control'
  <2>1. Ebb
    BY <1>15 DEF StopClear, Ebb, IsAgent
  <2> QED  BY <1>11, <1>15, <2>1 DEF StopClear
<1>16. ASSUME NEW c \in Commands, Pull(c) \/ Tag(c) \/ Connect(c) \/ UpCheck(c) \/ UpLaunch(c)
                                  \/ UpEnds(c) \/ DownClears(c)
       PROVE Control'
  BY <1>3, <1>16 DEF Pull, Tag, Connect, UpCheck, UpLaunch, UpEnds, DownClears, Holding
<1> QED
  BY <1>1, <1>2, <1>4, <1>5, <1>6, <1>7, <1>8, <1>9, <1>10, <1>12, <1>13, <1>14, <1>15, <1>16
  DEF Next, CommandStep

-----------------------------------------------------------------------------
LEMMA NotedStep == TypeOK /\ NotedInv /\ [Next]_vars => NotedInv'
<1> SUFFICES ASSUME TypeOK, NotedInv, [Next]_vars PROVE NotedInv'
  OBVIOUS
<1>1. CASE UNCHANGED <<its, early>>
  BY <1>1 DEF NotedInv
<1>2. ASSUME NEW c \in Commands, Finish(c) PROVE NotedInv'
  BY <1>2 DEF NotedInv, Finish, TypeOK
<1>3. ASSUME NEW c \in Commands, StopList(c) PROVE NotedInv'
  BY <1>3 DEF StopList, Listed, NotedInv, TypeOK
<1> QED
  BY <1>1, <1>2, <1>3
  DEF Next, CommandStep, vars, local, Asked, StartLook, StartProbe, StartOthers, StartRuns,
      StartSpawn, StartFile, StartKilled, StartSettle, StartUnfile, StopLook, StopStale, StopTerm,
      StopGrace, StopWait, StopFile, StopClear, Pull, Tag, Connect, UpCheck, UpLaunch, UpEnds,
      DownClears, AgentRecovers, AgentClears, AgentUp, AgentLaunch, AgentDown, AgentExits,
      AgentDies, PidReused, Still

LEMMA SpareStep == NotedInv /\ NoStrangerHit /\ SparesLater /\ [Next]_vars
                     => NoStrangerHit' /\ SparesLater'
<1> SUFFICES ASSUME NotedInv, NoStrangerHit, SparesLater, [Next]_vars
             PROVE  NoStrangerHit' /\ SparesLater'
  OBVIOUS
<1> USE DEF NoStrangerHit, SparesLater
<1>1. ASSUME NEW c \in Commands, StopClear(c) PROVE NoStrangerHit' /\ SparesLater'
  BY <1>1 DEF StopClear, RunsToClear, NotedInv
<1>2. ASSUME NEW c \in Commands, StopTerm(c) \/ StopGrace(c) PROVE NoStrangerHit' /\ SparesLater'
  BY <1>2 DEF StopTerm, StopGrace, Signal
<1>3. CASE UNCHANGED <<hit, cleared>>
  BY <1>3
<1> QED
  BY <1>1, <1>2, <1>3
  DEF Next, CommandStep, vars, local, Asked, StartLook, StartProbe, StartOthers, StartRuns,
      StartSpawn, StartFile, StartKilled, StartSettle, StartUnfile, StopLook, StopStale, StopList,
      StopWait, StopFile, Pull, Tag, Connect, UpCheck, UpLaunch, UpEnds, DownClears, AgentRecovers,
      AgentClears, AgentUp, AgentLaunch, AgentDown, AgentExits, AgentDies, PidReused, Still

LEMMA Inductive == IInv /\ [Next]_vars => IInv'
  BY TypeStep, ControlStep, NotedStep, SpareStep DEF IInv, Control

LEMMA Invariance == Spec => []IInv
  BY InitHolds, Inductive, PTL DEF Spec

(* An agent is always named by the pid file, or by a start that is about to file it or
   was killed before it could: none is out of reach of stop for another reason. *)
THEOREM AgentsAreStoppable == Spec => []Stoppable
<1>1. IInv => Stoppable
  BY DEF IInv, Control
<1> QED
  BY <1>1, Invariance, PTL

(* No process but the managed agent is signalled, and no run that was not up when stop
   noted the agent's is removed. *)
THEOREM OthersAreSpared == Spec => []SparesOthers
<1>1. IInv => SparesOthers
  BY DEF IInv, SparesOthers
<1> QED
  BY <1>1, Invariance, PTL

(* Starts in the same moment leave one agent alive, unless one was killed between
   its spawn and its pid file. *)
THEOREM AgentIsOne == Spec => []OneAgent
<1>1. ASSUME IInv, unfiled = {} PROVE \A p, q \in OtherAgents : p = q
  <2> SUFFICES ASSUME NEW p \in OtherAgents, NEW q \in OtherAgents PROVE p = q
    OBVIOUS
  <2> USE <1>1 DEF IInv, Control
  <2>1. ASSUME NEW x \in OtherAgents, pidfile = x PROVE \A c \in Commands : at[c] # "file"
    BY <2>1, MachineAssumption DEF FileInv, IsManaged, OtherAgents
  <2>2. \A c, d \in Commands : at[c] = "file" /\ at[d] = "file" => c = d
    BY DEF FileInv
  <2> QED  BY <2>1, <2>2 DEF Stoppable
<1>2. ASSUME NEW S, \A p, q \in S : p = q PROVE Cardinality(S) <= 1
  <2>1. CASE S = {}
    BY <2>1, FS_EmptySet
  <2>2. CASE S # {}
    <3>1. PICK p : p \in S
      BY <2>2
    <3>2. S = {p}
      BY <1>2, <3>1
    <3>3. Cardinality({p}) = 1
      BY FS_Singleton
    <3>4. Cardinality(S) = 1
      BY <3>2, <3>3, Zenon
    <3> QED  BY <3>4
  <2> QED  BY <2>1, <2>2
<1>3. IInv => OneAgent
  BY <1>1, <1>2 DEF OneAgent
<1> QED
  BY <1>3, Invariance, PTL
=============================================================================
