-------------------------- MODULE HostServiceProofs --------------------------
(***************************************************************************)
(* Proofs about HostService, for any queries, lane sizes and bounds, and for  *)
(* a label of the agent's own or a shared one.                              *)
(***************************************************************************)
EXTENDS HostService, TLAPS, FiniteSetTheorems

-----------------------------------------------------------------------------
(* The inductive strengthening.  A service that has not started its lanes has no
   query, no slot taken and no run. *)
QuietInv ==
    ~Alive => /\ run["svc"] = None
              /\ \A l \in Lanes : queue[l] = <<>> /\ used[l] = 0
              /\ \A q \in Queries : query[q] \notin Steps

(* What waits in a lane is queued, is the lane's and waits there once; a slot is
   taken by each query that waits or is worked on, and, while it serves, by no other. *)
LaneInv ==
    /\ queue \in [Lanes -> Seq(Queries)] /\ used \in [Lanes -> Nat]
    /\ \A l \in Lanes :
         /\ \A i \in 1..Len(queue[l]) : query[queue[l][i]] = "queued" /\ LaneOf(queue[l][i]) = l
         /\ \A i, j \in 1..Len(queue[l]) : queue[l][i] = queue[l][j] => i = j
         /\ IsFiniteSet(Working(l))
         /\ used[l] >= Len(queue[l]) + Cardinality(Working(l))
         /\ svc = "serving" => used[l] = Len(queue[l]) + Cardinality(Working(l))

(* A run has one process that started it, and a container or a place in `held` only
   once it was filed. *)
OwnInv ==
    /\ \A p \in Procs : run[p] # None => owner[run[p]] = p /\ file[run[p]] # "absent"
    /\ \A r \in RunIds : r \in box \cup held => file[r] # "absent" /\ owner[r] \in Procs
    /\ run["cli"] = None <=> cli \in {"idle", "checked"}

(* What recover leaves of the service's earlier runs, and what it drives after. *)
LeftInv ==
    /\ ~shared => held = {}
    /\ (svc = "clear" /\ shared) \/ (svc = "close" /\ ~unlisted) =>
          \A r \in box : owner[r] = "svc" => r \in held
    /\ Alive /\ ~unlisted =>
          \A r \in RunIds : owner[r] = "svc" /\ r # run["svc"] /\ r \notin held =>
              r \notin box /\ file[r] # "open"

(* A container the label shows before `docker run` is one `up` would have found. *)
OneInv ==
    /\ \A r, s \in box : owner[r] = "cli" /\ owner[s] = "cli" => r = s
    /\ cli \in {"checked", "docker"} => \A r \in box : owner[r] # "cli"
    /\ ~unlisted => \A r, s \in box : owner[r] = "svc" /\ owner[s] = "svc" => r = s
    /\ ~unlisted /\ (\E q \in Queries : query[q] \in {"checked", "docker"}) =>
          \A r \in box : owner[r] = "svc" => r = run["svc"]

(* A client's run stays open until its client ends it or recover closes it early. *)
ClientInv ==
    /\ run["cli"] # None => file[run["cli"]] = "open" \/ run["cli"] \in early
    /\ cli = "docker" => run["cli"] \notin held
    /\ svc # "gone" /\ cli = "up" /\ run["cli"] \in held => run["cli"] \in box


-----------------------------------------------------------------------------
(* The lanes. *)

LaneType == /\ query \in [Queries -> {"out", "queued"} \cup Steps \cup {"over"}]
            /\ queue \in [Lanes -> Seq(Queries)] /\ used \in [Lanes -> Nat]

LEMMA LaneOfTyped == \A q \in Queries : LaneOf(q) \in Lanes
  BY DEF LaneOf, Lanes

(* A query that goes from one step to another stays one that is worked on. *)
LEMMA WorkingStays ==
    ASSUME LaneType, NEW q \in Queries, NEW step \in Steps, query[q] \in Steps,
           query' = [query EXCEPT ![q] = step], NEW l \in Lanes
    PROVE  Working(l)' = Working(l)
  BY DEF LaneType, Working

LEMMA WorkingOver ==
    ASSUME LaneType, NEW q \in Queries, query[q] \in Steps,
           query' = [query EXCEPT ![q] = "over"], NEW l \in Lanes
    PROVE  Working(l)' = Working(l) \ {q}
  BY DEF LaneType, Working, Steps

LEMMA WorkingTaken ==
    ASSUME LaneType, NEW q \in Queries, query[q] = "queued",
           query' = [query EXCEPT ![q] = "taken"], NEW l \in Lanes
    PROVE  Working(l)' = IF l = LaneOf(q) THEN Working(l) \cup {q} ELSE Working(l)
  BY DEF LaneType, Working, Steps

(* A query that is not worked on, before or after. *)
LEMMA WorkingOutside ==
    ASSUME LaneType, NEW q \in Queries, NEW step, step \notin Steps, query[q] \notin Steps,
           query' = [query EXCEPT ![q] = step], NEW l \in Lanes
    PROVE  Working(l)' = Working(l)
  BY DEF LaneType, Working

(* One query less leaves one worker less. *)
LEMMA OneLess ==
    ASSUME NEW S, NEW x \in S, IsFiniteSet(S)
    PROVE  /\ IsFiniteSet(S \ {x}) /\ Cardinality(S) \in Nat /\ Cardinality(S) >= 1
           /\ Cardinality(S \ {x}) = Cardinality(S) - 1
<1>1. IsFiniteSet(S \ {x}) /\ Cardinality(S \ {x}) = Cardinality(S) - 1
  BY FS_RemoveElement
<1>2. Cardinality(S) \in Nat /\ Cardinality(S \ {x}) \in Nat
  BY <1>1, FS_CardinalityType
<1> QED
  BY <1>1, <1>2

(* A query is refused, or dropped, before it waits. *)
LEMMA OverLane ==
    ASSUME LaneType, LaneInv, NEW q \in Queries, query[q] = "out",
           query' = [query EXCEPT ![q] = "over"], UNCHANGED <<used, queue, svc>>
    PROVE  LaneInv' /\ LaneType'
<1> USE DEF LaneType
<1>1. \A l \in Lanes : Working(l)' = Working(l)
  BY WorkingOutside DEF Steps
<1>2. ASSUME NEW l \in Lanes, NEW i \in 1..Len(queue[l])
      PROVE query'[queue[l][i]] = query[queue[l][i]]
  BY DEF LaneInv
<1> QED
  BY <1>1, <1>2 DEF LaneInv

LEMMA ArriveLane ==
    ASSUME LaneType, LaneInv, NEW q \in Queries, Arrive(q)
    PROVE  LaneInv' /\ LaneType'
<1> USE DEF LaneType
<1>1. query[q] = "out" /\ svc = "serving" /\ svc' = svc /\ LaneOf(q) \in Lanes
  BY LaneOfTyped DEF Arrive
<1>2. CASE UNCHANGED <<used, queue>> /\ query' = [query EXCEPT ![q] = "over"]
  BY <1>1, <1>2, OverLane
<1>3. CASE /\ used' = [used EXCEPT ![LaneOf(q)] = @ + 1]
           /\ queue' = [queue EXCEPT ![LaneOf(q)] = Append(@, q)]
           /\ query' = [query EXCEPT ![q] = "queued"]
  <2>1. \A l \in Lanes : Working(l)' = Working(l)
    BY <1>1, <1>3, WorkingOutside DEF Steps
  <2>2. LaneType'
    BY <1>1, <1>3
  <2>3. ASSUME NEW l \in Lanes, NEW i \in 1..Len(queue[l]) PROVE queue[l][i] # q
    BY <1>1, <2>3 DEF LaneInv
  <2>4. ASSUME NEW l \in Lanes, l # LaneOf(q) PROVE queue'[l] = queue[l] /\ used'[l] = used[l]
    BY <1>3, <2>4
  <2>5. LET l == LaneOf(q) IN
        /\ Len(queue'[l]) = Len(queue[l]) + 1 /\ used'[l] = used[l] + 1
        /\ queue'[l][Len(queue[l]) + 1] = q
        /\ \A i \in 1..Len(queue[l]) : queue'[l][i] = queue[l][i]
    BY <1>1, <1>3
  <2>6. ASSUME NEW l \in Lanes
        PROVE /\ \A i \in 1..Len(queue'[l]) : query'[queue'[l][i]] = "queued" /\ LaneOf(queue'[l][i]) = l
              /\ \A i, j \in 1..Len(queue'[l]) : queue'[l][i] = queue'[l][j] => i = j
    <3>1. CASE l # LaneOf(q)
      BY <1>3, <2>3, <2>4, <3>1 DEF LaneInv
    <3>2. CASE l = LaneOf(q)
      <4>1. Len(queue[l]) \in Nat
        OBVIOUS
      <4>2. \A i \in 1..Len(queue'[l]) : i \in 1..Len(queue[l]) \/ i = Len(queue[l]) + 1
        BY <2>5, <3>2, <4>1
      <4> QED  BY <1>3, <2>3, <2>5, <3>2, <4>2 DEF LaneInv
    <3> QED  BY <3>1, <3>2
  <2>7. ASSUME NEW l \in Lanes
        PROVE used'[l] = Len(queue'[l]) + Cardinality(Working(l)) /\ IsFiniteSet(Working(l))
    <3>1. Cardinality(Working(l)) \in Nat /\ used[l] = Len(queue[l]) + Cardinality(Working(l))
      BY <1>1, FS_CardinalityType DEF LaneInv
    <3>2. used'[l] \in Nat /\ used[l] \in Nat /\ Len(queue'[l]) \in Nat /\ Len(queue[l]) \in Nat
      BY <2>2
    <3>3. \/ used'[l] = used[l] /\ Len(queue'[l]) = Len(queue[l])
          \/ used'[l] = used[l] + 1 /\ Len(queue'[l]) = Len(queue[l]) + 1
      BY <2>4, <2>5
    <3>4. IsFiniteSet(Working(l))
      BY DEF LaneInv
    <3> HIDE DEF LaneType
    <3> QED  BY <3>1, <3>2, <3>3, <3>4
  <2>8. ASSUME NEW l \in Lanes
        PROVE used'[l] = Len(queue'[l]) + Cardinality(Working(l)') /\ IsFiniteSet(Working(l)')
    BY <2>1, <2>7, Zenon
  <2>9. ASSUME NEW l \in Lanes PROVE used'[l] >= Len(queue'[l]) + Cardinality(Working(l)')
    <3>1. used'[l] \in Nat
      BY <2>2
    <3> QED  BY <2>8, <3>1
  <2> QED  BY <2>2, <2>6, <2>8, <2>9 DEF LaneInv
<1> QED
  BY <1>2, <1>3 DEF Arrive

LEMMA TakeLane ==
    ASSUME LaneType, LaneInv, NEW m \in Lanes, Take(m)
    PROVE  LaneInv' /\ LaneType'
<1> DEFINE q == Head(queue[m])
<1> USE DEF LaneType
<1>1. /\ queue[m] \in Seq(Queries) /\ queue[m] # <<>> /\ svc' = svc /\ used' = used
      /\ query' = [query EXCEPT ![q] = "taken"] /\ queue' = [queue EXCEPT ![m] = Tail(@)]
      /\ svc = "serving"
  BY DEF Take
<1>2. q = queue[m][1] /\ q \in Queries /\ 1 \in 1..Len(queue[m]) /\ Len(queue[m]) \in Nat
  BY <1>1
<1>3. query[q] = "queued" /\ LaneOf(q) = m
  BY <1>2 DEF LaneInv
<1> HIDE DEF q
<1>4. LaneType'
  BY <1>1, <1>2 DEF Steps
<1>5. \A l \in Lanes : Working(l)' = IF l = m THEN Working(l) \cup {q} ELSE Working(l)
  BY <1>1, <1>2, <1>3, WorkingTaken
<1>6. Len(queue'[m]) = Len(queue[m]) - 1 /\ \A i \in 1..Len(queue'[m]) : queue'[m][i] = queue[m][i + 1]
  BY <1>1
<1>7. ASSUME NEW l \in Lanes
      PROVE /\ \A i \in 1..Len(queue'[l]) : query'[queue'[l][i]] = "queued" /\ LaneOf(queue'[l][i]) = l
            /\ \A i, j \in 1..Len(queue'[l]) : queue'[l][i] = queue'[l][j] => i = j
  <2>1. CASE l # m
    <3>1. \A i \in 1..Len(queue[l]) : queue[l][i] # q
      BY <1>3, <2>1 DEF LaneInv
    <3> QED  BY <1>1, <2>1, <3>1 DEF LaneInv
  <2>2. CASE l = m
    <3>1. ASSUME NEW i \in 1..Len(queue'[m])
          PROVE i + 1 \in 1..Len(queue[m]) /\ i + 1 # 1 /\ queue'[m][i] = queue[m][i + 1]
      BY <1>2, <1>6
    <3>2. ASSUME NEW i \in 1..Len(queue'[m]) PROVE queue'[m][i] # q
      BY <1>2, <3>1 DEF LaneInv
    <3>3. ASSUME NEW i \in 1..Len(queue'[m])
          PROVE query'[queue'[m][i]] = "queued" /\ LaneOf(queue'[m][i]) = m
      <4>1. query[queue[m][i + 1]] = "queued" /\ LaneOf(queue[m][i + 1]) = m
        BY <3>1 DEF LaneInv
      <4>2. queue[m][i + 1] \in Queries
        BY <3>1
      <4> QED  BY <1>1, <3>1, <3>2, <4>1, <4>2
    <3>4. ASSUME NEW i \in 1..Len(queue'[m]), NEW j \in 1..Len(queue'[m]), queue'[m][i] = queue'[m][j]
          PROVE i = j
      <4>1. queue[m][i + 1] = queue[m][j + 1] /\ i + 1 \in 1..Len(queue[m]) /\ j + 1 \in 1..Len(queue[m])
        BY <3>1, <3>4
      <4>2. \A a, b \in 1..Len(queue[m]) : queue[m][a] = queue[m][b] => a = b
        BY DEF LaneInv
      <4>3. i + 1 = j + 1
        BY <4>1, <4>2
      <4>4. i \in Nat /\ j \in Nat
        BY <1>1
      <4> QED  BY <4>3, <4>4
    <3> QED  BY <2>2, <3>3, <3>4
  <2> QED  BY <2>1, <2>2
<1>8. ASSUME NEW l \in Lanes
      PROVE used'[l] = Len(queue'[l]) + Cardinality(Working(l)') /\ IsFiniteSet(Working(l)')
  <2>1. IsFiniteSet(Working(l)) /\ Cardinality(Working(l)) \in Nat
        /\ used[l] = Len(queue[l]) + Cardinality(Working(l)) /\ Len(queue[l]) \in Nat
    BY <1>1, FS_CardinalityType DEF LaneInv
  <2>2. CASE l # m
    BY <1>1, <1>5, <2>1, <2>2
  <2>3. CASE l = m
    <3>1. q \notin Working(l)
      BY <1>3 DEF Working, Steps
    <3>2. IsFiniteSet(Working(l) \cup {q}) /\ Cardinality(Working(l) \cup {q}) = Cardinality(Working(l)) + 1
      BY <2>1, <3>1, FS_AddElement
    <3>3. Working(l)' = Working(l) \cup {q}
      BY <1>5, <2>3
    <3>4. IsFiniteSet(Working(l)') /\ Cardinality(Working(l)') = Cardinality(Working(l)) + 1
      BY <3>2, <3>3, Zenon
    <3>5. Len(queue'[l]) = Len(queue[l]) - 1
      BY <1>6, <2>3
    <3>6. used'[l] = used[l]
      BY <1>1
    <3> HIDE DEF LaneType
    <3> QED  BY <2>1, <3>4, <3>5, <3>6
  <2> QED  BY <2>2, <2>3
<1>9. ASSUME NEW l \in Lanes PROVE used'[l] >= Len(queue'[l]) + Cardinality(Working(l)')
  BY <1>4, <1>8
<1> QED
  BY <1>1, <1>4, <1>7, <1>8, <1>9 DEF LaneInv

(* A worker's query is in no queue, so the queues do not hear of its steps. *)
LEMMA QueuesKept ==
    ASSUME LaneType, LaneInv, NEW q \in Queries, query[q] # "queued", NEW step,
           query' = [query EXCEPT ![q] = step], queue' = queue, NEW l \in Lanes
    PROVE  /\ \A i \in 1..Len(queue'[l]) : query'[queue'[l][i]] = "queued" /\ LaneOf(queue'[l][i]) = l
           /\ \A i, j \in 1..Len(queue'[l]) : queue'[l][i] = queue'[l][j] => i = j
  BY DEF LaneType, LaneInv

LEMMA DoneLane ==
    ASSUME LaneType, LaneInv, NEW q \in Queries, query[q] \in Steps, Done(q), svc' = svc
    PROVE  LaneInv' /\ LaneType'
<1> USE DEF LaneType
<1>1. query[q] # "queued" /\ LaneOf(q) \in Lanes /\ q \in Working(LaneOf(q))
  BY LaneOfTyped DEF Steps, Working
<1>2. \A l \in Lanes : Working(l)' = Working(l) \ {q}
  BY WorkingOver DEF Done
<1>3. ASSUME NEW l \in Lanes
      PROVE /\ IsFiniteSet(Working(l)') /\ used'[l] \in Nat
            /\ used'[l] >= Len(queue[l]) + Cardinality(Working(l)')
            /\ svc = "serving" => used'[l] = Len(queue[l]) + Cardinality(Working(l)')
  <2>1. /\ IsFiniteSet(Working(l)) /\ Cardinality(Working(l)) \in Nat /\ used[l] \in Nat
        /\ Len(queue[l]) \in Nat /\ used[l] >= Len(queue[l]) + Cardinality(Working(l))
        /\ svc = "serving" => used[l] = Len(queue[l]) + Cardinality(Working(l))
    BY FS_CardinalityType DEF LaneInv
  <2>2. CASE l = LaneOf(q)
    <3>1. /\ IsFiniteSet(Working(l) \ {q}) /\ Cardinality(Working(l)) >= 1
          /\ Cardinality(Working(l) \ {q}) = Cardinality(Working(l)) - 1
      BY <1>1, <2>1, <2>2, OneLess
    <3>2. used'[l] = used[l] - 1
      BY <2>2 DEF Done
    <3>3. IsFiniteSet(Working(l)') /\ Cardinality(Working(l)') = Cardinality(Working(l)) - 1
      BY <1>2, <3>1, Zenon
    <3> QED  BY <2>1, <3>1, <3>2, <3>3
  <2>3. CASE l # LaneOf(q)
    <3>1. Working(l) \ {q} = Working(l)
      BY <2>3 DEF Working
    <3> QED  BY <1>2, <2>1, <2>3, <3>1 DEF Done
  <2> QED  BY <2>2, <2>3
<1>4. LaneType'
  BY <1>3 DEF Done, Steps
<1>5. ASSUME NEW l \in Lanes
      PROVE /\ \A i \in 1..Len(queue'[l]) : query'[queue'[l][i]] = "queued" /\ LaneOf(queue'[l][i]) = l
            /\ \A i, j \in 1..Len(queue'[l]) : queue'[l][i] = queue'[l][j] => i = j
  BY <1>1, QueuesKept DEF Done
<1> QED
  BY <1>3, <1>4, <1>5 DEF LaneInv, Done

LEMMA ToLane ==
    ASSUME LaneType, LaneInv, NEW q \in Queries, query[q] \in Steps, NEW step \in Steps,
           To(q, step), svc' = svc
    PROVE  LaneInv' /\ LaneType'
<1> USE DEF LaneType
<1>1. query[q] # "queued"
  BY DEF Steps
<1>2. \A l \in Lanes : Working(l)' = Working(l)
  BY WorkingStays DEF To
<1>3. LaneType'
  BY DEF To
<1>4. ASSUME NEW l \in Lanes
      PROVE /\ \A i \in 1..Len(queue'[l]) : query'[queue'[l][i]] = "queued" /\ LaneOf(queue'[l][i]) = l
            /\ \A i, j \in 1..Len(queue'[l]) : queue'[l][i] = queue'[l][j] => i = j
  BY <1>1, QueuesKept DEF To
<1> QED
  BY <1>2, <1>3, <1>4 DEF LaneInv, To

LEMMA SameLane ==
    ASSUME LaneType, LaneInv, UNCHANGED laneVars, svc' = svc \/ svc' # "serving"
    PROVE  LaneInv' /\ LaneType'
<1>1. \A l \in Lanes : Working(l)' = Working(l)
  BY DEF laneVars, Working
<1> QED
  BY <1>1 DEF LaneType, LaneInv, laneVars

(* A service starts to serve with empty lanes. *)
LEMMA ServingLane ==
    ASSUME LaneType, LaneInv, QuietInv, ~Alive, UNCHANGED laneVars
    PROVE  LaneInv' /\ LaneType'
<1>1. ASSUME NEW l \in Lanes
      PROVE queue[l] = <<>> /\ used[l] = 0 /\ Working(l)' = {} /\ Len(queue[l]) = 0
  BY DEF QuietInv, Working, laneVars
<1>2. IsFiniteSet({}) /\ Cardinality({}) = 0
  BY FS_EmptySet
<1>3. ASSUME NEW l \in Lanes PROVE IsFiniteSet(Working(l)') /\ Cardinality(Working(l)') = 0
  BY <1>1, <1>2, Zenon
<1> QED
  BY <1>1, <1>3 DEF LaneType, LaneInv, laneVars

(* The lanes are emptied: by the signal, of what waits ... *)
LEMMA SignalLane ==
    ASSUME LaneType, LaneInv, Signal
    PROVE  LaneInv' /\ LaneType'
<1> USE DEF LaneType
<1>1. /\ svc' = "closing" /\ used' = used /\ queue' = [l \in Lanes |-> <<>>]
      /\ query' = [q \in Queries |-> IF query[q] = "queued" THEN "over" ELSE query[q]]
  BY DEF Signal
<1>2. \A l \in Lanes : Working(l)' = Working(l)
  BY <1>1 DEF Working, Steps
<1>3. ASSUME NEW l \in Lanes
      PROVE queue'[l] = <<>> /\ Len(queue'[l]) = 0 /\ used[l] >= Cardinality(Working(l))
            /\ IsFiniteSet(Working(l))
  <2>1. Cardinality(Working(l)) \in Nat /\ Len(queue[l]) \in Nat /\ IsFiniteSet(Working(l))
    BY FS_CardinalityType DEF LaneInv
  <2> QED  BY <1>1, <2>1 DEF LaneInv
<1>4. ASSUME NEW l \in Lanes
      PROVE used'[l] >= Len(queue'[l]) + Cardinality(Working(l)') /\ IsFiniteSet(Working(l)')
  <2>1. Cardinality(Working(l)') = Cardinality(Working(l)) /\ IsFiniteSet(Working(l)')
    BY <1>2, <1>3, Zenon
  <2>2. Cardinality(Working(l)) \in Nat
    BY <1>3, FS_CardinalityType
  <2> QED  BY <1>1, <1>3, <2>1, <2>2
<1>5. LaneType'
  BY <1>1 DEF Steps
<1> QED
  BY <1>1, <1>3, <1>4, <1>5 DEF LaneInv

(* ... and with the process, altogether. *)
LEMMA GoneLane ==
    ASSUME LaneType, Gone
    PROVE  LaneInv' /\ LaneType'
<1> USE DEF LaneType
<1>1. /\ svc' = "gone" /\ used' = [l \in Lanes |-> 0] /\ queue' = [l \in Lanes |-> <<>>]
      /\ query' = [q \in Queries |-> IF query[q] \in Steps \cup {"queued"} THEN "over" ELSE query[q]]
  BY DEF Gone
<1>2. ASSUME NEW l \in Lanes PROVE queue'[l] = <<>> /\ used'[l] = 0 /\ Working(l)' = {}
  BY <1>1 DEF Working, Steps
<1>3. IsFiniteSet({}) /\ Cardinality({}) = 0
  BY FS_EmptySet
<1>4. ASSUME NEW l \in Lanes PROVE IsFiniteSet(Working(l)') /\ Cardinality(Working(l)') = 0
  BY <1>2, <1>3, Zenon
<1>5. LaneType'
  BY <1>1 DEF Steps
<1> QED
  BY <1>1, <1>2, <1>4, <1>5 DEF LaneInv

(* Every worker's step begins with a query that a worker has, and ends with its slot
   given back or with the query still a worker's. *)
LEMMA WorkerStep ==
    ASSUME NEW q \in Queries,
           AnyWork(q) \/ UpCheck(q) \/ UpClaim(q) \/ UpDocker(q) \/ DownClaim(q) \/ DownFinish(q)
    PROVE  /\ query[q] \in Steps /\ Alive /\ UNCHANGED <<shared, svc, held, cli, starts, stopped, early>>
           /\ Done(q) \/ \E step \in Steps : To(q, step)
  BY DEF AnyWork, UpCheck, UpClaim, UpDocker, DownClaim, DownFinish, Steps, Same

CliStep == CliCheck \/ CliClaim \/ CliDocker \/ CliEnds \/ CliKilled \/ CliDownOther

LEMMA CliLanes == ASSUME CliStep PROVE UNCHANGED <<shared, svc, held, laneVars, starts, stopped, early>>
  BY DEF CliStep, CliCheck, CliClaim, CliDocker, CliEnds, CliKilled, CliDownOther, Cli

LEMMA LaneStep ==
    ASSUME LaneType, LaneInv, QuietInv, [Next]_vars
    PROVE  LaneInv' /\ LaneType'
<1>1. CASE UNCHANGED vars
  BY <1>1, SameLane DEF vars, laneVars
<1>2. ASSUME NEW q \in Queries, Arrive(q) PROVE LaneInv' /\ LaneType'
  BY <1>2, ArriveLane
<1>3. ASSUME NEW q \in Queries, ArriveLate(q) PROVE LaneInv' /\ LaneType'
  BY <1>3, OverLane DEF ArriveLate
<1>4. ASSUME NEW q \in Queries, AnyWork(q) \/ UpCheck(q) \/ UpClaim(q) \/ UpDocker(q)
                                \/ DownClaim(q) \/ DownFinish(q)
      PROVE LaneInv' /\ LaneType'
  BY <1>4, WorkerStep, DoneLane, ToLane
<1>5. ASSUME NEW l \in Lanes, Take(l) PROVE LaneInv' /\ LaneType'
  BY <1>5, TakeLane
<1>6. CASE RunEnds \/ FinalDown \/ FinalFinish \/ RecoverClear
  <2>1. UNCHANGED laneVars /\ (svc' = svc \/ svc' # "serving")
    BY <1>6 DEF RunEnds, FinalDown, FinalFinish, RecoverClear, Same, laneVars
  <2> QED  BY <2>1, SameLane
<1>7. CASE Start \/ RecoverClose
  BY <1>7, ServingLane DEF Start, RecoverClose, Alive
<1>8. CASE Signal
  BY <1>8, SignalLane
<1>9. CASE Exit \/ Crash
  BY <1>9, GoneLane DEF Exit, Crash
<1>10. CASE CliStep
  BY <1>10, CliLanes, SameLane
<1> QED
  BY <1>1, <1>2, <1>3, <1>4, <1>5, <1>6, <1>7, <1>8, <1>9, <1>10 DEF Next, StopLane, CliStep, Lanes, Queries

-----------------------------------------------------------------------------
LEMMA QuietStep ==
    ASSUME LaneType, TypeOK, QuietInv, [Next]_vars
    PROVE  QuietInv'
<1> USE DEF QuietInv, Alive
<1>1. CASE UNCHANGED vars
  BY <1>1 DEF vars
<1>2. ASSUME NEW q \in Queries, Arrive(q) \/ ArriveLate(q) PROVE QuietInv'
  BY <1>2 DEF Arrive, ArriveLate
<1>3. ASSUME NEW q \in Queries, AnyWork(q) \/ UpCheck(q) \/ UpClaim(q) \/ UpDocker(q)
                                \/ DownClaim(q) \/ DownFinish(q)
      PROVE QuietInv'
  BY <1>3, WorkerStep
<1>4. ASSUME NEW l \in Lanes, Take(l) PROVE QuietInv'
  BY <1>4 DEF Take
<1>5. CASE RunEnds \/ FinalDown \/ FinalFinish \/ Signal
  <2>1. Alive'
    BY <1>5 DEF RunEnds, FinalDown, FinalFinish, Signal, Same
  <2> QED  BY <2>1
<1>6. CASE Start \/ RecoverClear \/ RecoverClose
  BY <1>6 DEF Start, RecoverClear, RecoverClose, laneVars, runVars
<1>7. CASE Exit \/ Crash
  BY <1>7 DEF Exit, Crash, Gone, LaneType, TypeOK, Steps, Procs
<1>8. CASE CliStep
  <2>1. run'["svc"] = run["svc"]
    BY <1>8 DEF CliStep, CliCheck, CliClaim, CliDocker, CliEnds, CliKilled, CliDownOther, runVars,
                Claim, Docker, Finalise, TypeOK, Procs
  <2> QED  BY <1>8, <2>1, CliLanes DEF laneVars
<1> QED
  BY <1>1, <1>2, <1>3, <1>4, <1>5, <1>6, <1>7, <1>8 DEF Next, StopLane, CliStep, Lanes, Queries

-----------------------------------------------------------------------------
(* The runs. *)

RunType ==
    /\ shared \in BOOLEAN /\ svc \in {"gone", "clear", "close", "serving", "closing", "final", "joining"}
    /\ held \subseteq RunIds /\ run \in [Procs -> RunIds \cup {None}]
    /\ state \in [Procs -> {"idle", "starting", "running", "stopping"}]
    /\ \A p \in Procs : run[p] = None <=> state[p] = "idle"
    /\ cli \in {"idle", "checked", "docker", "up"}
    /\ box \subseteq RunIds /\ file \in [RunIds -> {"absent", "open", "closed"}]
    /\ owner \in [RunIds -> Procs \cup {None}] /\ starts \in 0..MaxStarts
    /\ unlisted \in BOOLEAN /\ stopped \in BOOLEAN /\ early \subseteq RunIds

RunInv == RunType /\ OwnInv /\ LeftInv /\ OneInv /\ ClientInv

LEMMA NoneIsNoRun == None \notin RunIds
  BY ServiceAssumption DEF RunIds

(* What only recover, a stop, a crash or the client changes. *)
Others == UNCHANGED <<shared, held, cli, starts, stopped, early>>

(* A step of the lanes alone; no `up` gets past its check by it. *)
LEMMA LanesOnly ==
    ASSUME RunInv, Others, UNCHANGED <<runVars, unlisted>>,
           svc' = svc \/ (Alive /\ svc' \in {"closing", "final", "joining"}),
           \A q \in Queries : query'[q] \in {"checked", "docker"} => query[q] \in {"checked", "docker"}
    PROVE  RunInv'
<1> USE DEF Others, runVars, RunInv, Alive
<1>1. RunType'
  BY DEF RunType
<1>2. OwnInv'
  BY DEF OwnInv
<1>3. LeftInv'
  BY DEF LeftInv
<1>4. OneInv'
  BY DEF OneInv
<1>5. ClientInv'
  BY DEF ClientInv
<1> QED
  BY <1>1, <1>2, <1>3, <1>4, <1>5

(* `up` has asked Docker: of no other run, or in vain. *)
LEMMA CheckKeeps ==
    ASSUME RunInv, NEW q \in Queries, To(q, "checked"), UNCHANGED runVars, UNCHANGED svc, Others,
           \/ Foreign("svc") = {} /\ UNCHANGED unlisted
           \/ unlisted' = TRUE
    PROVE  RunInv'
<1> USE DEF Others, runVars, RunInv, Alive
<1>1. RunType'
  BY DEF RunType
<1>2. OwnInv'
  BY DEF OwnInv
<1>3. LeftInv'
  BY DEF LeftInv, RunType
<1>4. OneInv'
  BY DEF OneInv, Foreign
<1>5. ClientInv'
  BY DEF ClientInv
<1> QED
  BY <1>1, <1>2, <1>3, <1>4, <1>5

LEMMA ClaimKeeps ==
    ASSUME RunInv, Claim("svc"), Alive, Others, UNCHANGED <<svc, unlisted>>,
           \E q \in Queries : query[q] = "checked"
    PROVE  RunInv'
<1> USE NoneIsNoRun DEF Others, RunInv, Alive, Procs
<1>1. PICK r \in RunIds :
         /\ file[r] = "absent" /\ run' = [run EXCEPT !["svc"] = r]
         /\ state' = [state EXCEPT !["svc"] = "starting"]
         /\ file' = [file EXCEPT ![r] = "open"] /\ owner' = [owner EXCEPT ![r] = "svc"]
  BY DEF Claim
<1>2. box' = box /\ run["svc"] = None
  BY DEF Claim
<1>3. r \notin box /\ r \notin held /\ r # run["cli"]
  BY <1>1 DEF OwnInv
<1>4. RunType'
  BY <1>1, <1>2 DEF RunType
<1>5. OwnInv'
  BY <1>1, <1>2, <1>3 DEF OwnInv, RunType
<1>6. LeftInv'
  BY <1>1, <1>2, <1>3 DEF LeftInv, RunType
<1>7. OneInv'
  BY <1>1, <1>2, <1>3 DEF OneInv, RunType
<1>8. ClientInv'
  BY <1>1, <1>2, <1>3 DEF ClientInv, RunType
<1> QED
  BY <1>4, <1>5, <1>6, <1>7, <1>8

LEMMA DockerKeeps ==
    ASSUME RunInv, NEW q \in Queries, query[q] = "docker", Done(q), Alive, Others,
           UNCHANGED <<svc, unlisted>>, NEW r \in RunIds, Docker("svc", r),
           query \in [Queries -> {"out", "queued"} \cup Steps \cup {"over"}]
    PROVE  RunInv'
<1>1. UNCHANGED <<run, file, owner>>
  BY DEF Docker
<1>2. CASE UNCHANGED <<box, state>>
  <2>1. \A p \in Queries : query'[p] \in {"checked", "docker"} => query[p] \in {"checked", "docker"}
    BY DEF Done
  <2>2. UNCHANGED <<runVars, unlisted>>
    BY <1>1, <1>2 DEF runVars
  <2> QED  BY <2>1, <2>2, LanesOnly
<1>3. CASE run["svc"] = r /\ box' = box \cup {r} /\ state' = [state EXCEPT !["svc"] = "running"]
  <2> USE NoneIsNoRun DEF Others, RunInv, Alive, Procs
  <2>1. RunType'
    BY <1>1, <1>3 DEF RunType
  <2>2. OwnInv'
    BY <1>1, <1>3 DEF OwnInv, RunType
  <2>3. LeftInv'
    BY <1>1, <1>3 DEF LeftInv, RunType
  <2>4. owner[r] = "svc"
    BY <1>3 DEF OwnInv
  <2>5. OneInv'
    BY <1>1, <1>3, <2>4 DEF OneInv, RunType
  <2>6. ClientInv'
    BY <1>1, <1>3 DEF ClientInv, RunType
  <2> QED  BY <2>1, <2>2, <2>3, <2>5, <2>6
<1> QED
  BY <1>2, <1>3 DEF Docker

(* The service brings its run down. *)
LEMMA FinaliseKeeps ==
    ASSUME RunInv, Finalise("svc"), Alive, Others, UNCHANGED unlisted, svc' = svc \/ svc' = "joining",
           \A q \in Queries : query'[q] \in {"checked", "docker"} => query[q] \in {"checked", "docker"}
    PROVE  RunInv'
<1> USE NoneIsNoRun DEF Others, RunInv, Alive, Procs
<1>1. /\ box' = box \ {run["svc"]} /\ file' = [file EXCEPT ![run["svc"]] = "closed"]
      /\ run' = [run EXCEPT !["svc"] = None] /\ state' = [state EXCEPT !["svc"] = "idle"]
      /\ owner' = owner
  BY DEF Finalise
<1>2. run["cli"] # None => run["cli"] # run["svc"]
  BY DEF OwnInv
<1>3. RunType'
  BY <1>1 DEF RunType
<1>4. OwnInv'
  BY <1>1, <1>2 DEF OwnInv, RunType
<1>5. LeftInv'
  BY <1>1 DEF LeftInv, RunType
<1>6. OneInv'
  BY <1>1 DEF OneInv, RunType
<1>7. ClientInv'
  BY <1>1, <1>2 DEF ClientInv, RunType, OwnInv
<1> QED
  BY <1>3, <1>4, <1>5, <1>6, <1>7

LEMMA StoppingKeeps ==
    ASSUME RunInv, Stopping("svc"), Alive, Others, UNCHANGED unlisted, svc' = svc \/ svc' = "final",
           \A q \in Queries : query'[q] \in {"checked", "docker"} => query[q] \in {"checked", "docker"}
    PROVE  RunInv'
<1> USE DEF Others, RunInv, Alive, Procs, Stopping
<1>1. RunType'
  BY DEF RunType
<1>2. OwnInv'
  BY DEF OwnInv
<1>3. LeftInv'
  BY DEF LeftInv
<1>4. OneInv'
  BY DEF OneInv
<1>5. ClientInv'
  BY DEF ClientInv
<1> QED
  BY <1>1, <1>2, <1>3, <1>4, <1>5

-----------------------------------------------------------------------------
(* Start, recover and the end of the service. *)

LEMMA StartKeeps ==
    ASSUME RunInv, QuietInv, Start
    PROVE  RunInv'
<1> USE DEF RunInv, Alive, Start, runVars, laneVars, Procs
<1>1. RunType'
  <2>1. starts \in 0..MaxStarts /\ starts < MaxStarts /\ MaxStarts \in Nat
    BY ServiceAssumption DEF RunType
  <2>2. starts' \in 0..MaxStarts
    BY <2>1
  <2>3. svc' \in {"clear", "serving"} /\ held' \subseteq RunIds /\ unlisted' \in BOOLEAN
    BY DEF RunType
  <2> QED  BY <2>2, <2>3 DEF RunType
<1>2. OwnInv'
  BY DEF OwnInv, RunType
<1>3. LeftInv'
  BY DEF LeftInv, RunType
<1>4. OneInv'
  BY DEF OneInv
<1>5. ClientInv'
  BY DEF ClientInv, OneInv, OwnInv, RunType
<1> QED
  BY <1>1, <1>2, <1>3, <1>4, <1>5

LEMMA ClearKeeps ==
    ASSUME RunInv, QuietInv, RecoverClear
    PROVE  RunInv'
<1> USE DEF RunInv, Alive, RecoverClear, laneVars, Procs
<1>1. RunType'
  BY DEF RunType
<1>2. OwnInv'
  BY DEF OwnInv
<1>3. LeftInv'
  BY DEF LeftInv, RunType
<1>4. OneInv'
  BY DEF OneInv
<1>5. ClientInv'
  BY DEF ClientInv
<1> QED
  BY <1>1, <1>2, <1>3, <1>4, <1>5

LEMMA CloseKeeps ==
    ASSUME RunInv, QuietInv, RecoverClose
    PROVE  RunInv'
<1> USE NoneIsNoRun DEF RunInv, Alive, RecoverClose, laneVars, Procs, ToClose
<1>1. RunType'
  BY DEF RunType
<1>2. OwnInv'
  BY DEF OwnInv, RunType
<1>3. LeftInv'
  BY DEF LeftInv, RunType
<1>4. OneInv'
  BY DEF OneInv, QuietInv, Steps
<1>5. ClientInv'
  BY DEF ClientInv, RunType
<1> QED
  BY <1>1, <1>2, <1>3, <1>4, <1>5

(* A process that is killed leaves a container for its run at the most. *)
LEMMA GoneKeeps ==
    ASSUME RunInv, LaneType, Gone, UNCHANGED box, stopped' \in BOOLEAN
    PROVE  RunInv'
<1> USE NoneIsNoRun DEF RunInv, Alive, Gone, Procs
<1>1. RunType'
  BY DEF RunType
<1>2. OwnInv'
  BY DEF OwnInv, RunType
<1>3. LeftInv'
  BY DEF LeftInv
<1>4. \A q \in Queries : query'[q] \notin {"checked", "docker"}
  BY DEF LaneType, Steps
<1>5. OneInv'
  BY <1>4 DEF OneInv
<1>6. ClientInv'
  BY DEF ClientInv, RunType
<1> QED
  BY <1>1, <1>2, <1>3, <1>5, <1>6

LEMMA CrashKeeps ==
    ASSUME RunInv, LaneType, Crash
    PROVE  RunInv'
<1>1. CASE UNCHANGED box
  BY <1>1, GoneKeeps DEF Crash
<1>2. CASE /\ \E q \in Ups : query[q] = "docker" /\ state["svc"] = "starting"
           /\ box' = box \cup {run["svc"]} /\ svc # "gone"
  <2> USE NoneIsNoRun DEF RunInv, Alive, Crash, Gone, Procs
  <2>1. run["svc"] \in RunIds
    BY <1>2 DEF RunType
  <2>2. RunType'
    BY <1>2, <2>1 DEF RunType
  <2>3. owner[run["svc"]] = "svc" /\ file[run["svc"]] # "absent" /\ run["svc"] # run["cli"]
    BY <2>1 DEF OwnInv
  <2>4. OwnInv'
    BY <1>2, <2>1, <2>3 DEF OwnInv, RunType
  <2>5. LeftInv'
    BY DEF LeftInv
  <2>6. \A q \in Queries : query'[q] \notin {"checked", "docker"}
    BY DEF LaneType, Steps
  <2>7. ~unlisted => \A r \in box : owner[r] = "svc" => r = run["svc"]
    BY <1>2 DEF OneInv, Queries
  <2>8. OneInv'
    BY <1>2, <2>3, <2>6, <2>7 DEF OneInv
  <2>9. ClientInv'
    BY <1>2, <2>3 DEF ClientInv, RunType
  <2> QED  BY <2>2, <2>4, <2>5, <2>8, <2>9
<1> QED
  BY <1>1, <1>2 DEF Crash

-----------------------------------------------------------------------------
(* The client beside the service. *)

LEMMA ClientKeeps ==
    ASSUME RunInv, QuietInv, CliStep
    PROVE  RunInv'
<1> USE NoneIsNoRun DEF RunInv, Alive, Procs, Cli, laneVars, runVars
<1>1. CASE CliCheck
  BY <1>1 DEF CliCheck, RunType, OwnInv, LeftInv, OneInv, ClientInv
<1>2. CASE CliClaim
  <2>1. PICK r \in RunIds :
           /\ file[r] = "absent" /\ run' = [run EXCEPT !["cli"] = r]
           /\ state' = [state EXCEPT !["cli"] = "starting"]
           /\ file' = [file EXCEPT ![r] = "open"] /\ owner' = [owner EXCEPT ![r] = "cli"]
    BY <1>2 DEF CliClaim, Claim
  <2>2. box' = box /\ run["cli"] = None /\ cli = "checked" /\ cli' = "docker"
        /\ UNCHANGED <<shared, svc, held, laneVars, starts, stopped, early, unlisted>>
    BY <1>2 DEF CliClaim, Claim
  <2>3. r \notin box /\ r \notin held /\ r # run["svc"]
    BY <2>1 DEF OwnInv
  <2>4. RunType'
    BY <2>1, <2>2 DEF RunType
  <2>5. OwnInv'
    BY <2>1, <2>2, <2>3 DEF OwnInv, RunType
  <2>6. LeftInv'
    BY <2>1, <2>2, <2>3 DEF LeftInv, RunType
  <2>7. OneInv'
    BY <2>1, <2>2, <2>3 DEF OneInv, RunType
  <2>8. ClientInv'
    BY <2>1, <2>2, <2>3 DEF ClientInv, RunType
  <2> QED  BY <2>4, <2>5, <2>6, <2>7, <2>8
<1>3. CASE CliDocker
  <2>1. /\ cli = "docker" /\ cli' = "up" /\ UNCHANGED <<run, file, owner>>
        /\ UNCHANGED <<shared, svc, held, laneVars, starts, stopped, early, unlisted>>
        /\ \/ UNCHANGED <<box, state>>
           \/ box' = box \cup {run["cli"]} /\ state' = [state EXCEPT !["cli"] = "running"]
    BY <1>3 DEF CliDocker, Docker
  <2>2. run["cli"] \in RunIds /\ owner[run["cli"]] = "cli" /\ run["cli"] # run["svc"]
    BY <2>1 DEF OwnInv, RunType
  <2>3. RunType'
    BY <2>1, <2>2 DEF RunType
  <2>4. OwnInv'
    BY <2>1, <2>2 DEF OwnInv, RunType
  <2>5. LeftInv'
    BY <2>1, <2>2 DEF LeftInv, RunType
  <2>6. OneInv'
    BY <2>1, <2>2 DEF OneInv, RunType
  <2>7. ClientInv'
    BY <2>1, <2>2 DEF ClientInv, RunType
  <2> QED  BY <2>3, <2>4, <2>5, <2>6, <2>7
<1>4. CASE CliEnds
  <2>1. /\ cli = "up" /\ cli' = "idle" /\ box' = box \ {run["cli"]}
        /\ file' = [file EXCEPT ![run["cli"]] = "closed"]
        /\ run' = [run EXCEPT !["cli"] = None] /\ state' = [state EXCEPT !["cli"] = "idle"]
        /\ owner' = owner /\ UNCHANGED <<shared, svc, held, laneVars, starts, stopped, early, unlisted>>
    BY <1>4 DEF CliEnds, Finalise
  <2>2. run["cli"] \in RunIds /\ owner[run["cli"]] = "cli" /\ run["cli"] # run["svc"]
    BY <2>1 DEF OwnInv, RunType
  <2>3. RunType'
    BY <2>1 DEF RunType
  <2>4. OwnInv'
    BY <2>1, <2>2 DEF OwnInv, RunType
  <2>5. LeftInv'
    BY <2>1, <2>2 DEF LeftInv, RunType
  <2>6. OneInv'
    BY <2>1, <2>2 DEF OneInv, RunType
  <2>7. ClientInv'
    BY <2>1 DEF ClientInv, RunType
  <2> QED  BY <2>3, <2>4, <2>5, <2>6, <2>7
<1>5. CASE CliKilled
  <2> USE <1>5 DEF CliKilled
  <2>1. RunType'
    BY DEF RunType
  <2>2. OwnInv'
    BY DEF OwnInv, RunType
  <2>3. LeftInv' /\ OneInv'
    BY DEF LeftInv, OneInv, RunType
  <2>4. ClientInv'
    BY DEF ClientInv, RunType
  <2> QED  BY <2>1, <2>2, <2>3, <2>4
<1>6. CASE CliDownOther
  <2> USE <1>6 DEF CliDownOther
  <2>1. RunType'
    BY DEF RunType
  <2>2. OwnInv'
    BY DEF OwnInv, RunType
  <2>3. LeftInv'
    BY DEF LeftInv
  <2>4. OneInv'
    BY DEF OneInv
  <2>5. ClientInv'
    BY DEF ClientInv, OwnInv
  <2> QED  BY <2>1, <2>2, <2>3, <2>4, <2>5
<1> QED
  BY <1>1, <1>2, <1>3, <1>4, <1>5, <1>6 DEF CliStep

-----------------------------------------------------------------------------
LEMMA RunStep ==
    ASSUME RunInv, QuietInv, LaneType, [Next]_vars
    PROVE  RunInv'
<1> DEFINE Past == \A p \in Queries : query'[p] \in {"checked", "docker"} => query[p] \in {"checked", "docker"}
<1>1. CASE UNCHANGED vars
  BY <1>1, LanesOnly DEF vars, Others, runVars
<1>2. ASSUME NEW q \in Queries PROVE Done(q) => Past
  BY DEF Done, LaneType
<1>3. ASSUME NEW q \in Queries, Arrive(q) \/ ArriveLate(q) \/ AnyWork(q) PROVE RunInv'
  <2>1. Past
    BY <1>2, <1>3 DEF Arrive, ArriveLate, AnyWork, LaneType
  <2>2. Others /\ UNCHANGED <<runVars, unlisted>> /\ UNCHANGED svc
    BY <1>3 DEF Arrive, ArriveLate, AnyWork, Same, Others
  <2> QED  BY <2>1, <2>2, LanesOnly
<1>4. ASSUME NEW l \in Lanes, Take(l) PROVE RunInv'
  <2>1. Past
    BY <1>4 DEF Take, LaneType
  <2>2. Others /\ UNCHANGED <<runVars, unlisted>> /\ UNCHANGED svc
    BY <1>4 DEF Take, Others
  <2> QED  BY <2>1, <2>2, LanesOnly
<1>5. ASSUME NEW q \in Queries, UpCheck(q) PROVE RunInv'
  <2>1. Others /\ UNCHANGED runVars /\ UNCHANGED svc
    BY <1>5 DEF UpCheck, Same, Others
  <2> QED  BY <1>2, <1>5, <2>1, LanesOnly, CheckKeeps DEF UpCheck
<1>6. ASSUME NEW q \in Queries, UpClaim(q) PROVE RunInv'
  <2>1. Others /\ UNCHANGED unlisted /\ UNCHANGED svc /\ Alive /\ query[q] = "checked"
    BY <1>6 DEF UpClaim, Same, Others
  <2> QED  BY <1>2, <1>6, <2>1, LanesOnly, ClaimKeeps DEF UpClaim
<1>7. ASSUME NEW q \in Queries, UpDocker(q) PROVE RunInv'
  <2>1. Others /\ UNCHANGED unlisted /\ UNCHANGED svc /\ Alive /\ query[q] = "docker" /\ Done(q)
    BY <1>7 DEF UpDocker, Same, Others
  <2>2. CASE Finalise("svc")
    BY <1>2, <2>1, <2>2, FinaliseKeeps
  <2>3. ASSUME NEW r \in RunIds, Docker("svc", r) PROVE RunInv'
    BY <2>1, <2>3, DockerKeeps DEF LaneType
  <2> QED  BY <1>7, <2>2, <2>3 DEF UpDocker
<1>8. ASSUME NEW q \in Queries, DownClaim(q) PROVE RunInv'
  <2>1. Others /\ UNCHANGED unlisted /\ UNCHANGED svc /\ Alive
    BY <1>8 DEF DownClaim, Same, Others
  <2>2. CASE Stopping("svc") /\ To(q, "finish")
    <3>1. Past
      BY <2>2 DEF To, LaneType
    <3> QED  BY <2>1, <2>2, <3>1, StoppingKeeps
  <2> QED  BY <1>2, <1>8, <2>1, <2>2, LanesOnly DEF DownClaim
<1>9. ASSUME NEW q \in Queries, DownFinish(q) PROVE RunInv'
  BY <1>2, <1>9, FinaliseKeeps DEF DownFinish, Same, Others
<1>10. CASE RunEnds
  BY <1>10, FinaliseKeeps DEF RunEnds, Same, Others, laneVars
<1>11. CASE Start
  BY <1>11, StartKeeps
<1>12. CASE RecoverClear
  BY <1>12, ClearKeeps
<1>13. CASE RecoverClose
  BY <1>13, CloseKeeps
<1>14. CASE Signal
  <2>1. Past
    BY <1>14 DEF Signal, LaneType
  <2>2. Others /\ UNCHANGED <<runVars, unlisted>> /\ Alive /\ svc' = "closing"
    BY <1>14 DEF Signal, Others, Alive
  <2> QED  BY <2>1, <2>2, LanesOnly
<1>15. CASE FinalDown
  <2>1. Others /\ UNCHANGED unlisted /\ Past /\ Alive
    BY <1>15 DEF FinalDown, Others, laneVars, Alive
  <2>2. CASE Stopping("svc") /\ svc' = "final"
    BY <2>1, <2>2, StoppingKeeps
  <2>3. CASE svc' = "joining" /\ UNCHANGED runVars
    <3>1. UNCHANGED <<runVars, unlisted>>
      BY <2>1, <2>3
    <3> QED  BY <2>1, <2>3, <3>1, LanesOnly
  <2> QED  BY <1>15, <2>2, <2>3 DEF FinalDown
<1>16. CASE FinalFinish
  <2>1. Others /\ UNCHANGED unlisted /\ Past /\ Alive
    BY <1>16 DEF FinalFinish, Others, laneVars, Alive
  <2> QED  BY <1>16, <2>1, FinaliseKeeps DEF FinalFinish
<1>17. CASE Exit
  BY <1>17, GoneKeeps DEF Exit
<1>18. CASE Crash
  BY <1>18, CrashKeeps
<1>19. CASE CliStep
  BY <1>19, ClientKeeps
<1> QED
  BY <1>1, <1>3, <1>4, <1>5, <1>6, <1>7, <1>8, <1>9, <1>10, <1>11, <1>12, <1>13, <1>14, <1>15, <1>16,
     <1>17, <1>18, <1>19 DEF Next, StopLane, CliStep, Lanes, Queries

-----------------------------------------------------------------------------
(* Together. *)

Capped == \A l \in Lanes : used[l] <= Ceiling[l]
IInv   == LaneType /\ LaneInv /\ QuietInv /\ Capped /\ RunInv

LEMMA CappedStep ==
    ASSUME LaneType, LaneInv, Capped, [Next]_vars
    PROVE  Capped'
<1> USE ServiceAssumption DEF LaneType, Capped
<1>1. CASE UNCHANGED used
  BY <1>1
<1>2. ASSUME NEW q \in Queries, Arrive(q) PROVE Capped'
  <2>1. CASE used[LaneOf(q)] < Ceiling[LaneOf(q)] /\ used' = [used EXCEPT ![LaneOf(q)] = @ + 1]
    <3> SUFFICES ASSUME NEW l \in Lanes PROVE used'[l] <= Ceiling[l]
      OBVIOUS
    <3>1. used[l] \in Nat /\ Ceiling[l] \in Nat /\ used[l] <= Ceiling[l]
      OBVIOUS
    <3>2. used'[l] = IF l = LaneOf(q) THEN used[l] + 1 ELSE used[l]
      BY <2>1
    <3> QED  BY <2>1, <3>1, <3>2
  <2> QED  BY <1>1, <1>2, <2>1 DEF Arrive
<1>3. ASSUME NEW q \in Queries, Done(q) PROVE Capped'
  BY <1>3, LaneOfTyped DEF Done
<1>4. ASSUME NEW q \in Queries, AnyWork(q) \/ UpCheck(q) \/ UpClaim(q) \/ UpDocker(q)
                                \/ DownClaim(q) \/ DownFinish(q)
      PROVE Capped'
  BY <1>1, <1>3, <1>4, WorkerStep DEF To
<1>5. CASE Exit \/ Crash
  BY <1>5 DEF Exit, Crash, Gone
<1>6. ASSUME NEW q \in Queries, ArriveLate(q) PROVE Capped'
  BY <1>1, <1>6 DEF ArriveLate
<1>7. ASSUME NEW l \in Lanes, Take(l) PROVE Capped'
  BY <1>1, <1>7 DEF Take
<1>8. CASE RunEnds \/ Start \/ RecoverClear \/ RecoverClose \/ Signal \/ FinalDown \/ FinalFinish
  BY <1>1, <1>8 DEF RunEnds, Start, RecoverClear, RecoverClose, Signal, FinalDown, FinalFinish, laneVars
<1>9. CASE CliStep
  BY <1>1, <1>9, CliLanes DEF laneVars
<1>10. CASE UNCHANGED vars
  BY <1>1, <1>10 DEF vars
<1> QED
  BY <1>2, <1>4, <1>5, <1>6, <1>7, <1>8, <1>9, <1>10 DEF Next, StopLane, CliStep, Lanes, Queries

LEMMA TypeIs ==
    ASSUME LaneType, Capped, RunType
    PROVE  TypeOK
<1>1. ASSUME NEW l \in Lanes PROVE ToSet(queue[l]) \subseteq Queries /\ used[l] \in 0..Ceiling[l]
  <2>1. queue[l] \in Seq(Queries) /\ used[l] \in Nat /\ Ceiling[l] \in Nat /\ used[l] <= Ceiling[l]
    BY ServiceAssumption DEF LaneType, Capped
  <2> QED  BY <2>1 DEF ToSet
<1> QED
  BY <1>1 DEF LaneType, RunType, TypeOK

LEMMA InitHolds == Init => IInv
<1> SUFFICES ASSUME Init PROVE IInv
  OBVIOUS
<1> USE DEF Init
<1>1. LaneType
  BY DEF LaneType
<1>2. ASSUME NEW l \in Lanes
      PROVE queue[l] = <<>> /\ used[l] = 0 /\ Working(l) = {} /\ Len(queue[l]) = 0
  BY DEF Working, Steps
<1>3. ASSUME NEW l \in Lanes PROVE IsFiniteSet(Working(l)) /\ Cardinality(Working(l)) = 0
  BY <1>2, FS_EmptySet, Zenon
<1>4. ASSUME NEW l \in Lanes
      PROVE  /\ 1..Len(queue[l]) = {}
             /\ used[l] = Len(queue[l]) + Cardinality(Working(l))
             /\ used[l] >= Len(queue[l]) + Cardinality(Working(l))
  BY <1>2, <1>3
<1>5. LaneInv
  BY <1>1, <1>3, <1>4 DEF LaneInv, LaneType
<1>6. QuietInv /\ Capped
  BY ServiceAssumption DEF QuietInv, Capped, Steps, Procs
<1>7. RunType
  <2>1. starts \in 0..MaxStarts
    BY ServiceAssumption
  <2>2. run \in [Procs -> RunIds \cup {None}] /\ \A p \in Procs : run[p] = None /\ state[p] = "idle"
    OBVIOUS
  <2>3. file \in [RunIds -> {"absent", "open", "closed"}] /\ owner \in [RunIds -> Procs \cup {None}]
    OBVIOUS
  <2> QED  BY <2>1, <2>2, <2>3 DEF RunType
<1>8. OwnInv /\ LeftInv /\ OneInv /\ ClientInv
  BY DEF OwnInv, LeftInv, OneInv, ClientInv, Alive, Procs
<1> QED
  BY <1>1, <1>5, <1>6, <1>7, <1>8 DEF IInv, RunInv

LEMMA Inductive == IInv /\ [Next]_vars => IInv'
<1> SUFFICES ASSUME IInv, [Next]_vars PROVE IInv'
  OBVIOUS
<1> USE DEF IInv
<1>1. TypeOK
  BY TypeIs DEF RunInv
<1> QED
  BY <1>1, LaneStep, QuietStep, CappedStep, RunStep

LEMMA Invariance == Spec => []IInv
  BY InitHolds, Inductive, PTL DEF Spec

(* While the service serves, the slots of a lane are those of the queries that wait
   in it or are worked on: none is lost to a query that was refused, failed or
   dropped, so no lane fills up for good. *)
THEOREM SlotsAreHeld == Spec => []SlotsHeld
<1>1. IInv => SlotsHeld
  BY DEF IInv, LaneInv, SlotsHeld
<1> QED
  BY <1>1, Invariance, PTL

(* A client's run that recover found up keeps its container, and its summary stays
   open unless an earlier recover closed it, whatever the service does. *)
THEOREM HeldRunsAreKept == Spec => []HeldKept
<1>1. IInv => HeldKept
  BY NoneIsNoRun DEF IInv, RunInv, RunType, ClientInv, OwnInv, HeldKept
<1> QED
  BY <1>1, Invariance, PTL

(* The service drives every run of its own that looks up or open, but for those it
   left; and no process has two containers under the label while Docker answers. *)
THEOREM RunsAreAccounted == Spec => []RunsAccounted
<1>1. IInv => TypeOK
  BY TypeIs DEF IInv, RunInv
<1>2. IInv => NoneForgotten
  BY DEF IInv, RunInv, LeftInv, NoneForgotten, Alive
<1>3. IInv => OnePerProcess
  BY DEF IInv, RunInv, RunType, OneInv, OwnInv, OnePerProcess, Procs
<1> QED
  BY <1>1, <1>2, <1>3, Invariance, PTL DEF RunsAccounted
=============================================================================
