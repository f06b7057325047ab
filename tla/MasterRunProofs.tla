---------------------------- MODULE MasterRunProofs ----------------------------
(***************************************************************************)
(* Safety of the master for any number of runs, sectors, jobs, lanes,      *)
(* retries and faults.                                                     *)
(***************************************************************************)
EXTENDS MasterRun, TLAPS, FiniteSetTheorems, WellFoundedInduction

(* The one run that owns the lock is the one that executes. *)
Active == {"locked", "tier0", "draining", "tier1", "judge", "fresh", "sealing", "emptied"}
OwnerInv == \A r \in Runs : pc[r] \in Active <=> owner = r

(* A lane that works does so for the owner, in a phase that lets it, on a  *)
(* unit without a result; without an owner only orphans are left.          *)
Busy(g) == lane[g].st \in {"queued", "running", "ok", "failed"}
LaneInv ==
    \A g \in Lanes : Busy(g) =>
        IF owner = 0 THEN lane[g].st = "running"
        ELSE LaneOn(owner, g) /\ lane[g].unit \in Todo(owner, g)

(* Network slots are free or held by a running attempt. *)
Holders == {g \in Lanes : lane[g].st = "running" /\ lane[g].unit \in Network}
SlotInv ==
    /\ sem \in Nat
    /\ owner = 0 => sem = NetLanes
    /\ owner # 0 => sem + Cardinality(Holders) = NetLanes

(* Each version of the scripts is the work of a fault. *)
CodeInv == code <= faults + 1

-----------------------------------------------------------------------------
(* The next unit of a lane is one of those left: ranks are well-founded. *)
LEMMA FirstIn ==
  ASSUME NEW S \in SUBSET Units, S # {}
  PROVE  First(S) \in S
<1> DEFINE T == {Rank[u] : u \in S}
           R == OpToRel(<, Nat)
<1>1. T \subseteq Nat /\ T # {}
  BY RunAssumption
<1>2. IsWellFoundedOn(R, Nat)
  BY NatLessThanWellFounded
<1>3. R = {pair \in Nat \X Nat : pair[1] < pair[2]}
  BY Zenon DEF R, OpToRel
<1>4. \A x, y \in Nat : x < y => <<x, y>> \in R
  BY <1>3
<1> HIDE DEF R
<1>5. PICK n \in T : \A k \in T : ~(<<k, n>> \in R)
  BY <1>1, <1>2, WFMin
<1> HIDE DEF T
<1>6. ASSUME NEW k \in T PROVE n <= k
  <2> SUFFICES ASSUME k < n PROVE FALSE
    BY <1>1
  <2>1. <<k, n>> \in R
    BY <1>1, <1>4
  <2> QED
    BY <2>1, <1>5
<1> USE DEF T
<1>7. \E u \in S : \A v \in S : Rank[u] <= Rank[v]
  BY <1>5, <1>6
<1> QED
  BY <1>7 DEF First

(* Only finitely many lanes hold slots. *)
LEMMA HoldersFinite == IsFiniteSet(Holders) /\ Cardinality(Holders) \in Nat
<1>1. IsFiniteSet(Lanes)
  BY RunAssumption, FS_AddElement DEF Lanes
<1>2. Holders \in SUBSET Lanes
  BY DEF Holders
<1>3. IsFiniteSet(Holders)
  BY <1>1, <1>2, FS_Subset
<1> QED
  BY <1>3, FS_CardinalityType

(* A checkpoint adds the row of one unit. *)
LEMMA CheckpointType ==
  ASSUME TypeOK, NEW r \in Runs, NEW u \in Units, NEW row \in Row, Checkpoint(r, u, row)
  PROVE  /\ results' = [q \in Runs |-> results'[q]]
         /\ \A q \in Runs : IsRows(results'[q])
         /\ manifest' = [q \in Runs |-> manifest'[q]]
         /\ \A q \in Runs : IsRows(manifest'[q].rows)
                              /\ manifest'[q] \in Manifest(manifest'[q].rows)
<1> DEFINE f == WithRow(r, u, row)
<1>1. IsRows(f)
  BY DEF TypeOK, WithRow, IsRows
<1>2. results' = [results EXCEPT ![r] = f]
      /\ manifest' = [manifest EXCEPT ![r] = [acc |-> "RUNNING",
              gate |-> IF u \in Jobs THEN GateValue(r) ELSE "RUNNING", rows |-> f]]
  BY DEF Checkpoint
<1> HIDE DEF f
<1>3. results' = [q \in Runs |-> results'[q]] /\ \A q \in Runs : IsRows(results'[q])
  BY <1>1, <1>2 DEF TypeOK
<1>4. manifest'[r].rows = f /\ manifest'[r] \in Manifest(f)
  BY <1>2 DEF Manifest, GateValue, TypeOK
<1>5. manifest' = [q \in Runs |-> manifest'[q]]
      /\ \A q \in Runs \ {r} : manifest'[q] = manifest[q]
  BY <1>2 DEF TypeOK
<1> QED
  BY <1>1, <1>3, <1>4, <1>5 DEF TypeOK

(* The sweep closes one manifest and keeps its rows; opening touches one.  *)
LEMMA ReconcileWrites ==
  TypeOK => \A r, q \in Runs : Reconcile(r, q) =>
    /\ manifest[q].acc = "RUNNING" /\ pc[q] = "dead"
    /\ manifest'[q].acc = "ABORTED" /\ manifest'[q].rows = manifest[q].rows
    /\ manifest'[q] \in Manifest(manifest[q].rows)
    /\ \A p \in Runs \ {q} : manifest'[p] = manifest[p]
    /\ manifest' = [p \in Runs |-> manifest'[p]]
<1> SUFFICES ASSUME TypeOK, NEW r \in Runs, NEW q \in Runs, Reconcile(r, q)
             PROVE  /\ manifest[q].acc = "RUNNING" /\ pc[q] = "dead"
                    /\ manifest'[q].acc = "ABORTED" /\ manifest'[q].rows = manifest[q].rows
                    /\ manifest'[q] \in Manifest(manifest[q].rows)
                    /\ \A p \in Runs \ {q} : manifest'[p] = manifest[p]
                    /\ manifest' = [p \in Runs |-> manifest'[p]]
  OBVIOUS
<1>1. manifest' = [manifest EXCEPT ![q].acc = "ABORTED", ![q].gate = "FAIL"]
  BY DEF Reconcile
<1>2. manifest = [p \in Runs |-> manifest[p]] /\ manifest[q] \in Manifest(manifest[q].rows)
  BY DEF TypeOK
<1>3. /\ manifest'[q].acc = "ABORTED" /\ manifest'[q].rows = manifest[q].rows
      /\ manifest'[q] \in Manifest(manifest[q].rows)
  BY <1>1, <1>2 DEF Manifest
<1> QED
  BY <1>1, <1>2, <1>3 DEF Reconcile, Abandoned

LEMMA OpenWrites ==
  ASSUME TypeOK, NEW r \in Runs, OpenManifest(r)
  PROVE  /\ manifest'[r] = [acc |-> "RUNNING", gate |-> "RUNNING", rows |-> NoRows]
         /\ \A p \in Runs \ {r} : manifest'[p] = manifest[p]
         /\ manifest' = [p \in Runs |-> manifest'[p]]
<1>1. manifest' = [manifest EXCEPT ![r] = [Absent EXCEPT !.acc = "RUNNING"]]
  BY DEF OpenManifest
<1>2. manifest = [p \in Runs |-> manifest[p]]
  BY DEF TypeOK
<1>3. [Absent EXCEPT !.acc = "RUNNING"] = [acc |-> "RUNNING", gate |-> "RUNNING", rows |-> NoRows]
  BY DEF Absent
<1> HIDE DEF Absent
<1> QED
  BY <1>1, <1>2, <1>3

(* What a lane step writes is in range. *)
Stages == {"pick", "queued", "running", "ok", "failed", "raised", "over"}
LEMMA IdleType == Idle \in LaneStates /\ \A st \in Stages : [Idle EXCEPT !.st = st] \in LaneStates
BY RunAssumption DEF Idle, LaneStates, Codes, Stages

LEMMA WorkType ==
  TypeOK => \A g \in Lanes, st \in Stages, cmd \in 0 .. 2, try \in 0 .. MaxAttempts :
              Work(g, st, cmd, try) \in LaneStates
<1> SUFFICES ASSUME TypeOK, NEW g \in Lanes, NEW st \in Stages, NEW cmd \in 0 .. 2,
                    NEW try \in 0 .. MaxAttempts
             PROVE  Work(g, st, cmd, try) \in LaneStates
  OBVIOUS
<1>1. lane[g] \in LaneStates
  BY DEF TypeOK
<1> QED
  BY <1>1 DEF Work, LaneStates, Stages

(* However an attempt ends, its lane keeps the unit. *)
LEMMA AttemptWork ==
  ASSUME TypeOK, NEW r \in Runs, NEW g \in Lanes, NEW rc \in {"ok", "error", "stop"},
         AttemptEnds(r, g, rc)
  PROVE  \E st \in Stages, cmd \in 0 .. 2, try \in 0 .. MaxAttempts :
            SetLane(g, Work(g, st, cmd, try))
<1> DEFINE v == lane[g]
<1>0. v.cmd \in 0 .. 2 /\ v.try \in 0 .. MaxAttempts /\ Commands(v.unit) \in 1 .. 2
  BY DEF TypeOK, LaneStates, Commands
<1>1. CASE rc = "ok" /\ v.cmd < Commands(v.unit)
  <2>1. v.cmd + 1 \in 0 .. 2 /\ 1 \in 0 .. MaxAttempts
    BY <1>0, <1>1, RunAssumption
  <2>2. SetLane(g, Work(g, "queued", v.cmd + 1, 1))
    BY <1>0, <1>1 DEF AttemptEnds
  <2> QED
    BY <2>1, <2>2 DEF Stages
<1>2. CASE rc = "error" /\ v.try < MaxAttempts
  <2>1. v.try + 1 \in 0 .. MaxAttempts
    BY <1>0, <1>2, RunAssumption
  <2>2. SetLane(g, Work(g, "queued", v.cmd, v.try + 1))
    BY <1>2 DEF AttemptEnds
  <2> QED
    BY <1>0, <2>1, <2>2 DEF Stages
<1>3. CASE ~(rc = "ok" /\ v.cmd < Commands(v.unit)) /\ ~(rc = "error" /\ v.try < MaxAttempts)
  <2>1. SetLane(g, Work(g, "ok", v.cmd, v.try)) \/ SetLane(g, Work(g, "failed", v.cmd, v.try))
    BY <1>3 DEF AttemptEnds
  <2> QED
    BY <1>0, <2>1 DEF Stages
<1> QED
  BY <1>1, <1>2, <1>3

(* A lane that is not through has a next unit. *)
LEMMA NextTodo ==
  ASSUME TypeOK, NEW r \in Runs, NEW g
  PROVE  /\ Todo(r, g) \subseteq Units
         /\ Todo(r, g) # {} => First(Todo(r, g)) \in Todo(r, g)
<1>1. Todo(r, g) \in SUBSET Units
  BY DEF TypeOK, Todo, Selected
<1> QED
  BY <1>1, FirstIn

LEMMA BusyUnit ==
  ASSUME TypeOK, LaneInv, NEW r \in Runs, NEW g \in Lanes, LaneOn(r, g), Busy(g)
  PROVE  lane[g].unit \in Todo(r, g) /\ lane[g].unit \in Units
<1>1. owner = r /\ owner # 0
  BY RunAssumption DEF LaneOn, Runs
<1> QED
  BY <1>1, NextTodo DEF LaneInv

LEMMA OutcomeType == TypeOK => \A g \in Lanes : lane[g].unit \in Units => Outcome(g) \in Row
BY DEF TypeOK, Outcome, Failure, Row, Statuses, Healthy, LaneStates

(* What the start of a --resume run loads are records. *)
LEMMA PassRowsType == TypeOK => PassRows \subseteq PassRecord
BY DEF TypeOK, PassRows, PassRowsOf, IsRows, Row, PassRecord

(* What a lane may publish is a content. *)
LEMMA PublishesType ==
  ASSUME TypeOK, NEW g \in Lanes, Publishes(g)
  PROVE  artifact' \in [Units -> Contents]
<1>1. PICK c \in (IF lane[g].cmd = 1 THEN Published ELSE {}) \cup {artifact[lane[g].unit]} :
            artifact' = [artifact EXCEPT ![lane[g].unit] = c]
  BY DEF Publishes
<1>2. CASE lane[g].unit \in Units
  BY <1>1, <1>2, RunAssumption DEF TypeOK, Contents, Valid
<1>3. CASE lane[g].unit \notin Units
  BY <1>1, <1>3 DEF TypeOK
<1> QED
  BY <1>2, <1>3

(* Every step keeps each variable in its range. *)
LEMMA TypeStep == TypeOK /\ LaneInv /\ CodeInv /\ SlotInv' /\ [Next]_vars => TypeOK' /\ CodeInv'
<1> SUFFICES ASSUME TypeOK, LaneInv, CodeInv, SlotInv', [Next]_vars
             PROVE  TypeOK' /\ CodeInv'
  OBVIOUS
<1>sem. sem' \in 0 .. NetLanes
  <2>1. (Cardinality(Holders) \in Nat)'
    BY HoldersFinite, PTL
  <2> QED
    BY <2>1, RunAssumption DEF SlotInv
<1>idle. Idle \in LaneStates /\ \A st \in Stages : [Idle EXCEPT !.st = st] \in LaneStates
  BY IdleType
<1>work. \A g \in Lanes, st \in Stages, cmd \in 0 .. 2, try \in 0 .. MaxAttempts :
           Work(g, st, cmd, try) \in LaneStates
  BY WorkType
<1>todo. \A r \in Runs, g \in Lanes : Todo(r, g) # {} => First(Todo(r, g)) \in Units
  BY NextTodo
<1>busy. \A r \in Runs, g \in Lanes : LaneOn(r, g) /\ Busy(g) => lane[g].unit \in Units
  BY BusyUnit
<1>outcome. \A g \in Lanes : lane[g].unit \in Units => Outcome(g) \in Row
  BY OutcomeType
<1>attempt. \A r \in Runs, g \in Lanes, rc \in {"ok", "error", "stop"} : AttemptEnds(r, g, rc) =>
               \E st \in Stages, cmd \in 0 .. 2, try \in 0 .. MaxAttempts :
                 SetLane(g, Work(g, st, cmd, try))
  BY AttemptWork
<1>zero. 0 \in 0 .. MaxRuns
  BY RunAssumption
<1>fault. Fault /\ code' = code => faults' \in 0 .. MaxFaults /\ code' \in Codes \ {0} /\ CodeInv'
  BY RunAssumption DEF TypeOK, Fault, CodeInv, Codes
<1>same. faults' = faults /\ code' = code => faults' \in 0 .. MaxFaults /\ code' \in Codes \ {0} /\ CodeInv'
  BY DEF TypeOK, CodeInv
<1>runs. \A r \in Runs : r \in 0 .. MaxRuns
  BY RunAssumption DEF Runs
<1> USE DEF TypeOK, lockVars, verdictVars, laneVars, Move
<1>1. ASSUME NEW r \in Runs, Start(r) PROVE TypeOK' /\ CodeInv'
  BY <1>same, <1>1, PassRowsType, RunAssumption DEF Start
<1>2. ASSUME NEW r \in Runs, Acquire(r) PROVE TypeOK' /\ CodeInv'
  <2>1. owner' \in 0 .. MaxRuns
    BY <1>2, <1>runs DEF Acquire
  <2>2. pc' = [pc EXCEPT ![r] = "locked"] \/ pc' = [pc EXCEPT ![r] = "refused"]
    BY <1>2 DEF Acquire
  <2>3. records' \in [Runs -> SUBSET PassRecord]
    BY <1>2 DEF Acquire
  <2> QED
    BY <1>same, <1>2, <2>1, <2>2, <2>3 DEF Acquire
<1>3. ASSUME NEW r \in Runs, NEW q \in Runs, Reconcile(r, q) PROVE TypeOK' /\ CodeInv'
  <2>1. /\ manifest'[q].rows = manifest[q].rows /\ manifest'[q] \in Manifest(manifest[q].rows)
        /\ \A p \in Runs \ {q} : manifest'[p] = manifest[p]
        /\ manifest' = [p \in Runs |-> manifest'[p]]
    BY <1>3, ReconcileWrites
  <2>2. manifest' = [p \in Runs |-> manifest'[p]]
        /\ \A p \in Runs : IsRows(manifest'[p].rows) /\ manifest'[p] \in Manifest(manifest'[p].rows)
    BY <2>1
  <2> QED
    BY <1>same, <1>3, <2>2 DEF Reconcile
<1>3a. ASSUME NEW r \in Runs, OpenManifest(r) PROVE TypeOK' /\ CodeInv'
  <2>1. lane' \in [Lanes -> LaneStates]
    BY <1>3a, <1>idle DEF OpenManifest
  <2>2. IsRows(NoRows)
    BY DEF IsRows, NoRows
  <2>3. manifest' = [p \in Runs |-> manifest'[p]]
        /\ \A p \in Runs : IsRows(manifest'[p].rows) /\ manifest'[p] \in Manifest(manifest'[p].rows)
    BY <1>3a, <2>2, OpenWrites DEF Manifest
  <2> QED
    BY <1>same, <1>3a, <2>1, <2>3 DEF OpenManifest
<1>4. ASSUME NEW r \in Runs, NEW g \in Lanes, NextUnit(r, g) PROVE TypeOK' /\ CodeInv'
  <2>1. First(Todo(r, g)) \in Units
    BY <1>4, <1>todo DEF NextUnit
  <2>2. [st |-> "queued", unit |-> First(Todo(r, g)), cmd |-> 1, try |-> 1, code |-> code]
            \in LaneStates
    BY <2>1, RunAssumption DEF LaneStates
  <2> QED
    BY <1>same, <1>4, <2>2 DEF NextUnit, SetLane
<1>5. ASSUME NEW r \in Runs, NEW g \in Lanes, SkipResumed(r, g) PROVE TypeOK' /\ CodeInv'
  <2> DEFINE u == First(Todo(r, g))
             row == [status |-> "SKIPPED_RESUME", sha |-> artifact[u], code |-> code]
  <2>1. u \in Units
    BY <1>5, <1>todo DEF SkipResumed
  <2>2. row \in Row
    BY <2>1 DEF Row, Statuses, Healthy
  <2>3. Checkpoint(r, u, row)
    BY <1>5 DEF SkipResumed
  <2> QED
    BY <1>same, <1>5, <2>1, <2>2, <2>3, CheckpointType DEF SkipResumed
<1>6. ASSUME NEW r \in Runs, NEW g \in Lanes, LaneOver(r, g) PROVE TypeOK' /\ CodeInv'
  BY <1>same, <1>6, <1>idle DEF LaneOver, SetLane, Stages
<1>7. ASSUME NEW r \in Runs, NEW g \in Lanes, Launch(r, g) PROVE TypeOK' /\ CodeInv'
  <2>1. Work(g, "running", lane[g].cmd, lane[g].try) \in LaneStates
    BY <1>work DEF LaneStates, Stages
  <2> QED
    BY <1>same, <1>7, <1>sem, <2>1 DEF Launch, SetLane
<1>8. ASSUME NEW r \in Runs, NEW g \in Lanes, NEW rc \in {"ok", "error", "stop"},
             AttemptEnds(r, g, rc)
      PROVE TypeOK' /\ CodeInv'
  <2>1. PICK w \in LaneStates : SetLane(g, w)
    BY <1>8, <1>work, <1>attempt
  <2> QED
    BY <1>same, <1>8, <1>sem, <2>1, PublishesType DEF AttemptEnds, SetLane
<1>9. ASSUME NEW r \in Runs, NEW g \in Lanes, Finish(r, g) PROVE TypeOK' /\ CodeInv'
  <2>1. lane[g].unit \in Units
    BY <1>9, <1>busy DEF Finish, Busy
  <2>2. Outcome(g) \in Row
    BY <2>1, <1>outcome
  <2> QED
    BY <1>same, <1>9, <1>idle, <2>1, <2>2, CheckpointType DEF Finish, SetLane
<1>10. ASSUME NEW r \in Runs, NEW g \in Groups, LaneRaises(r, g) PROVE TypeOK' /\ CodeInv'
  <2>0. g \in Lanes
    BY DEF Lanes
  <2>1. lane[g].unit \in Units
    BY <1>10, <1>busy, <2>0 DEF LaneRaises, Busy
  <2>2. Outcome(g) \in Row
    BY <1>outcome, <2>0, <2>1
  <2>3. IsRows(WithRow(r, lane[g].unit, Outcome(g)))
    BY <2>1, <2>2 DEF WithRow, IsRows
  <2>4. [Idle EXCEPT !.st = "raised"] \in LaneStates
    BY <1>idle DEF Stages
  <2>5. results' = [q \in Runs |-> results'[q]] /\ \A q \in Runs : IsRows(results'[q])
    BY <1>10, <2>3 DEF LaneRaises
  <2> QED
    BY <1>fault, <1>10, <2>0, <2>4, <2>5, RunAssumption DEF LaneRaises, SetLane
<1>11. ASSUME NEW r \in Runs, NEW g \in Lanes, MarkTail(r, g) PROVE TypeOK' /\ CodeInv'
  <2>1. CASE Todo(r, g) = {}
    BY <1>same, <1>11, <2>1, <1>idle DEF MarkTail, SetLane, Stages
  <2>2. CASE Todo(r, g) # {}
    <3> DEFINE u == First(Todo(r, g))
               row == [status |-> Failure(u), sha |-> "none", code |-> 0]
    <3>1. u \in Units
      BY <2>2, <1>todo
    <3>2. row \in Row
      BY RunAssumption DEF Row, Failure, Statuses, Contents, Codes
    <3>3. Checkpoint(r, u, row)
      BY <1>same, <1>11, <2>2 DEF MarkTail
    <3> QED
      BY <1>same, <1>11, <2>2, <3>1, <3>2, <3>3, CheckpointType DEF MarkTail
  <2> QED
    BY <2>1, <2>2
<1>12. ASSUME NEW r \in Runs, NEW g \in Groups, MarkTailRaises(r, g) PROVE TypeOK' /\ CodeInv'
  BY <1>fault, <1>12, RunAssumption DEF MarkTailRaises
<1>13. ASSUME NEW r \in Runs, Gate(r) PROVE TypeOK' /\ CodeInv'
  <2>1. results' = [q \in Runs |-> results'[q]] /\ \A q \in Runs : IsRows(results'[q])
    <3> DEFINE unknown == (Required \cap Sectors) \ (DOMAIN results[r] \cup Selected(r))
               skipped == IF GateOk(r) \/ opt[r].ignore THEN {} ELSE Selected(r) \cap Jobs
               f == [u \in DOMAIN results[r] \cup unknown \cup skipped |->
                       IF u \in DOMAIN results[r] THEN results[r][u]
                       ELSE [status |-> IF u \in unknown THEN "UNKNOWN" ELSE "SKIPPED_GATE",
                             sha |-> "none", code |-> 0]]
    <3>1. results' = [results EXCEPT ![r] = f]
      BY <1>13 DEF Gate
    <3>2. IsRows(f)
      BY RunAssumption DEF IsRows, Row, Statuses, Contents, Codes, Units
    <3> QED
      BY <3>1, <3>2
  <2>2. gateOk' \in BOOLEAN
    BY <1>13 DEF Gate, GateOk
  <2> QED
    BY <1>same, <1>13, <2>1, <2>2 DEF Gate
<1>14. ASSUME NEW r \in Runs, JobsOver(r) \/ Judge(r) \/ Drained(r) PROVE TypeOK' /\ CodeInv'
  <2>1. CASE JobsOver(r)
    <3>1. UNCHANGED <<lockVars, results, interrupted, verdictVars, manifest, laneVars, code, faults>>
          /\ pc' = [pc EXCEPT ![r] = "judge"]
      BY <2>1 DEF JobsOver
    <3> QED
      BY <1>same, <3>1
  <2>2. CASE Drained(r)
    <3>1. UNCHANGED <<lockVars, results, interrupted, verdictVars, manifest, laneVars, code, faults>>
          /\ pc' = [pc EXCEPT ![r] = "emptied"]
      BY <2>2 DEF Drained
    <3> QED
      BY <1>same, <3>1
  <2>3. CASE Judge(r)
    BY <1>same, <2>3 DEF Judge
  <2> QED
    BY <1>14, <2>1, <2>2, <2>3
<1>15. ASSUME NEW r \in Runs, Freshness(r) PROVE TypeOK' /\ CodeInv'
  BY <1>same, <1>15 DEF Freshness
<1>16. ASSUME NEW r \in Runs, Interrupt(r) PROVE TypeOK' /\ CodeInv'
  <2>1. [Idle EXCEPT !.st = "over"] \in LaneStates
    BY <1>idle DEF Stages
  <2> QED
    BY <1>fault, <1>16, <1>sem, <2>1, RunAssumption DEF Interrupt, Lanes
<1>17. ASSUME NEW r \in Runs, Seal(r) PROVE TypeOK' /\ CodeInv'
  <2> DEFINE f == IF pc[r] = "emptied" THEN NoRows ELSE results[r]
             m == [acc |-> overall, gate |-> GateValue(r), rows |-> f]
  <2>1. IsRows(f)
    BY DEF IsRows, NoRows
  <2>2. manifest' = [manifest EXCEPT ![r] = m]
    BY <1>17 DEF Seal
  <2> HIDE DEF f
  <2>3. m \in Manifest(f)
    BY DEF Manifest, GateValue
  <2>4. manifest' = [q \in Runs |-> manifest'[q]]
        /\ \A q \in Runs : IsRows(manifest'[q].rows) /\ manifest'[q] \in Manifest(manifest'[q].rows)
    BY <2>1, <2>2, <2>3
  <2> QED
    BY <1>same, <1>17, <1>sem, <2>4, <1>zero DEF Seal, Gone
<1>18. ASSUME NEW r \in Runs, Kill(r) PROVE TypeOK' /\ CodeInv'
  <2>1. [Idle EXCEPT !.st = "over"] \in LaneStates
    BY <1>idle DEF Stages
  <2> QED
    BY <1>fault, <1>18, <1>sem, <2>1, <1>zero DEF Kill, Gone
<1>19. ASSUME NEW g \in Lanes, OrphanEnds(g) PROVE TypeOK' /\ CodeInv'
  <2>1. [Idle EXCEPT !.st = "over"] \in LaneStates
    BY <1>idle DEF Stages
  <2> QED
    BY <1>same, <1>19, <2>1, PublishesType DEF OrphanEnds, SetLane
<1>20. ASSUME NEW u \in Units, Tamper(u) PROVE TypeOK' /\ CodeInv'
  BY <1>fault, <1>20, RunAssumption DEF Tamper
<1>21. ASSUME EditScripts PROVE TypeOK' /\ CodeInv'
  BY <1>21, RunAssumption DEF EditScripts, Codes, CodeInv, Fault
<1>22. CASE UNCHANGED vars
  BY <1>same, <1>22 DEF vars
<1> QED
  BY <1>1, <1>2, <1>3, <1>3a, <1>4, <1>5, <1>6, <1>7, <1>8, <1>9, <1>10, <1>11, <1>12, <1>13, <1>14,
     <1>15, <1>16, <1>17, <1>18, <1>19, <1>20, <1>21, <1>22 DEF Next, LaneStep, MainStep

-----------------------------------------------------------------------------
(* Only the run that executes owns the lock.                               *)
LEMMA OwnerStep == TypeOK /\ OwnerInv /\ [Next]_vars => OwnerInv'
<1> SUFFICES ASSUME TypeOK, OwnerInv, [Next]_vars
             PROVE  OwnerInv'
  OBVIOUS
<1>0. 0 \notin Runs /\ pc \in [Runs -> {"idle", "loaded", "locked", "tier0", "draining", "tier1",
                        "judge", "fresh", "sealing", "emptied", "done", "refused", "dead"}]
  BY RunAssumption DEF Runs, TypeOK
<1> USE <1>0 DEF OwnerInv, Active, lockVars, verdictVars, laneVars, Move, Gone
<1>1. ASSUME NEW r \in Runs, Start(r) \/ Acquire(r) PROVE OwnerInv'
  BY <1>1 DEF Start, Acquire
<1>2. ASSUME NEW r \in Runs,
             \/ \E q \in Runs : Reconcile(r, q)
             \/ OpenManifest(r) \/ JobsOver(r) \/ Judge(r) \/ Freshness(r) \/ Drained(r)
      PROVE OwnerInv'
  BY <1>2 DEF Reconcile, OpenManifest, JobsOver, Judge, Freshness, Drained
<1>3. ASSUME NEW r \in Runs, Gate(r) PROVE OwnerInv'
  BY <1>3 DEF Gate
<1>4. ASSUME NEW r \in Runs, Interrupt(r) PROVE OwnerInv'
  BY <1>4 DEF Interrupt
<1>5. ASSUME NEW r \in Runs, Seal(r) \/ Kill(r) PROVE OwnerInv'
  BY <1>5 DEF Seal, Kill
<1>6. ASSUME NEW r \in Runs, NEW g \in Groups, MarkTailRaises(r, g) PROVE OwnerInv'
  BY <1>6 DEF MarkTailRaises
<1>7. ASSUME NEW r \in Runs, NEW g \in Lanes, LaneStep(r, g) PROVE OwnerInv'
  BY <1>7 DEF LaneStep, NextUnit, SkipResumed, LaneOver, Launch, AttemptEnds, Finish, MarkTail
<1>8. ASSUME NEW r \in Runs, NEW g \in Groups, LaneRaises(r, g) PROVE OwnerInv'
  BY <1>8 DEF LaneRaises
<1>9. CASE \/ \E g \in Lanes : OrphanEnds(g)
           \/ \E u \in Units : Tamper(u)
           \/ EditScripts
           \/ UNCHANGED vars
  BY <1>9 DEF OrphanEnds, Tamper, EditScripts, vars
<1> QED
  BY <1>1, <1>2, <1>3, <1>4, <1>5, <1>6, <1>7, <1>8, <1>9 DEF Next, MainStep

(* A result for a unit of one lane leaves the other lanes their units.     *)
LEMMA OtherTodo ==
  ASSUME TypeOK, NEW r \in Runs, NEW g, NEW u, Lane[u] = g, NEW row,
         results' = [results EXCEPT ![r] = WithRow(r, u, row)], UNCHANGED opt,
         NEW h, h # g
  PROVE  Todo(r, h)' = Todo(r, h)
<1>1. DOMAIN results'[r] = DOMAIN results[r] \cup {u}
  BY DEF TypeOK, WithRow
<1> QED
  BY <1>1 DEF Todo, Selected

(* Lanes work for the owner only, in the phases that let them. *)
LEMMA LaneStepInv == TypeOK /\ OwnerInv /\ LaneInv /\ [Next]_vars => LaneInv'
<1> SUFFICES ASSUME TypeOK, OwnerInv, LaneInv, [Next]_vars
             PROVE  LaneInv'
  OBVIOUS
<1>0. /\ 0 \notin Runs /\ MainLane \notin Groups /\ Lanes = Groups \cup {MainLane}
      /\ lane \in [Lanes -> LaneStates] /\ DOMAIN pc = Runs
  BY RunAssumption DEF Runs, TypeOK, Lanes
<1>next. \A r \in Runs, g \in Lanes : Todo(r, g) # {} => First(Todo(r, g)) \in Todo(r, g)
  BY NextTodo
<1>own. \A r \in Runs, g \in Lanes : LaneOn(r, g) => owner = r /\ LaneOn(owner, g)
  BY DEF LaneOn
<1>attempt. \A r \in Runs, g \in Lanes, rc \in {"ok", "error", "stop"} : AttemptEnds(r, g, rc) =>
               \E st \in Stages, cmd \in 0 .. 2, try \in 0 .. MaxAttempts :
                 SetLane(g, Work(g, st, cmd, try))
  BY AttemptWork
<1> USE <1>0 DEF LaneInv, Busy, LaneOn, LanesActive, lockVars, verdictVars, laneVars, Move
<1>1. ASSUME NEW r \in Runs, Start(r) PROVE LaneInv'
  BY <1>1 DEF Start, OwnerInv, Active, Todo, Selected
<1>2. ASSUME NEW r \in Runs, Acquire(r) PROVE LaneInv'
  <2>1. CASE owner = 0 /\ \A g \in Lanes : lane[g].st # "running"
    BY <1>2, <2>1 DEF Acquire
  <2>2. CASE ~(owner = 0 /\ \A g \in Lanes : lane[g].st # "running")
    <3>1. UNCHANGED <<owner, opt, results, lane>> /\ pc' = [pc EXCEPT ![r] = "refused"]
      BY <1>2, <2>2 DEF Acquire
    <3>2. owner # r /\ owner \in 0 .. MaxRuns
      BY <1>2 DEF Acquire, OwnerInv, Active, TypeOK
    <3>3. pc'[owner] = pc[owner]
      BY <3>1, <3>2
    <3> QED
      BY <3>1, <3>3 DEF Todo, Selected
  <2> QED
    BY <2>1, <2>2
<1>3. ASSUME NEW r \in Runs, NEW q \in Runs, Reconcile(r, q) PROVE LaneInv'
  BY <1>3 DEF Reconcile, Todo, Selected
<1>3a. ASSUME NEW r \in Runs, OpenManifest(r) PROVE LaneInv'
  BY <1>3a DEF OpenManifest, Idle
<1>4. ASSUME NEW r \in Runs, NEW g \in Lanes, NextUnit(r, g) PROVE LaneInv'
  <2>1. /\ LaneOn(r, g) /\ owner = r /\ UNCHANGED <<pc, owner, opt, results>>
        /\ lane'[g].unit \in Todo(r, g)
        /\ \A h \in Lanes \ {g} : lane'[h] = lane[h]
    BY <1>4, <1>next, <1>own DEF NextUnit, SetLane
  <2> QED
    BY <2>1 DEF Todo, Selected
<1>5. ASSUME NEW r \in Runs, NEW g \in Lanes, SkipResumed(r, g) PROVE LaneInv'
  <2> DEFINE u == First(Todo(r, g))
             row == [status |-> "SKIPPED_RESUME", sha |-> artifact[u], code |-> code]
  <2>1. /\ LaneOn(r, g) /\ owner = r /\ UNCHANGED <<pc, owner, opt, lane>>
        /\ results' = [results EXCEPT ![r] = WithRow(r, u, row)]
        /\ lane[g].st = "pick" /\ Lane[u] = g
    BY <1>5, <1>next, <1>own DEF SkipResumed, Checkpoint, Todo
  <2>2. \A h \in Lanes \ {g} : Todo(r, h)' = Todo(r, h)
    BY <2>1, OtherTodo
  <2> QED
    BY <2>1, <2>2
<1>6. ASSUME NEW r \in Runs, NEW g \in Lanes, LaneOver(r, g) PROVE LaneInv'
  BY <1>6 DEF LaneOver, SetLane, Idle, Todo, Selected
<1>7. ASSUME NEW r \in Runs, NEW g \in Lanes, Launch(r, g) PROVE LaneInv'
  BY <1>7, <1>own DEF Launch, SetLane, Work, Todo, Selected
<1>8. ASSUME NEW r \in Runs, NEW g \in Lanes, NEW rc \in {"ok", "error", "stop"},
             AttemptEnds(r, g, rc)
      PROVE LaneInv'
  <2>1. /\ LaneOn(r, g) /\ owner = r /\ UNCHANGED <<pc, owner, opt, results>>
        /\ lane[g].st = "running"
    BY <1>8, <1>own DEF AttemptEnds
  <2>2. PICK st \in Stages, cmd \in 0 .. 2, try \in 0 .. MaxAttempts :
            lane' = [lane EXCEPT ![g] = Work(g, st, cmd, try)]
    <3>1. \E st \in Stages, cmd \in 0 .. 2, try \in 0 .. MaxAttempts : SetLane(g, Work(g, st, cmd, try))
      BY <1>8, <1>attempt, Zenon
    <3> QED
      BY ONLY <3>1, Zenon DEF SetLane
  <2>3. lane'[g].unit = lane[g].unit /\ \A h \in Lanes \ {g} : lane'[h] = lane[h]
    BY <2>2 DEF LaneStates, Work
  <2>4. \A h \in Lanes : Todo(r, h)' = Todo(r, h)
    BY <2>1 DEF Todo, Selected
  <2>5. LaneOn(r, g)' /\ lane'[g].unit \in Todo(r, g)'
    BY <2>1, <2>3, <2>4
  <2> QED
    BY <2>1, <2>3, <2>4, <2>5
<1>9. ASSUME NEW r \in Runs, NEW g \in Lanes, Finish(r, g) PROVE LaneInv'
  <2>1. /\ LaneOn(r, g) /\ owner = r /\ UNCHANGED <<pc, owner, opt>>
        /\ results' = [results EXCEPT ![r] = WithRow(r, lane[g].unit, Outcome(g))]
        /\ lane' = [lane EXCEPT ![g] = Idle]
        /\ lane[g].st \in {"ok", "failed"}
    BY <1>9, <1>own DEF Finish, SetLane, Checkpoint
  <2>2. Lane[lane[g].unit] = g
    BY <2>1 DEF Todo
  <2>3. \A h \in Lanes \ {g} : Todo(r, h)' = Todo(r, h)
    BY <2>1, <2>2, OtherTodo
  <2> QED
    BY <2>1, <2>3 DEF Idle
<1>10. ASSUME NEW r \in Runs, NEW g \in Groups, LaneRaises(r, g) PROVE LaneInv'
  <2>1. /\ LaneOn(r, g) /\ owner = r /\ UNCHANGED <<pc, owner, opt>> /\ g \in Lanes
        /\ lane' = [lane EXCEPT ![g] = [Idle EXCEPT !.st = "raised"]]
        /\ lane[g].st \in {"ok", "failed"}
    BY <1>10, <1>own DEF LaneRaises, SetLane
  <2>2. Lane[lane[g].unit] = g
    BY <2>1 DEF Todo
  <2>3. \A h \in Lanes \ {g} : Todo(r, h)' = Todo(r, h)
    <3>1. CASE UNCHANGED results
      BY <2>1, <3>1 DEF Todo, Selected
    <3>2. CASE results' = [results EXCEPT ![r] = WithRow(r, lane[g].unit, Outcome(g))]
      BY <2>1, <2>2, <3>2, OtherTodo
    <3> QED
      BY <1>10, <3>1, <3>2 DEF LaneRaises
  <2> QED
    BY <2>1, <2>3 DEF Idle
<1>11. ASSUME NEW r \in Runs, NEW g \in Lanes, MarkTail(r, g) PROVE LaneInv'
  <2>1. CASE Todo(r, g) = {}
    BY <1>11, <2>1 DEF MarkTail, SetLane, Idle, Todo, Selected
  <2>2. CASE Todo(r, g) # {}
    <3> DEFINE u == First(Todo(r, g))
               row == [status |-> Failure(u), sha |-> "none", code |-> 0]
    <3>1. /\ owner = r /\ UNCHANGED <<pc, owner, opt, lane>>
          /\ results' = [results EXCEPT ![r] = WithRow(r, u, row)]
          /\ lane[g].st = "raised" /\ Lane[u] = g
      BY <1>11, <2>2, <1>next DEF MarkTail, Checkpoint, Todo
    <3>2. \A h \in Lanes \ {g} : Todo(r, h)' = Todo(r, h)
      BY <3>1, OtherTodo
    <3> QED
      BY <3>1, <3>2
  <2> QED
    BY <2>1, <2>2
<1>12. ASSUME NEW r \in Runs, NEW g \in Groups, MarkTailRaises(r, g) PROVE LaneInv'
  BY <1>12 DEF MarkTailRaises, Todo, Selected
<1>13. ASSUME NEW r \in Runs, Gate(r) PROVE LaneInv'
  <2>1. owner = r /\ pc[r] = "tier0" /\ Tier0Over /\ UNCHANGED lane
    BY <1>13 DEF Gate
  <2>2. \A g \in Lanes : ~Busy(g)
    BY <2>1 DEF Tier0Over
  <2> QED
    BY <2>1, <2>2
<1>14. ASSUME NEW r \in Runs, JobsOver(r) \/ Judge(r) \/ Freshness(r) \/ Drained(r) \/ Seal(r)
       PROVE LaneInv'
  <2>1. UNCHANGED lane
    BY <1>14 DEF JobsOver, Judge, Freshness, Drained, Seal
  <2>2. \A g \in Lanes : ~Busy(g)
    BY <1>14 DEF JobsOver, Judge, Freshness, Drained, Seal
  <2> QED
    BY <2>1, <2>2
<1>15. ASSUME NEW r \in Runs, Interrupt(r) PROVE LaneInv'
  BY <1>15 DEF Interrupt, Idle, Todo, Selected
<1>16. ASSUME NEW r \in Runs, Kill(r) PROVE LaneInv'
  BY <1>16 DEF Kill, Gone, Idle
<1>17. ASSUME NEW g \in Lanes, OrphanEnds(g) PROVE LaneInv'
  BY <1>17 DEF OrphanEnds, SetLane, Idle
<1>18. CASE \/ \E u \in Units : Tamper(u)
            \/ EditScripts
            \/ UNCHANGED vars
  BY <1>18 DEF Tamper, EditScripts, vars, Todo, Selected
<1> QED
  BY <1>1, <1>2, <1>3, <1>3a, <1>4, <1>5, <1>6, <1>7, <1>8, <1>9, <1>10, <1>11, <1>12, <1>13, <1>14,
     <1>15, <1>16, <1>17, <1>18 DEF Next, LaneStep, MainStep

(* Slots are neither leaked nor handed out twice. *)
LEMMA SlotStep == TypeOK /\ OwnerInv /\ LaneInv /\ SlotInv /\ [Next]_vars => SlotInv'
<1> SUFFICES ASSUME TypeOK, OwnerInv, LaneInv, SlotInv, [Next]_vars
             PROVE  SlotInv'
  OBVIOUS
<1>0. /\ 0 \notin Runs /\ MainLane \notin Groups /\ Lanes = Groups \cup {MainLane}
      /\ lane \in [Lanes -> LaneStates] /\ DOMAIN pc = Runs /\ NetLanes \in Nat
  BY RunAssumption DEF Runs, TypeOK, Lanes
<1>fin. IsFiniteSet(Holders) /\ Cardinality(Holders) \in Nat
  BY HoldersFinite
<1>empty. Cardinality({}) = 0
  BY FS_EmptySet
<1>own. \A r \in Runs, g \in Lanes : LaneOn(r, g) => owner = r
  BY DEF LaneOn
<1>keep. ASSUME UNCHANGED <<owner, sem>>, Holders' = Holders PROVE SlotInv'
  BY <1>keep DEF SlotInv
<1>same. ASSUME UNCHANGED <<owner, sem, lane>> PROVE SlotInv'
  BY <1>same, <1>keep DEF Holders
<1>idle. ASSUME NEW g \in Lanes, lane[g].st # "running",
                UNCHANGED <<owner, sem>>,
                NEW w, lane' = [lane EXCEPT ![g] = w], w.st # "running"
         PROVE  SlotInv'
  BY <1>0, <1>keep, <1>idle DEF Holders
<1> USE <1>0 DEF lockVars, verdictVars, laneVars, Move
<1>1. ASSUME NEW r \in Runs, Start(r) \/ Gate(r) \/ JobsOver(r) \/ Judge(r) \/ Freshness(r) \/ Drained(r)
      PROVE SlotInv'
  BY <1>1, <1>same DEF Start, Gate, JobsOver, Judge, Freshness, Drained
<1>2. ASSUME NEW r \in Runs, Acquire(r) PROVE SlotInv'
  <2>1. CASE owner = 0 /\ \A g \in Lanes : lane[g].st # "running"
    <3>1. Holders' = {}
      BY <1>2, <2>1 DEF Acquire, Holders
    <3> QED
      BY <1>2, <2>1, <3>1, <1>empty DEF Acquire, SlotInv
  <2>2. CASE ~(owner = 0 /\ \A g \in Lanes : lane[g].st # "running")
    BY <1>2, <2>2, <1>same DEF Acquire
  <2> QED
    BY <2>1, <2>2
<1>3. ASSUME NEW r \in Runs, NEW q \in Runs, Reconcile(r, q) PROVE SlotInv'
  BY <1>3, <1>same DEF Reconcile
<1>3a. ASSUME NEW r \in Runs, OpenManifest(r) PROVE SlotInv'
  <2>1. owner = r /\ Holders = {}
    BY <1>3a DEF OpenManifest, OwnerInv, Active, Holders, LaneInv, Busy, LaneOn, LanesActive
  <2>2. Holders' = {}
    BY <1>3a DEF OpenManifest, Holders, Idle
  <2> QED
    BY <1>3a, <1>keep, <2>1, <2>2 DEF OpenManifest
<1>4. ASSUME NEW r \in Runs, NEW g \in Lanes, NextUnit(r, g) \/ LaneOver(r, g) PROVE SlotInv'
  BY <1>4, <1>idle DEF NextUnit, LaneOver, SetLane, Idle
<1>5. ASSUME NEW r \in Runs, NEW g \in Lanes, SkipResumed(r, g) PROVE SlotInv'
  BY <1>5, <1>same DEF SkipResumed
<1>6. ASSUME NEW r \in Runs, NEW g \in Lanes, Launch(r, g) PROVE SlotInv'
  <2>1. /\ owner = r /\ owner' = owner /\ lane[g].st = "queued"
        /\ \A h \in Lanes \ {g} : lane'[h] = lane[h]
        /\ lane'[g].st = "running" /\ lane'[g].unit = lane[g].unit
        /\ IF lane[g].unit \in Network THEN sem > 0 /\ sem' = sem - 1 ELSE sem' = sem
    BY <1>6 DEF Launch, LaneOn, TakeSlot, SetLane, Work, LaneStates
  <2>2. CASE lane[g].unit \in Network
    <3>1. Holders' = Holders \cup {g} /\ g \notin Holders
      BY <2>1, <2>2 DEF Holders
    <3>2. Cardinality(Holders') = Cardinality(Holders) + 1
      BY <1>fin, <3>1, FS_AddElement
    <3> QED
      BY <1>fin, <2>1, <2>2, <3>2 DEF SlotInv
  <2>3. CASE lane[g].unit \notin Network
    BY <2>1, <2>3, <1>keep DEF Holders
  <2> QED
    BY <2>2, <2>3
<1>7. ASSUME NEW r \in Runs, NEW g \in Lanes, NEW rc \in {"ok", "error", "stop"},
             AttemptEnds(r, g, rc)
      PROVE SlotInv'
  <2>1. /\ owner = r /\ owner' = owner /\ lane[g].st = "running"
        /\ sem' = IF lane[g].unit \in Network THEN sem + 1 ELSE sem
    BY <1>7 DEF AttemptEnds, LaneOn, GiveSlot
  <2>2. lane'[g].st # "running" /\ \A h \in Lanes \ {g} : lane'[h] = lane[h]
    BY <1>7 DEF AttemptEnds, SetLane, Work, LaneStates
  <2>3. CASE lane[g].unit \in Network
    <3>1. Holders' = Holders \ {g} /\ g \in Holders
      BY <2>1, <2>2, <2>3 DEF Holders
    <3>2. Cardinality(Holders') = Cardinality(Holders) - 1
      BY <1>fin, <3>1, FS_RemoveElement
    <3> QED
      BY <1>fin, <2>1, <2>3, <3>2 DEF SlotInv
  <2>4. CASE lane[g].unit \notin Network
    BY <2>1, <2>2, <2>4, <1>keep DEF Holders
  <2> QED
    BY <2>3, <2>4
<1>8. ASSUME NEW r \in Runs, NEW g \in Lanes, Finish(r, g) PROVE SlotInv'
  <2>1. /\ lane[g].st # "running" /\ UNCHANGED <<owner, sem>>
        /\ lane' = [lane EXCEPT ![g] = Idle] /\ Idle.st # "running"
    BY <1>8 DEF Finish, SetLane, Idle
  <2> QED
    BY <2>1, <1>idle
<1>9. ASSUME NEW r \in Runs, NEW g \in Groups, LaneRaises(r, g) PROVE SlotInv'
  <2> DEFINE w == [Idle EXCEPT !.st = "raised"]
  <2>1. /\ lane[g].st # "running" /\ UNCHANGED <<owner, sem>>
        /\ lane' = [lane EXCEPT ![g] = w] /\ w.st # "running"
    BY <1>9 DEF LaneRaises, SetLane, Idle
  <2> QED
    BY <2>1, <1>idle
<1>10. ASSUME NEW r \in Runs, NEW g \in Lanes, MarkTail(r, g) PROVE SlotInv'
  <2>1. CASE Todo(r, g) = {}
    <3> DEFINE w == [Idle EXCEPT !.st = "over"]
    <3>1. /\ lane[g].st # "running" /\ UNCHANGED <<owner, sem>>
          /\ lane' = [lane EXCEPT ![g] = w] /\ w.st # "running"
      BY <1>10, <2>1 DEF MarkTail, SetLane, Idle
    <3> QED
      BY <3>1, <1>idle
  <2>2. CASE Todo(r, g) # {}
    BY <1>10, <2>2, <1>same DEF MarkTail
  <2> QED
    BY <2>1, <2>2
<1>11. ASSUME NEW r \in Runs, NEW g \in Groups, MarkTailRaises(r, g) PROVE SlotInv'
  BY <1>11, <1>same DEF MarkTailRaises
<1>12. ASSUME NEW r \in Runs, Interrupt(r) PROVE SlotInv'
  <2>1. CASE pc[r] = "tier1"
    <3>1. \A g \in Groups : lane[g].st # "running"
      BY <1>12, <2>1 DEF Interrupt, LaneInv, Busy, LaneOn, LanesActive
    <3>2. Holders' = {}
      BY <1>12, <2>1, <3>1 DEF Interrupt, Holders, Idle
    <3> QED
      BY <1>12, <2>1, <3>2, <1>empty DEF Interrupt, SlotInv
  <2>2. CASE pc[r] # "tier1"
    BY <1>12, <2>2, <1>same DEF Interrupt
  <2> QED
    BY <2>1, <2>2
<1>13. ASSUME NEW r \in Runs, Seal(r) \/ Kill(r) PROVE SlotInv'
  BY <1>13 DEF Seal, Kill, Gone, SlotInv
<1>14. ASSUME NEW g \in Lanes, OrphanEnds(g) PROVE SlotInv'
  BY <1>14 DEF OrphanEnds, SlotInv
<1>15. CASE \/ \E u \in Units : Tamper(u)
            \/ EditScripts
            \/ UNCHANGED vars
  BY <1>15, <1>same DEF Tamper, EditScripts, vars
<1> QED
  BY <1>1, <1>2, <1>3, <1>3a, <1>4, <1>5, <1>6, <1>7, <1>8, <1>9, <1>10, <1>11, <1>12, <1>13, <1>14,
     <1>15 DEF Next, LaneStep, MainStep

-----------------------------------------------------------------------------
(* Manifests *)

(* A run that has not begun its lanes has no manifest, one that runs them  *)
(* has an open one, and one that is done has closed it.                    *)
ManifestInv ==
    \A r \in Runs :
        /\ manifest[r].acc = "absent" => DOMAIN manifest[r].rows = {}
        /\ pc[r] \in {"idle", "loaded", "refused", "locked"} => manifest[r].acc = "absent"
        /\ pc[r] \in Active \ {"locked"} => manifest[r].acc = "RUNNING"
        /\ pc[r] = "done" => manifest[r].acc \in {"PASS", "FAIL"}
        /\ pc[r] \in {"draining", "emptied"} => r \in interrupted

(* A manifest holds results of its run. *)
RowsInv ==
    \A r \in Runs : \A u \in DOMAIN manifest[r].rows :
        u \in DOMAIN results[r] /\ manifest[r].rows[u] = results[r][u]

IInv == TypeOK /\ CodeInv /\ OwnerInv /\ LaneInv /\ SlotInv /\ ManifestInv /\ RowsInv

(* What a checkpoint of a unit without a result does to the run's record.  *)
LEMMA CheckpointRecord ==
  ASSUME IInv, NEW r \in Runs, pc[r] \in Active \ {"locked"}, NEW u, u \notin DOMAIN results[r],
         NEW row, Checkpoint(r, u, row), UNCHANGED <<pc, interrupted>>
  PROVE  Record!Extend(r) /\ ManifestInv' /\ RowsInv'
<1>1. /\ manifest'[r].acc = "RUNNING" /\ manifest'[r].rows = WithRow(r, u, row)
      /\ results'[r] = WithRow(r, u, row)
      /\ \A q \in Runs \ {r} : manifest'[q] = manifest[q] /\ results'[q] = results[q]
  BY DEF IInv, TypeOK, Checkpoint
<1>2. manifest[r].acc = "RUNNING"
  BY DEF IInv, ManifestInv
<1>3. Record!Keeps(r)
  BY <1>1 DEF Record!Keeps, IInv, RowsInv, WithRow
<1>4. [q \in Runs |-> manifest[q].acc]' = [q \in Runs |-> manifest[q].acc]
  BY <1>1, <1>2
<1>5. Record!OnlyOf(r)
  BY <1>1 DEF Record!OnlyOf
<1>6. Record!Extend(r)
  BY <1>2, <1>3, <1>4, <1>5 DEF Record!Extend, Record!Live, Active
<1>7. ManifestInv'
  BY <1>1, <1>2 DEF IInv, ManifestInv, Active
<1>8. RowsInv'
  BY <1>1, <1>2 DEF IInv, RowsInv
<1> QED
  BY <1>6, <1>7, <1>8

(* Every step keeps the record's invariants, and is a step of RunRecord.   *)
LEMMA RecordStep ==
  ASSUME IInv, TypeOK', [Next]_vars
  PROVE  [Record!Next]_(Record!vars) /\ ManifestInv' /\ RowsInv'
<1> DEFINE Kept == [Record!Next]_(Record!vars) /\ ManifestInv' /\ RowsInv'
<1>0. /\ 0 \notin Runs
      /\ pc \in [Runs -> {"idle", "loaded", "locked", "tier0", "draining", "tier1",
                          "judge", "fresh", "sealing", "emptied", "done", "refused", "dead"}]
  BY RunAssumption DEF Runs, IInv, TypeOK
<1>next. \A r \in Runs, g \in Lanes : Todo(r, g) # {} => First(Todo(r, g)) \notin DOMAIN results[r]
  BY NextTodo DEF IInv, Todo
<1>busy. \A r \in Runs, g \in Lanes : LaneOn(r, g) /\ Busy(g) => lane[g].unit \notin DOMAIN results[r]
  BY BusyUnit DEF IInv, Todo
<1>on. \A r \in Runs, g \in Lanes : LaneOn(r, g) => owner = r /\ pc[r] \in Active \ {"locked"}
  BY DEF LaneOn, LanesActive, Active
(* Only Kill makes a run one that died. *)
<1>gone. ASSUME NEW r \in Runs, pc[r] # "dead", NEW s \in {"loaded", "locked", "refused", "tier0", "draining",
                   "tier1", "judge", "fresh", "sealing", "emptied", "done"}, pc' = [pc EXCEPT ![r] = s]
         PROVE  {q \in Runs : pc[q] = "dead"}' = {q \in Runs : pc[q] = "dead"}
  BY <1>0, <1>gone
<1>rows. ASSUME UNCHANGED <<manifest, interrupted>>,
                {q \in Runs : pc[q] = "dead"}' = {q \in Runs : pc[q] = "dead"},
                \A r \in Runs : \A u \in DOMAIN results[r] :
                   u \in DOMAIN results'[r] /\ results'[r][u] = results[r][u]
         PROVE  [Record!Next]_(Record!vars) /\ RowsInv'
  BY <1>rows DEF IInv, RowsInv, Record!vars
<1>same. ASSUME UNCHANGED <<pc, manifest, interrupted>>,
                \A r \in Runs : \A u \in DOMAIN results[r] :
                   u \in DOMAIN results'[r] /\ results'[r][u] = results[r][u]
         PROVE  Kept
  BY <1>same, <1>rows DEF IInv, ManifestInv
<1>check. ASSUME NEW r \in Runs, NEW u, NEW row, pc[r] \in Active \ {"locked"},
                 u \notin DOMAIN results[r], Checkpoint(r, u, row), UNCHANGED <<pc, interrupted>>
          PROVE  Kept
  BY <1>check, CheckpointRecord DEF Record!Next
<1>cut. ASSUME NEW r \in Runs, pc[r] \in Active \ {"locked"},
               interrupted' = interrupted \cup {r}, UNCHANGED <<manifest, results>>,
               NEW s \in {"draining", "sealing"}, pc' = [pc EXCEPT ![r] = s]
        PROVE  Kept
  <2>0. {q \in Runs : pc[q] = "dead"}' = {q \in Runs : pc[q] = "dead"}
    BY <1>cut, <1>gone DEF Active
  <2>1. Record!CutShort(r)
    BY <1>cut, <2>0 DEF Record!CutShort, Record!Live, IInv, ManifestInv, Active
  <2>2. ManifestInv'
    BY <1>0, <1>cut DEF IInv, ManifestInv, Active
  <2> QED
    BY <1>cut, <2>1, <2>2 DEF Record!Next, IInv, RowsInv
<1> USE DEF lockVars, verdictVars, laneVars, Move
<1>1. ASSUME NEW r \in Runs, Start(r) \/ Acquire(r) PROVE Kept
  <2>1. ManifestInv'
    BY <1>0, <1>1 DEF Start, Acquire, IInv, ManifestInv, Active
  <2>2. {q \in Runs : pc[q] = "dead"}' = {q \in Runs : pc[q] = "dead"}
    BY <1>0, <1>1 DEF Start, Acquire
  <2> QED
    BY <1>1, <2>1, <2>2, <1>rows DEF Start, Acquire
<1>2. ASSUME NEW r \in Runs, NEW q \in Runs, Reconcile(r, q) PROVE Kept
  <2>1. /\ manifest[q].acc = "RUNNING" /\ pc[q] = "dead"
        /\ manifest'[q].acc = "ABORTED" /\ manifest'[q].rows = manifest[q].rows
        /\ \A p \in Runs \ {q} : manifest'[p] = manifest[p]
    BY <1>2, ReconcileWrites DEF IInv
  <2>2. UNCHANGED <<pc, interrupted, results>>
    BY <1>2 DEF Reconcile
  <2>3. [p \in Runs |-> manifest[p].acc]' = [[p \in Runs |-> manifest[p].acc] EXCEPT ![q] = "ABORTED"]
    BY <2>1
  <2>4. [p \in Runs |-> manifest[p].rows]' = [p \in Runs |-> manifest[p].rows]
    BY <2>1
  <2>5. Record!Abort(q)
    BY <2>1, <2>2, <2>3, <2>4 DEF Record!Abort, Record!Live
  <2>6. ManifestInv'
    BY <2>1, <2>2 DEF IInv, ManifestInv, Active
  <2>7. RowsInv'
    BY <2>1, <2>2 DEF IInv, RowsInv
  <2> QED
    BY <2>5, <2>6, <2>7 DEF Record!Next
<1>2a. ASSUME NEW r \in Runs, OpenManifest(r) PROVE Kept
  <2>1. /\ owner = r /\ pc[r] = "locked" /\ manifest[r].acc = "absent"
        /\ \A q \in Runs \ {r} : pc[q] \notin Active
    BY <1>0, <1>2a DEF OpenManifest, IInv, OwnerInv, ManifestInv, Active
  <2>2. /\ manifest'[r].acc = "RUNNING" /\ manifest'[r].rows = NoRows
        /\ \A q \in Runs \ {r} : manifest'[q] = manifest[q]
    BY <1>2a, OpenWrites DEF IInv
  <2>3. pc' = [pc EXCEPT ![r] = "tier0"] /\ UNCHANGED <<interrupted, results>>
    BY <1>2a DEF OpenManifest
  <2>4. \A q \in Runs : manifest[q].acc = "RUNNING" => pc[q] = "dead"
    BY <1>0, <2>1 DEF IInv, ManifestInv, Active
  <2>5. DOMAIN NoRows = {}
    BY DEF NoRows
  <2>6. [q \in Runs |-> manifest[q].acc]' = [[q \in Runs |-> manifest[q].acc] EXCEPT ![r] = "RUNNING"]
    BY <2>2
  <2>7. {q \in Runs : pc[q] = "dead"}' = {q \in Runs : pc[q] = "dead"}
    BY <1>0, <2>1, <2>3
  <2>8. Record!Open(r)
    <3>1. Record!OnlyOf(r) /\ DOMAIN manifest'[r].rows = {}
      BY <2>2, <2>5 DEF Record!OnlyOf
    <3> QED
      BY <2>1, <2>3, <2>4, <2>6, <2>7, <3>1 DEF Record!Open, Record!Live
  <2>9. ManifestInv'
    BY <1>0, <2>1, <2>2, <2>3 DEF IInv, ManifestInv, Active
  <2>10. RowsInv'
    BY <2>2, <2>3, <2>5 DEF IInv, RowsInv
  <2> QED
    BY <2>8, <2>9, <2>10 DEF Record!Next
<1>3. ASSUME NEW r \in Runs, NEW g \in Lanes,
             \/ NextUnit(r, g) \/ LaneOver(r, g) \/ Launch(r, g)
             \/ \E rc \in {"ok", "error", "stop"} : AttemptEnds(r, g, rc)
      PROVE  Kept
  BY <1>3, <1>same DEF NextUnit, LaneOver, Launch, AttemptEnds
<1>4. ASSUME NEW r \in Runs, NEW g \in Lanes, SkipResumed(r, g) PROVE Kept
  BY <1>4, <1>next, <1>on, <1>check DEF SkipResumed
<1>5. ASSUME NEW r \in Runs, NEW g \in Lanes, Finish(r, g) PROVE Kept
  BY <1>5, <1>busy, <1>on, <1>check DEF Finish, Busy
<1>6. ASSUME NEW r \in Runs, NEW g \in Groups, LaneRaises(r, g) PROVE Kept
  <2>1. lane[g].unit \notin DOMAIN results[r]
    BY <1>6, <1>busy DEF LaneRaises, Busy, Lanes
  <2>2. \A q \in Runs : \A u \in DOMAIN results[q] :
           u \in DOMAIN results'[q] /\ results'[q][u] = results[q][u]
    BY <1>6, <2>1 DEF LaneRaises, WithRow, IInv, TypeOK
  <2> QED
    BY <1>6, <2>2, <1>same DEF LaneRaises
<1>7. ASSUME NEW r \in Runs, NEW g \in Lanes, MarkTail(r, g) PROVE Kept
  <2>1. CASE Todo(r, g) = {}
    BY <1>7, <2>1, <1>same DEF MarkTail
  <2>2. CASE Todo(r, g) # {}
    <3>1. pc[r] \in Active \ {"locked"}
      BY <1>7 DEF MarkTail, Active
    <3> QED
      BY <1>7, <2>2, <3>1, <1>next, <1>check DEF MarkTail
  <2> QED
    BY <2>1, <2>2
<1>8. ASSUME NEW r \in Runs, NEW g \in Groups, MarkTailRaises(r, g) PROVE Kept
  BY <1>8, <1>cut DEF MarkTailRaises, Active
<1>9. ASSUME NEW r \in Runs, Interrupt(r) PROVE Kept
  BY <1>9, <1>cut DEF Interrupt, Active
<1>10. ASSUME NEW r \in Runs, Gate(r) PROVE Kept
  <2>1. \A q \in Runs : \A u \in DOMAIN results[q] :
           u \in DOMAIN results'[q] /\ results'[q][u] = results[q][u]
    BY <1>10 DEF Gate, IInv, TypeOK
  <2>2. UNCHANGED <<manifest, interrupted>> /\ pc[r] = "tier0"
        /\ (pc' = [pc EXCEPT ![r] = "tier1"] \/ pc' = [pc EXCEPT ![r] = "judge"])
    BY <1>10 DEF Gate
  <2>3. ManifestInv'
    BY <1>0, <2>2 DEF IInv, ManifestInv, Active
  <2>4. {q \in Runs : pc[q] = "dead"}' = {q \in Runs : pc[q] = "dead"}
    BY <1>0, <2>2
  <2> QED
    BY <2>1, <2>2, <2>3, <2>4, <1>rows
<1>11. ASSUME NEW r \in Runs, JobsOver(r) \/ Judge(r) \/ Freshness(r) \/ Drained(r) PROVE Kept
  <2>1. ManifestInv'
    BY <1>0, <1>11 DEF JobsOver, Judge, Freshness, Drained, IInv, ManifestInv, Active
  <2>2. {q \in Runs : pc[q] = "dead"}' = {q \in Runs : pc[q] = "dead"}
    BY <1>0, <1>11 DEF JobsOver, Judge, Freshness, Drained
  <2> QED
    BY <1>11, <2>1, <2>2, <1>rows DEF JobsOver, Judge, Freshness, Drained
<1>12. ASSUME NEW r \in Runs, Seal(r) PROVE Kept
  <2> DEFINE f == IF pc[r] = "emptied" THEN NoRows ELSE results[r]
  <2>1. /\ manifest'[r].acc = overall /\ manifest'[r].rows = f
        /\ \A q \in Runs \ {r} : manifest'[q] = manifest[q]
        /\ pc' = [pc EXCEPT ![r] = "done"] /\ UNCHANGED <<results, interrupted>>
        /\ overall \in {"PASS", "FAIL"}
    BY <1>12 DEF Seal, IInv, TypeOK
  <2>2. manifest[r].acc = "RUNNING" /\ (pc[r] = "emptied" => r \in interrupted)
    BY <1>12 DEF Seal, IInv, ManifestInv, Active
  <2>3. DOMAIN NoRows = {}
    BY DEF NoRows
  <2>4. r \in interrupted \/ Record!Keeps(r)
    BY <2>1, <2>2 DEF Record!Keeps, IInv, RowsInv
  <2>5. [q \in Runs |-> manifest[q].acc]' = [[q \in Runs |-> manifest[q].acc] EXCEPT ![r] = overall]
    BY <2>1
  <2>9. {q \in Runs : pc[q] = "dead"}' = {q \in Runs : pc[q] = "dead"} /\ pc[r] # "dead"
    BY <1>0, <1>12, <2>1 DEF Seal
  <2>6. Record!Close(r)
    BY <2>1, <2>2, <2>4, <2>5, <2>9 DEF Record!Close, Record!OnlyOf, Record!Live
  <2>7. ManifestInv'
    BY <1>0, <2>1 DEF IInv, ManifestInv, Active
  <2>8. RowsInv'
    BY <2>1, <2>3 DEF IInv, RowsInv
  <2> QED
    BY <2>6, <2>7, <2>8 DEF Record!Next
<1>13. ASSUME NEW r \in Runs, Kill(r) PROVE Kept
  <2>1. pc[r] \in Active /\ pc' = [pc EXCEPT ![r] = "dead"] /\ UNCHANGED <<manifest, interrupted, results>>
    BY <1>13 DEF Kill, IInv, OwnerInv
  <2>2. ManifestInv'
    BY <1>0, <2>1 DEF IInv, ManifestInv, Active
  <2>3. manifest[r].acc \in {"absent", "RUNNING"}
    BY <2>1 DEF IInv, ManifestInv, Active
  <2>4. {q \in Runs : pc[q] = "dead"}' = {q \in Runs : pc[q] = "dead"} \cup {r}
    BY <1>0, <2>1
  <2>5. pc[r] # "dead"
    BY <2>1 DEF Active
  <2>6. Record!Die(r)
    BY <2>1, <2>3, <2>4, <2>5 DEF Record!Die, Record!Live
  <2>7. RowsInv'
    BY <2>1 DEF IInv, RowsInv
  <2> QED
    BY <2>2, <2>6, <2>7 DEF Record!Next
<1>14. CASE \/ \E g \in Lanes : OrphanEnds(g)
            \/ \E u \in Units : Tamper(u)
            \/ EditScripts
            \/ UNCHANGED vars
  BY <1>14, <1>same DEF OrphanEnds, Tamper, EditScripts, vars
<1> QED
  BY <1>1, <1>2, <1>2a, <1>3, <1>4, <1>5, <1>6, <1>7, <1>8, <1>9, <1>10, <1>11, <1>12, <1>13, <1>14
     DEF Next, LaneStep, MainStep

-----------------------------------------------------------------------------
LEMMA InitInv == Init => IInv
<1> SUFFICES ASSUME Init PROVE IInv
  OBVIOUS
<1>1. TypeOK
  <2>1. IsRows(NoRows) /\ DOMAIN NoRows = {}
    BY DEF IsRows, NoRows
  <2>2. Absent \in Manifest(NoRows) /\ Absent.rows = NoRows /\ Absent.acc = "absent"
    BY DEF Absent, Manifest
  <2>3. [Idle EXCEPT !.st = "over"] \in LaneStates
    BY IdleType DEF Stages
  <2> QED
    <3>1. results = [r \in Runs |-> results[r]] /\ \A r \in Runs : IsRows(results[r])
      BY <2>1 DEF Init
    <3>2. /\ manifest = [r \in Runs |-> manifest[r]]
          /\ \A r \in Runs : IsRows(manifest[r].rows) /\ manifest[r] \in Manifest(manifest[r].rows)
      BY <2>1, <2>2 DEF Init
    <3>3. lane \in [Lanes -> LaneStates]
      BY <2>3 DEF Init
    <3>4. /\ owner \in 0 .. MaxRuns /\ sem \in 0 .. NetLanes /\ faults \in 0 .. MaxFaults
          /\ code \in Codes \ {0} /\ artifact \in [Units -> Contents]
      BY RunAssumption DEF Init, Contents, Codes
    <3>5. opt \in [Runs -> [resume : BOOLEAN, ignore : BOOLEAN, sel : SUBSET Units, after : SUBSET Runs]]
      BY DEF Init
    <3> QED
      BY <3>1, <3>2, <3>3, <3>4, <3>5 DEF Init, TypeOK
<1>2. CodeInv /\ OwnerInv
  BY RunAssumption DEF Init, CodeInv, OwnerInv, Active, Runs
<1>3. \A g \in Lanes : lane[g].st = "over"
  BY DEF Init, Idle
<1>4. LaneInv /\ SlotInv
  BY <1>3, RunAssumption DEF Init, LaneInv, Busy, SlotInv
<1>5. ManifestInv /\ RowsInv
  BY DEF Init, ManifestInv, RowsInv, Active, Absent, NoRows
<1> QED
  BY <1>1, <1>2, <1>4, <1>5 DEF IInv

LEMMA StepInv == IInv /\ [Next]_vars => IInv'
<1> SUFFICES ASSUME IInv, [Next]_vars PROVE IInv'
  OBVIOUS
<1>1. OwnerInv' /\ LaneInv' /\ SlotInv'
  BY OwnerStep, LaneStepInv, SlotStep DEF IInv
<1>2. TypeOK' /\ CodeInv'
  BY <1>1, TypeStep DEF IInv
<1>3. ManifestInv' /\ RowsInv'
  BY <1>2, RecordStep
<1> QED
  BY <1>1, <1>2, <1>3 DEF IInv

(* The inductive invariant of the master: types, who owns the lock, what   *)
(* lanes work on, network slots, manifests and the results behind them.    *)
THEOREM Invariance == Spec => []IInv
BY InitInv, StepInv, PTL DEF Spec

(* Every variable keeps its type. *)
THEOREM TypeCorrect == Spec => []TypeOK
<1>1. IInv => TypeOK
  BY DEF IInv
<1> QED
  BY <1>1, Invariance, PTL

(* Network slots are neither leaked nor handed out twice. *)
THEOREM SlotsConserved == Spec => []NetworkSlotsConserved
<1>1. IInv => NetworkSlotsConserved
  BY DEF IInv, SlotInv, NetworkSlotsConserved, Holders
<1> QED
  BY <1>1, Invariance, PTL

(* The manifests implement RunRecord: opened once, while no other live run *)
(* has one open, growing while the run lives, closed once, aborted only    *)
(* when the run is dead, whatever raises or is killed, and wherever: also  *)
(* between the clean-up of dead runs and the run's own first manifest.     *)
THEOREM RecordIsKept == Spec => RecordKept
<1>1. Init => Record!Init
  BY DEF Init, Record!Init, Absent, NoRows
<1>2. IInv /\ IInv' /\ [Next]_vars => [Record!Next]_(Record!vars)
  BY RecordStep DEF IInv
<1> QED
  BY <1>1, <1>2, Invariance, PTL DEF Spec, RecordKept, Record!Spec

-----------------------------------------------------------------------------
(* What a sealed PASS stands on, and what --resume may skip *)

(* A result, once recorded, stands. *)
ResultsStand ==
    \A r \in Runs : \A u \in DOMAIN results[r] :
        u \in DOMAIN results'[r] /\ results'[r][u] = results[r][u]

LEMMA ResultsGrow ==
  ASSUME IInv, [Next]_vars
  PROVE  ResultsStand
<1>next. \A r \in Runs, g \in Lanes : Todo(r, g) # {} => First(Todo(r, g)) \notin DOMAIN results[r]
  BY NextTodo DEF IInv, Todo
<1>busy. \A r \in Runs, g \in Lanes : LaneOn(r, g) /\ Busy(g) => lane[g].unit \notin DOMAIN results[r]
  BY BusyUnit DEF IInv, Todo
<1>add. ASSUME NEW r \in Runs, NEW u, NEW row, u \notin DOMAIN results[r],
               results' = [results EXCEPT ![r] = WithRow(r, u, row)]
        PROVE  ResultsStand
  BY <1>add DEF ResultsStand, WithRow, IInv, TypeOK
<1>same. ASSUME UNCHANGED results PROVE ResultsStand
  BY <1>same DEF ResultsStand
<1> USE DEF lockVars, verdictVars, laneVars
<1>1. ASSUME NEW r \in Runs, NEW g \in Lanes, SkipResumed(r, g) PROVE ResultsStand
  BY <1>1, <1>next, <1>add DEF SkipResumed, Checkpoint
<1>2. ASSUME NEW r \in Runs, NEW g \in Lanes, Finish(r, g) PROVE ResultsStand
  BY <1>2, <1>busy, <1>add DEF Finish, Checkpoint, Busy
<1>3. ASSUME NEW r \in Runs, NEW g \in Groups, LaneRaises(r, g) PROVE ResultsStand
  BY <1>3, <1>busy, <1>add, <1>same DEF LaneRaises, Busy, Lanes
<1>4. ASSUME NEW r \in Runs, NEW g \in Lanes, MarkTail(r, g) PROVE ResultsStand
  BY <1>4, <1>next, <1>add, <1>same DEF MarkTail, Checkpoint
<1>5. ASSUME NEW r \in Runs, Gate(r) PROVE ResultsStand
  BY <1>5 DEF Gate, ResultsStand, IInv, TypeOK
<1>6. ASSUME NEW r \in Runs,
             \/ \E q \in Runs : Reconcile(r, q)
             \/ Start(r) \/ Acquire(r) \/ OpenManifest(r) \/ JobsOver(r) \/ Judge(r) \/ Freshness(r)
             \/ Drained(r) \/ Seal(r) \/ Interrupt(r) \/ Kill(r)
      PROVE  ResultsStand
  BY <1>6, <1>same DEF Start, Acquire, Reconcile, OpenManifest, JobsOver, Judge, Freshness, Drained, Seal,
                       Interrupt, Kill
<1>7. ASSUME NEW r \in Runs, NEW g \in Lanes,
             \/ NextUnit(r, g) \/ LaneOver(r, g) \/ Launch(r, g)
             \/ \E rc \in {"ok", "error", "stop"} : AttemptEnds(r, g, rc)
      PROVE  ResultsStand
  BY <1>7, <1>same DEF NextUnit, LaneOver, Launch, AttemptEnds
<1>8. ASSUME NEW r \in Runs, NEW g \in Groups, MarkTailRaises(r, g) PROVE ResultsStand
  BY <1>8, <1>same DEF MarkTailRaises
<1>9. CASE \/ \E g \in Lanes : OrphanEnds(g)
           \/ \E u \in Units : Tamper(u)
           \/ EditScripts
           \/ UNCHANGED vars
  BY <1>9, <1>same DEF OrphanEnds, Tamper, EditScripts, vars
<1> QED
  BY <1>1, <1>2, <1>3, <1>4, <1>5, <1>6, <1>7, <1>8, <1>9 DEF Next, LaneStep, MainStep

(* The gate is open only over healthy required sectors, jobs run only      *)
(* behind it, and an acceptance of PASS has been earned as far as the run  *)
(* has come.                                                               *)
Behind(r) == opt[r].ignore \/ GateOk(r)
VerdictInv ==
    /\ owner = 0 => ~gateOk /\ overall = "FAIL"
    /\ \A r \in Runs : owner = r =>
         /\ gateOk => GateOk(r)
         /\ pc[r] = "tier1" => gateOk \/ opt[r].ignore
         /\ overall = "PASS" => Passes(r) /\ pc[r] \in {"fresh", "sealing"}
         /\ overall = "PASS" /\ pc[r] = "sealing" => r \in fresh \cup interrupted

(* The command line of a run that has been started does not change. *)
LEMMA OptStands ==
  ASSUME IInv, [Next]_vars, NEW r \in Runs, pc[r] # "idle"
  PROVE  opt'[r] = opt[r]
<1> USE DEF lockVars, verdictVars, laneVars
<1>1. ASSUME NEW q \in Runs, Start(q) PROVE opt'[r] = opt[r]
  BY <1>1 DEF Start, IInv, TypeOK
<1>2. ASSUME NEW q \in Runs, Acquire(q) \/ MainStep(q) \/ Interrupt(q) \/ Kill(q) PROVE opt'[r] = opt[r]
  BY <1>2 DEF Acquire, MainStep, Interrupt, Kill, Reconcile, OpenManifest, Gate, JobsOver, Judge, Freshness, Drained, Seal
<1>3. ASSUME NEW q \in Runs, NEW g \in Lanes, LaneStep(q, g) PROVE opt'[r] = opt[r]
  BY <1>3 DEF LaneStep, NextUnit, SkipResumed, LaneOver, Launch, AttemptEnds, Finish, MarkTail
<1>4. ASSUME NEW q \in Runs, NEW g \in Groups, LaneRaises(q, g) \/ MarkTailRaises(q, g) PROVE opt'[r] = opt[r]
  BY <1>4 DEF LaneRaises, MarkTailRaises
<1>5. CASE \/ \E g \in Lanes : OrphanEnds(g)
           \/ \E u \in Units : Tamper(u)
           \/ EditScripts
           \/ UNCHANGED vars
  BY <1>5 DEF OrphanEnds, Tamper, EditScripts, vars
<1> QED
  BY <1>1, <1>2, <1>3, <1>4, <1>5 DEF Next

LEMMA VerdictInit == Init => VerdictInv
BY RunAssumption DEF Init, VerdictInv, Runs

LEMMA VerdictStep == IInv /\ VerdictInv /\ [Next]_vars => VerdictInv'
<1> SUFFICES ASSUME IInv, VerdictInv, [Next]_vars
             PROVE  VerdictInv'
  OBVIOUS
<1>0. /\ 0 \notin Runs /\ owner \in Runs \cup {0}
      /\ pc \in [Runs -> {"idle", "loaded", "locked", "tier0", "draining", "tier1",
                          "judge", "fresh", "sealing", "emptied", "done", "refused", "dead"}]
  BY RunAssumption DEF Runs, IInv, TypeOK
<1>grow. ResultsStand
  BY ResultsGrow
<1>opt. \A r \in Runs : owner = r => opt'[r] = opt[r]
  BY OptStands DEF IInv, OwnerInv, Active
<1>gate. \A r \in Runs : GateOk(r) => GateOk(r)'
  BY <1>grow DEF GateOk, IsHealthy, ResultsStand
<1>pass. ASSUME NEW r \in Runs, owner = r, Passes(r), UNCHANGED gateOk PROVE Passes(r)'
  BY <1>pass, <1>grow, <1>opt DEF Passes, IsHealthy, ResultsStand, Selected
<1>same. ASSUME UNCHANGED <<owner, pc, gateOk, overall, interrupted, fresh>> PROVE VerdictInv'
  BY <1>same, <1>opt, <1>gate, <1>pass DEF VerdictInv
<1> USE DEF lockVars, verdictVars, laneVars, Move
<1>1. ASSUME NEW r \in Runs, Start(r) PROVE VerdictInv'
  <2>1. owner # r /\ UNCHANGED <<owner, gateOk, overall, interrupted, fresh>> /\ pc' = [pc EXCEPT ![r] = "loaded"]
    BY <1>1 DEF Start, IInv, OwnerInv, Active
  <2> QED
    BY <1>0, <2>1, <1>opt, <1>gate, <1>pass DEF VerdictInv
<1>2. ASSUME NEW r \in Runs, Acquire(r) PROVE VerdictInv'
  <2>1. CASE owner' = r
    BY <1>0, <1>2, <2>1 DEF Acquire, VerdictInv, IInv, OwnerInv, Active
  <2>2. CASE owner' # r
    <3>1. /\ owner # r /\ UNCHANGED <<owner, gateOk, overall, interrupted, fresh>>
          /\ pc' = [pc EXCEPT ![r] = "refused"]
      BY <1>0, <1>2, <2>2 DEF Acquire
    <3> QED
      BY <1>0, <3>1, <1>opt, <1>gate, <1>pass DEF VerdictInv
  <2> QED
    BY <2>1, <2>2
<1>3a. ASSUME NEW r \in Runs, NEW q \in Runs, Reconcile(r, q) PROVE VerdictInv'
  BY <1>3a, <1>same DEF Reconcile
<1>3. ASSUME NEW r \in Runs, OpenManifest(r) \/ JobsOver(r) PROVE VerdictInv'
  <2>1. /\ owner = r /\ UNCHANGED <<owner, gateOk, overall, interrupted, fresh>>
        /\ pc[r] \in {"locked", "tier1"}
        /\ \/ pc' = [pc EXCEPT ![r] = "tier0"]
           \/ pc' = [pc EXCEPT ![r] = "judge"]
    <3>1. CASE OpenManifest(r)
      <4>1. owner = r /\ pc[r] = "locked"
        BY <1>0, <3>1 DEF OpenManifest, IInv, OwnerInv, Active
      <4>2. UNCHANGED <<owner, gateOk, overall, interrupted, fresh>> /\ pc' = [pc EXCEPT ![r] = "tier0"]
        BY <3>1 DEF OpenManifest
      <4> QED
        BY <4>1, <4>2
    <3>2. CASE JobsOver(r)
      BY <3>2 DEF JobsOver
    <3> QED
      BY <1>3, <3>1, <3>2
  <2> QED
    BY <1>0, <2>1, <1>opt, <1>gate, <1>pass DEF VerdictInv
<1>4. ASSUME NEW r \in Runs, Gate(r) PROVE VerdictInv'
  <2>1. /\ owner = r /\ UNCHANGED <<owner, opt, overall, interrupted, fresh>> /\ pc[r] = "tier0"
        /\ gateOk' = GateOk(r)
        /\ pc' = [pc EXCEPT ![r] = IF GateOk(r) \/ opt[r].ignore THEN "tier1" ELSE "judge"]
    BY <1>4 DEF Gate
  <2> QED
    BY <1>0, <2>1, <1>gate DEF VerdictInv
<1>5. ASSUME NEW r \in Runs, Judge(r) PROVE VerdictInv'
  <2>1. /\ owner = r /\ UNCHANGED <<owner, opt, results, gateOk, interrupted, fresh>> /\ pc[r] = "judge"
        /\ overall' = IF Passes(r) THEN "PASS" ELSE "FAIL"
        /\ pc' = [pc EXCEPT ![r] = "fresh"]
    BY <1>5 DEF Judge
  <2>2. Passes(r)' = Passes(r)
    BY <2>1 DEF Passes, IsHealthy, Selected
  <2> QED
    BY <1>0, <2>1, <2>2, <1>gate DEF VerdictInv
<1>6. ASSUME NEW r \in Runs, Freshness(r) PROVE VerdictInv'
  <2>1. /\ owner = r /\ UNCHANGED <<owner, opt, results, gateOk, interrupted>> /\ pc[r] = "fresh"
        /\ pc' = [pc EXCEPT ![r] = "sealing"]
        /\ \/ overall' = "FAIL"
           \/ overall' = overall /\ fresh' = fresh \cup {r}
    BY <1>6 DEF Freshness
  <2> QED
    BY <1>0, <2>1, <1>gate, <1>pass DEF VerdictInv
<1>7. ASSUME NEW r \in Runs, NEW s, owner = r, pc[r] \in {"tier0", "tier1", "fresh"},
             interrupted' = interrupted \cup {r}, pc' = [pc EXCEPT ![r] = s],
             s = "draining" \/ s = "sealing", pc[r] = "fresh" => s = "sealing",
             UNCHANGED <<owner, gateOk, overall, fresh>>
      PROVE VerdictInv'
  BY <1>0, <1>7, <1>gate, <1>pass DEF VerdictInv
<1>8. ASSUME NEW r \in Runs, Interrupt(r) PROVE VerdictInv'
  BY <1>8, <1>7 DEF Interrupt
<1>14. ASSUME NEW r \in Runs, NEW g \in Groups, MarkTailRaises(r, g) PROVE VerdictInv'
  BY <1>14, <1>7 DEF MarkTailRaises
<1>9. ASSUME NEW r \in Runs, Drained(r) PROVE VerdictInv'
  <2>1. /\ owner = r /\ UNCHANGED <<owner, opt, results, gateOk, overall, interrupted, fresh>>
        /\ pc[r] = "draining" /\ pc' = [pc EXCEPT ![r] = "emptied"]
    BY <1>9 DEF Drained
  <2> QED
    BY <1>0, <2>1, <1>gate DEF VerdictInv
<1>10. ASSUME NEW r \in Runs, Seal(r) \/ Kill(r) PROVE VerdictInv'
  BY <1>0, <1>10 DEF Seal, Kill, Gone, VerdictInv
<1>11. ASSUME NEW r \in Runs, NEW g \in Lanes, LaneStep(r, g) PROVE VerdictInv'
  BY <1>11, <1>same DEF LaneStep, NextUnit, SkipResumed, LaneOver, Launch, AttemptEnds, Finish, MarkTail
<1>12. ASSUME NEW r \in Runs, NEW g \in Groups, LaneRaises(r, g) PROVE VerdictInv'
  BY <1>12, <1>same DEF LaneRaises
<1>13. CASE \/ \E g \in Lanes : OrphanEnds(g)
            \/ \E u \in Units : Tamper(u)
            \/ EditScripts
            \/ UNCHANGED vars
  BY <1>13, <1>same DEF OrphanEnds, Tamper, EditScripts, vars
<1> QED
  BY <1>1, <1>2, <1>3, <1>3a, <1>4, <1>5, <1>6, <1>8, <1>9, <1>10, <1>11, <1>12, <1>13, <1>14
     DEF Next, MainStep

(* A PASS was earned when it was sealed, and nothing it rests on changes.  *)
LEMMA EarnedStep == IInv /\ VerdictInv /\ PassIsEarned /\ [Next]_vars => PassIsEarned'
<1> SUFFICES ASSUME IInv, VerdictInv, PassIsEarned, [Next]_vars,
                    NEW r \in Runs, manifest'[r].acc = "PASS"
             PROVE  /\ \A u \in Selected(r)' \cap Required : IsHealthy(manifest'[r].rows, u)
                    /\ \/ /\ manifest'[r].gate = "PASS"
                          /\ \A u \in Required \cap Sectors : IsHealthy(manifest'[r].rows, u)
                       \/ manifest'[r].gate = "BYPASSED" /\ opt'[r].ignore
                    /\ r \in fresh' \cup interrupted'
  BY DEF PassIsEarned
<1>1. CASE \E q \in Runs : Seal(q) /\ q = r
  <2>1. Seal(r) /\ opt' = opt /\ pc[r] \in {"sealing", "emptied"} /\ owner = r
        /\ UNCHANGED <<interrupted, fresh>>
    BY <1>1 DEF Seal
  <2>2. manifest'[r] = [acc |-> overall, gate |-> GateValue(r),
                        rows |-> IF pc[r] = "emptied" THEN NoRows ELSE results[r]]
    BY <2>1 DEF Seal, IInv, TypeOK
  <2>3. overall = "PASS"
    BY <2>2
  <2>4. pc[r] = "sealing" /\ Passes(r) /\ r \in fresh \cup interrupted /\ (gateOk => GateOk(r))
    BY <2>1, <2>3 DEF VerdictInv
  <2>5. manifest'[r].rows = results[r] /\ manifest'[r].gate = GateValue(r)
    BY <2>2, <2>4
  <2> QED
    BY <2>1, <2>4, <2>5 DEF Passes, GateOk, GateValue, Selected
<1>2. CASE manifest'[r] = manifest[r]
  <2>1. manifest[r].acc = "PASS"
    BY <1>2
  <2>2. pc[r] # "idle"
    BY <2>1 DEF IInv, ManifestInv
  <2>3. opt'[r] = opt[r]
    BY <2>2, OptStands
  <2>4. fresh \subseteq fresh' /\ interrupted \subseteq interrupted'
    <3> USE DEF lockVars, verdictVars, laneVars
    <3>1. ASSUME NEW q \in Runs, Start(q) \/ Acquire(q) \/ MainStep(q) \/ Interrupt(q) \/ Kill(q)
          PROVE  fresh \subseteq fresh' /\ interrupted \subseteq interrupted'
      BY <3>1 DEF Start, Acquire, MainStep, Interrupt, Kill, Reconcile, OpenManifest, Gate, JobsOver, Judge,
                  Freshness, Drained, Seal
    <3>2. ASSUME NEW q \in Runs, NEW g \in Lanes, LaneStep(q, g)
          PROVE  fresh \subseteq fresh' /\ interrupted \subseteq interrupted'
      BY <3>2 DEF LaneStep, NextUnit, SkipResumed, LaneOver, Launch, AttemptEnds, Finish, MarkTail
    <3>3. ASSUME NEW q \in Runs, NEW g \in Groups, LaneRaises(q, g) \/ MarkTailRaises(q, g)
          PROVE  fresh \subseteq fresh' /\ interrupted \subseteq interrupted'
      BY <3>3 DEF LaneRaises, MarkTailRaises
    <3>4. CASE \/ \E g \in Lanes : OrphanEnds(g)
               \/ \E u \in Units : Tamper(u)
               \/ EditScripts
               \/ UNCHANGED vars
      BY <3>4 DEF OrphanEnds, Tamper, EditScripts, vars
    <3> QED
      BY <3>1, <3>2, <3>3, <3>4 DEF Next
  <2> QED
    BY <1>2, <2>1, <2>3, <2>4 DEF PassIsEarned, Selected
<1>3. CASE manifest'[r] # manifest[r] /\ ~\E q \in Runs : Seal(q) /\ q = r
  <2> USE DEF lockVars, verdictVars, laneVars
  <2>check. ASSUME NEW q \in Runs, NEW u, NEW row, Checkpoint(q, u, row) PROVE FALSE
    BY <1>3, <2>check DEF Checkpoint, IInv, TypeOK
  <2>1. ASSUME NEW q \in Runs, NEW p \in Runs, Reconcile(q, p) PROVE FALSE
    BY <1>3, <2>1, ReconcileWrites DEF IInv
  <2>1a. ASSUME NEW q \in Runs, OpenManifest(q) PROVE FALSE
    BY <1>3, <2>1a, OpenWrites DEF IInv
  <2>2. ASSUME NEW q \in Runs, Seal(q) PROVE FALSE
    BY <1>3, <2>2 DEF Seal, IInv, TypeOK
  <2>3. ASSUME UNCHANGED manifest PROVE FALSE
    BY <1>3, <2>3
  <2>4. ASSUME NEW q \in Runs,
               \/ Start(q) \/ Acquire(q) \/ Gate(q) \/ JobsOver(q) \/ Judge(q) \/ Freshness(q)
               \/ Drained(q) \/ Interrupt(q) \/ Kill(q)
        PROVE FALSE
    BY <2>3, <2>4 DEF Start, Acquire, Gate, JobsOver, Judge, Freshness, Drained, Interrupt, Kill
  <2>5. ASSUME NEW q \in Runs, NEW g \in Lanes, LaneStep(q, g) PROVE FALSE
    BY <2>3, <2>5, <2>check DEF LaneStep, NextUnit, SkipResumed, LaneOver, Launch, AttemptEnds, Finish,
                                MarkTail
  <2>6. ASSUME NEW q \in Runs, NEW g \in Groups, LaneRaises(q, g) \/ MarkTailRaises(q, g) PROVE FALSE
    BY <2>3, <2>6 DEF LaneRaises, MarkTailRaises
  <2>7. CASE \/ \E g \in Lanes : OrphanEnds(g)
             \/ \E u \in Units : Tamper(u)
             \/ EditScripts
             \/ UNCHANGED vars
    BY <2>3, <2>7 DEF OrphanEnds, Tamper, EditScripts, vars
  <2> QED
    BY <2>1, <2>1a, <2>2, <2>4, <2>5, <2>6, <2>7 DEF Next, MainStep
<1> QED
  BY <1>1, <1>2, <1>3

LEMMA EarnedInit == Init => PassIsEarned
BY DEF Init, PassIsEarned, Absent

(* A sealed PASS was earned by the run's own results. *)
THEOREM PassesAreEarned == Spec => []PassIsEarned
<1>1. IInv /\ VerdictInv /\ PassIsEarned /\ [Next]_vars => (VerdictInv /\ PassIsEarned)'
  BY VerdictStep, EarnedStep
<1> QED
  BY <1>1, VerdictInit, EarnedInit, Invariance, PTL DEF Spec

(* Downstream jobs stay behind the Tier-0 gate. *)
THEOREM JobsStayBehindGate == Spec => []JobsBehindGate
<1>1. IInv /\ VerdictInv => JobsBehindGate
  <2> SUFFICES ASSUME IInv, VerdictInv, NEW r \in Runs, owner = r, lane[MainLane].st = "running"
               PROVE  opt[r].ignore \/ GateOk(r)
    BY DEF JobsBehindGate, GateOk
  <2>1. owner # 0 /\ MainLane \in Lanes
    BY RunAssumption DEF Runs, Lanes
  <2>2. pc[r] = "tier1"
    BY <2>1 DEF IInv, LaneInv, Busy, LaneOn
  <2> QED
    BY <2>2 DEF VerdictInv
<1> QED
  BY <1>1, VerdictInit, VerdictStep, Invariance, PTL DEF Spec

(* What a --resume run has loaded stands in the results of another run. *)
RecordsInv ==
    \A r \in Runs : \A rec \in records[r] : \E q \in Runs \ {r} :
        /\ rec.unit \in DOMAIN results[q]
        /\ results[q][rec.unit].status = "PASS"
        /\ results[q][rec.unit].sha = rec.sha /\ results[q][rec.unit].code = rec.code

LEMMA RecordsStep == IInv /\ RecordsInv /\ [Next]_vars => RecordsInv'
<1> SUFFICES ASSUME IInv, RecordsInv, [Next]_vars
             PROVE  RecordsInv'
  OBVIOUS
<1>grow. ResultsStand
  BY ResultsGrow
<1>less. ASSUME \A r \in Runs : records'[r] \subseteq records[r] PROVE RecordsInv'
  BY <1>less, <1>grow DEF RecordsInv, ResultsStand
<1>same. ASSUME UNCHANGED records PROVE RecordsInv'
  BY <1>same, <1>less
<1> USE DEF lockVars, verdictVars, laneVars
<1>1. ASSUME NEW r \in Runs, Start(r) PROVE RecordsInv'
  <2>1. records'[r] \subseteq PassRows /\ (\A q \in Runs \ {r} : records'[q] = records[q])
        /\ UNCHANGED <<results, manifest>> /\ pc[r] = "idle"
    BY <1>1 DEF Start, IInv, TypeOK
  <2>2. DOMAIN manifest[r].rows = {}
    BY <2>1 DEF IInv, ManifestInv
  <2>3. ASSUME NEW rec \in records'[r]
        PROVE  \E q \in Runs \ {r} :
                 /\ rec.unit \in DOMAIN results[q]
                 /\ results[q][rec.unit].status = "PASS"
                 /\ results[q][rec.unit].sha = rec.sha /\ results[q][rec.unit].code = rec.code
    <3>1. PICK q \in Runs : rec \in {[unit |-> u, sha |-> manifest[q].rows[u].sha,
                                      code |-> manifest[q].rows[u].code] :
               u \in {v \in DOMAIN manifest[q].rows : manifest[q].rows[v].status = "PASS"}}
      BY <2>1 DEF PassRows, PassRowsOf
    <3>2. PICK u \in DOMAIN manifest[q].rows :
             /\ manifest[q].rows[u].status = "PASS" /\ rec.unit = u
             /\ rec.sha = manifest[q].rows[u].sha /\ rec.code = manifest[q].rows[u].code
      BY <3>1
    <3> QED
      BY <2>2, <3>2 DEF IInv, RowsInv
  <2> QED
    BY <2>1, <2>3 DEF RecordsInv
<1>2. ASSUME NEW r \in Runs, Acquire(r) PROVE RecordsInv'
  <2>1. records' = records \/ records' = [records EXCEPT ![r] = {}]
    BY <1>2 DEF Acquire
  <2> QED
    BY <2>1, <1>less DEF IInv, TypeOK
<1>3. ASSUME NEW r \in Runs, Seal(r) \/ Kill(r) PROVE RecordsInv'
  <2>1. records' = [records EXCEPT ![r] = {}]
    BY <1>3 DEF Seal, Kill, Gone
  <2> QED
    BY <2>1, <1>less DEF IInv, TypeOK
<1>4. ASSUME NEW r \in Runs,
             \/ \E q \in Runs : Reconcile(r, q)
             \/ OpenManifest(r) \/ Gate(r) \/ JobsOver(r) \/ Judge(r) \/ Freshness(r) \/ Drained(r)
             \/ Interrupt(r)
      PROVE  RecordsInv'
  BY <1>4, <1>same DEF Reconcile, OpenManifest, Gate, JobsOver, Judge, Freshness, Drained, Interrupt
<1>5. ASSUME NEW r \in Runs, NEW g \in Lanes, LaneStep(r, g) PROVE RecordsInv'
  BY <1>5, <1>same DEF LaneStep, NextUnit, SkipResumed, LaneOver, Launch, AttemptEnds, Finish, MarkTail
<1>6. ASSUME NEW r \in Runs, NEW g \in Groups, LaneRaises(r, g) \/ MarkTailRaises(r, g) PROVE RecordsInv'
  BY <1>6, <1>same DEF LaneRaises, MarkTailRaises
<1>7. CASE \/ \E g \in Lanes : OrphanEnds(g)
           \/ \E u \in Units : Tamper(u)
           \/ EditScripts
           \/ UNCHANGED vars
  BY <1>7, <1>same DEF OrphanEnds, Tamper, EditScripts, vars
<1> QED
  BY <1>1, <1>2, <1>3, <1>4, <1>5, <1>6, <1>7 DEF Next, MainStep

LEMMA RecordsInit == Init => RecordsInv
BY DEF Init, RecordsInv

SkipStep ==
    \A r \in Runs : \A u \in DOMAIN results'[r] \ DOMAIN results[r] :
         results'[r][u].status = "SKIPPED_RESUME" =>
            \E q \in Runs \ {r} :
                /\ u \in DOMAIN results[q] /\ results[q][u].status = "PASS"
                /\ results[q][u].code = code /\ results[q][u].sha = artifact[u]

LEMMA SkipIsSoundStep == IInv /\ RecordsInv /\ [Next]_vars => SkipStep
<1> SUFFICES ASSUME IInv, RecordsInv, [Next]_vars PROVE SkipStep
  OBVIOUS
<1>same. ASSUME UNCHANGED results PROVE SkipStep
  BY <1>same DEF SkipStep
<1>add. ASSUME NEW r \in Runs, NEW u, NEW row, row.status # "SKIPPED_RESUME",
               results' = [results EXCEPT ![r] = WithRow(r, u, row)]
        PROVE  SkipStep
  BY <1>add DEF SkipStep, WithRow, IInv, TypeOK
<1> USE DEF lockVars, verdictVars, laneVars
<1>1. ASSUME NEW r \in Runs, NEW g \in Lanes, SkipResumed(r, g) PROVE SkipStep
  <2> DEFINE u == First(Todo(r, g))
             row == [status |-> "SKIPPED_RESUME", sha |-> artifact[u], code |-> code]
             rec == [unit |-> u, sha |-> artifact[u], code |-> code]
  <2>1. results' = [results EXCEPT ![r] = WithRow(r, u, row)] /\ rec \in records[r]
    BY <1>1 DEF SkipResumed, Checkpoint, ResumeMatch
  <2>2. PICK q \in Runs \ {r} :
          /\ rec.unit \in DOMAIN results[q] /\ results[q][rec.unit].status = "PASS"
          /\ results[q][rec.unit].sha = rec.sha /\ results[q][rec.unit].code = rec.code
    BY <2>1 DEF RecordsInv
  <2>3. /\ u \in DOMAIN results[q] /\ results[q][u].status = "PASS"
        /\ results[q][u].code = code /\ results[q][u].sha = artifact[u]
    BY <2>2
  <2>4. \A p \in Runs : \A v \in DOMAIN results'[p] \ DOMAIN results[p] : p = r /\ v = u
    BY <2>1 DEF WithRow, IInv, TypeOK
  <2> QED
    BY <2>3, <2>4 DEF SkipStep
<1>2. ASSUME NEW r \in Runs, NEW g \in Lanes, Finish(r, g) PROVE SkipStep
  <2>1. Outcome(g).status # "SKIPPED_RESUME"
    BY DEF Outcome, Failure
  <2> QED
    BY <1>2, <2>1, <1>add DEF Finish, Checkpoint
<1>3. ASSUME NEW r \in Runs, NEW g \in Groups, LaneRaises(r, g) PROVE SkipStep
  <2>1. Outcome(g).status # "SKIPPED_RESUME"
    BY DEF Outcome, Failure
  <2> QED
    BY <1>3, <2>1, <1>add, <1>same DEF LaneRaises
<1>4. ASSUME NEW r \in Runs, NEW g \in Lanes, MarkTail(r, g) PROVE SkipStep
  <2> DEFINE row(u) == [status |-> Failure(u), sha |-> "none", code |-> 0]
  <2>1. \A u : row(u).status # "SKIPPED_RESUME"
    BY DEF Failure
  <2> QED
    BY <1>4, <2>1, <1>add, <1>same DEF MarkTail, Checkpoint
<1>5. ASSUME NEW r \in Runs, Gate(r) PROVE SkipStep
  BY <1>5 DEF Gate, SkipStep, IInv, TypeOK
<1>6. ASSUME NEW r \in Runs,
             \/ \E q \in Runs : Reconcile(r, q)
             \/ Start(r) \/ Acquire(r) \/ OpenManifest(r) \/ JobsOver(r) \/ Judge(r) \/ Freshness(r)
             \/ Drained(r) \/ Seal(r) \/ Interrupt(r) \/ Kill(r)
      PROVE  SkipStep
  BY <1>6, <1>same DEF Start, Acquire, Reconcile, OpenManifest, JobsOver, Judge, Freshness, Drained, Seal,
                       Interrupt, Kill
<1>7. ASSUME NEW r \in Runs, NEW g \in Lanes,
             \/ NextUnit(r, g) \/ LaneOver(r, g) \/ Launch(r, g)
             \/ \E rc \in {"ok", "error", "stop"} : AttemptEnds(r, g, rc)
      PROVE  SkipStep
  BY <1>7, <1>same DEF NextUnit, LaneOver, Launch, AttemptEnds
<1>8. ASSUME NEW r \in Runs, NEW g \in Groups, MarkTailRaises(r, g) PROVE SkipStep
  BY <1>8, <1>same DEF MarkTailRaises
<1>9. CASE \/ \E g \in Lanes : OrphanEnds(g)
           \/ \E u \in Units : Tamper(u)
           \/ EditScripts
           \/ UNCHANGED vars
  BY <1>9, <1>same DEF OrphanEnds, Tamper, EditScripts, vars
<1> QED
  BY <1>1, <1>2, <1>3, <1>4, <1>5, <1>6, <1>7, <1>8, <1>9 DEF Next, LaneStep, MainStep

(* --resume skips only what another run passed under the present scripts,  *)
(* with its artifact unchanged.                                            *)
THEOREM SkipsAreSound == Spec => SkipIsSound
<1>1. IInv /\ RecordsInv /\ [Next]_vars => RecordsInv'
  BY RecordsStep
<1>2. IInv /\ RecordsInv /\ [Next]_vars => [SkipStep]_vars
  BY SkipIsSoundStep
<1>3. Spec => [][SkipStep]_vars
  BY <1>1, <1>2, RecordsInit, Invariance, PTL DEF Spec
<1>4. [SkipStep]_vars <=> [\A r \in Runs : \A u \in DOMAIN results'[r] \ DOMAIN results[r] :
         results'[r][u].status = "SKIPPED_RESUME" =>
            \E q \in Runs \ {r} :
                /\ u \in DOMAIN results[q] /\ results[q][u].status = "PASS"
                /\ results[q][u].code = code /\ results[q][u].sha = artifact[u]]_vars
  BY DEF SkipStep
<1> QED
  BY <1>3, <1>4, PTL DEF SkipIsSound

(* A PASS row was recorded over an artifact that verified. *)
ValidInv ==
    \A r \in Runs : \A u \in DOMAIN results[r] :
        results[r][u].status = "PASS" => results[r][u].sha \in Valid

(* A run that waits or executes has loaded the passes of every manifest    *)
(* that was settled when it was started, and those stay settled.           *)
Over == {"done", "dead"}
Loads(r, q) ==
    \A u \in DOMAIN manifest[q].rows : manifest[q].rows[u].status = "PASS" =>
        [unit |-> u, sha |-> manifest[q].rows[u].sha, code |-> manifest[q].rows[u].code] \in records[r]
AfterInv ==
    \A r \in Runs : pc[r] \in Active \cup {"loaded"} =>
        \A q \in opt[r].after : pc[q] \in Over /\ (opt[r].resume => Loads(r, q))

LEMMA ValidStep == IInv /\ ValidInv /\ [Next]_vars => ValidInv'
<1> SUFFICES ASSUME IInv, ValidInv, [Next]_vars PROVE ValidInv'
  OBVIOUS
<1>same. ASSUME UNCHANGED results PROVE ValidInv'
  BY <1>same DEF ValidInv
<1>add. ASSUME NEW r \in Runs, NEW u, NEW row, row.status = "PASS" => row.sha \in Valid,
               results' = [results EXCEPT ![r] = WithRow(r, u, row)]
        PROVE  ValidInv'
  BY <1>add DEF ValidInv, WithRow, IInv, TypeOK
<1>outcome. \A g : Outcome(g).status = "PASS" => Outcome(g).sha \in Valid
  BY DEF Outcome, Failure
<1> USE DEF lockVars, verdictVars, laneVars
<1>1. ASSUME NEW r \in Runs, NEW g \in Lanes, SkipResumed(r, g) PROVE ValidInv'
  <2> DEFINE u == First(Todo(r, g))
             row == [status |-> "SKIPPED_RESUME", sha |-> artifact[u], code |-> code]
  <2>1. results' = [results EXCEPT ![r] = WithRow(r, u, row)] /\ row.status # "PASS"
    BY <1>1 DEF SkipResumed, Checkpoint
  <2> QED
    BY <2>1, <1>add
<1>2. ASSUME NEW r \in Runs, NEW g \in Lanes, Finish(r, g) PROVE ValidInv'
  BY <1>2, <1>outcome, <1>add DEF Finish, Checkpoint
<1>3. ASSUME NEW r \in Runs, NEW g \in Groups, LaneRaises(r, g) PROVE ValidInv'
  BY <1>3, <1>outcome, <1>add, <1>same DEF LaneRaises
<1>4. ASSUME NEW r \in Runs, NEW g \in Lanes, MarkTail(r, g) PROVE ValidInv'
  <2> DEFINE row(u) == [status |-> Failure(u), sha |-> "none", code |-> 0]
  <2>1. \A u : row(u).status # "PASS"
    BY DEF Failure
  <2> QED
    BY <1>4, <2>1, <1>add, <1>same DEF MarkTail, Checkpoint
<1>5. ASSUME NEW r \in Runs, Gate(r) PROVE ValidInv'
  BY <1>5 DEF Gate, ValidInv, IInv, TypeOK
<1>6. ASSUME NEW r \in Runs,
             \/ \E q \in Runs : Reconcile(r, q)
             \/ Start(r) \/ Acquire(r) \/ OpenManifest(r) \/ JobsOver(r) \/ Judge(r) \/ Freshness(r)
             \/ Drained(r) \/ Seal(r) \/ Interrupt(r) \/ Kill(r)
      PROVE  ValidInv'
  BY <1>6, <1>same DEF Start, Acquire, Reconcile, OpenManifest, JobsOver, Judge, Freshness, Drained, Seal,
                       Interrupt, Kill
<1>7. ASSUME NEW r \in Runs, NEW g \in Lanes,
             \/ NextUnit(r, g) \/ LaneOver(r, g) \/ Launch(r, g)
             \/ \E rc \in {"ok", "error", "stop"} : AttemptEnds(r, g, rc)
      PROVE  ValidInv'
  BY <1>7, <1>same DEF NextUnit, LaneOver, Launch, AttemptEnds
<1>8. ASSUME NEW r \in Runs, NEW g \in Groups, MarkTailRaises(r, g) PROVE ValidInv'
  BY <1>8, <1>same DEF MarkTailRaises
<1>9. CASE \/ \E g \in Lanes : OrphanEnds(g)
           \/ \E u \in Units : Tamper(u)
           \/ EditScripts
           \/ UNCHANGED vars
  BY <1>9, <1>same DEF OrphanEnds, Tamper, EditScripts, vars
<1> QED
  BY <1>1, <1>2, <1>3, <1>4, <1>5, <1>6, <1>7, <1>8, <1>9 DEF Next, LaneStep, MainStep

LEMMA AfterStep == IInv /\ AfterInv /\ [Next]_vars => AfterInv'
<1> SUFFICES ASSUME IInv, AfterInv, [Next]_vars PROVE AfterInv'
  OBVIOUS
<1>0. /\ pc \in [Runs -> {"idle", "loaded", "locked", "tier0", "draining", "tier1",
                          "judge", "fresh", "sealing", "emptied", "done", "refused", "dead"}]
      /\ opt \in [Runs -> [resume : BOOLEAN, ignore : BOOLEAN, sel : SUBSET Units, after : SUBSET Runs]]
      /\ records \in [Runs -> SUBSET PassRecord]
  BY DEF IInv, TypeOK
<1>own. \A r \in Runs, g \in Lanes : LaneOn(r, g) => owner = r
  BY DEF LaneOn
(* What keeps: settled runs keep their rows, the others what they loaded.  *)
<1>keep. ASSUME \A q \in Runs : pc[q] \in Over =>
                   pc'[q] \in Over /\ manifest'[q].rows = manifest[q].rows,
                \A r \in Runs : pc'[r] \in Active \cup {"loaded"} =>
                   /\ pc[r] \in Active \cup {"loaded"}
                   /\ opt'[r] = opt[r] /\ records'[r] = records[r]
         PROVE  AfterInv'
  BY <1>0, <1>keep DEF AfterInv, Loads
<1>same. ASSUME UNCHANGED <<pc, opt, records, manifest>> PROVE AfterInv'
  BY <1>same, <1>keep
<1>check. ASSUME NEW r \in Runs, owner = r, NEW u, NEW row, Checkpoint(r, u, row),
                 UNCHANGED <<pc, opt, records>>
          PROVE  AfterInv'
  <2>1. pc[r] \notin Over
    BY <1>check DEF IInv, OwnerInv, Active, Over
  <2>2. \A q \in Runs \ {r} : manifest'[q] = manifest[q]
    BY <1>check DEF Checkpoint, IInv, TypeOK
  <2> QED
    BY <1>check, <2>1, <2>2, <1>keep
<1>move. ASSUME NEW r \in Runs, pc[r] \in Active, NEW s \in Active, pc' = [pc EXCEPT ![r] = s],
                UNCHANGED <<opt, records, manifest>>
         PROVE  AfterInv'
  BY <1>0, <1>move, <1>keep DEF Active, Over
<1>quit. ASSUME NEW r \in Runs, NEW s \in {"done", "dead", "refused"}, pc' = [pc EXCEPT ![r] = s],
                pc[r] \in Active \cup {"loaded"},
                \A q \in Runs \ {r} : records'[q] = records[q] /\ manifest'[q] = manifest[q],
                UNCHANGED opt
         PROVE  AfterInv'
  BY <1>0, <1>quit, <1>keep DEF Active, Over
<1>on. \A r \in Runs : pc[r] \in Active <=> owner = r
  BY DEF IInv, OwnerInv
<1> USE DEF lockVars, verdictVars, laneVars, Move
<1>1. ASSUME NEW r \in Runs, Start(r) PROVE AfterInv'
  <2>1. PICK line \in CommandLines :
          /\ opt' = [opt EXCEPT ![r] = [resume |-> line.resume, ignore |-> line.ignore, sel |-> line.sel,
                                        after |-> {q \in Runs : pc[q] \in {"done", "dead"}}]]
          /\ records' = [records EXCEPT ![r] = IF line.resume THEN PassRows ELSE {}]
    BY <1>1 DEF Start
  <2>2. pc[r] = "idle" /\ pc' = [pc EXCEPT ![r] = "loaded"] /\ UNCHANGED manifest
    BY <1>1 DEF Start
  <2>3. ASSUME NEW q \in Runs, line.resume PROVE Loads(r, q)'
    <3>1. records'[r] = PassRows
      BY <1>0, <2>1, <2>3
    <3> QED
      BY <2>2, <3>1 DEF Loads, PassRows, PassRowsOf
  <2>4. ASSUME NEW q \in opt'[r].after PROVE pc'[q] \in Over /\ (opt'[r].resume => Loads(r, q)')
    <3>1. q \in Runs /\ pc[q] \in Over /\ opt'[r].resume = line.resume
      BY <1>0, <2>1, <2>4 DEF Over
    <3> QED
      BY <1>0, <2>2, <2>3, <3>1 DEF Over
  <2>5. ASSUME NEW p \in Runs \ {r}, pc'[p] \in Active \cup {"loaded"}, NEW q \in opt'[p].after
        PROVE  pc'[q] \in Over /\ (opt'[p].resume => Loads(p, q)')
    <3>1. opt'[p] = opt[p] /\ records'[p] = records[p] /\ pc'[p] = pc[p] /\ q \in Runs
      BY <1>0, <2>1, <2>2, <2>5
    <3>2. pc[q] \in Over /\ (opt[p].resume => Loads(p, q))
      BY <2>5, <3>1 DEF AfterInv
    <3> QED
      BY <1>0, <2>2, <3>1, <3>2 DEF Loads, Over
  <2> QED
    BY <2>4, <2>5 DEF AfterInv
<1>2. ASSUME NEW r \in Runs, Acquire(r) PROVE AfterInv'
  <2>1. CASE owner' = r
    <3>1. records' = records /\ pc[r] = "loaded" /\ UNCHANGED <<opt, manifest>>
          /\ (pc' = [pc EXCEPT ![r] = "locked"] \/ pc' = [pc EXCEPT ![r] = "refused"])
      BY <1>2, <2>1 DEF Acquire
    <3> QED
      BY <1>0, <3>1, <1>keep DEF Active, Over
  <2>2. CASE owner' # r
    <3>1. records' = [records EXCEPT ![r] = {}] /\ pc[r] = "loaded" /\ UNCHANGED <<opt, manifest>>
          /\ pc' = [pc EXCEPT ![r] = "refused"]
      BY <1>2, <2>2 DEF Acquire
    <3> QED
      BY <1>0, <3>1, <1>quit
  <2> QED
    BY <2>1, <2>2
<1>3. ASSUME NEW r \in Runs, NEW q \in Runs, Reconcile(r, q) PROVE AfterInv'
  <2>1. UNCHANGED <<pc, opt, records>> /\ \A p \in Runs : manifest'[p].rows = manifest[p].rows
    BY <1>3, ReconcileWrites DEF Reconcile, IInv
  <2> QED
    BY <2>1, <1>keep
<1>3a. ASSUME NEW r \in Runs, OpenManifest(r) PROVE AfterInv'
  <2>1. /\ \A q \in Runs \ {r} : manifest'[q] = manifest[q]
        /\ pc[r] = "locked" /\ pc' = [pc EXCEPT ![r] = "tier0"] /\ UNCHANGED <<opt, records>>
    BY <1>3a, OpenWrites DEF OpenManifest, IInv
  <2> QED
    BY <1>0, <2>1, <1>keep DEF Active, Over
<1>4. ASSUME NEW r \in Runs, Gate(r) PROVE AfterInv'
  <2>1. pc[r] \in Active /\ UNCHANGED <<opt, records, manifest>>
        /\ \E s \in {"tier1", "judge"} : pc' = [pc EXCEPT ![r] = s]
    BY <1>4, <1>on DEF Gate
  <2> QED
    BY <2>1, <1>move DEF Active
<1>5. ASSUME NEW r \in Runs, JobsOver(r) \/ Judge(r) \/ Freshness(r) \/ Drained(r) PROVE AfterInv'
  <2>1. pc[r] \in Active /\ UNCHANGED <<opt, records, manifest>>
        /\ \E s \in {"judge", "fresh", "sealing", "emptied"} : pc' = [pc EXCEPT ![r] = s]
    BY <1>5, <1>on DEF JobsOver, Judge, Freshness, Drained
  <2> QED
    BY <2>1, <1>move DEF Active
<1>6. ASSUME NEW r \in Runs, Interrupt(r) PROVE AfterInv'
  <2>1. pc[r] \in Active /\ UNCHANGED <<opt, records, manifest>>
        /\ \E s \in {"draining", "sealing"} : pc' = [pc EXCEPT ![r] = s]
    BY <1>6, <1>on DEF Interrupt
  <2> QED
    BY <2>1, <1>move DEF Active
<1>7. ASSUME NEW r \in Runs, NEW g \in Groups, MarkTailRaises(r, g) PROVE AfterInv'
  <2>1. pc[r] \in Active /\ UNCHANGED <<opt, records, manifest>>
        /\ pc' = [pc EXCEPT ![r] = "draining"]
    BY <1>7, <1>on DEF MarkTailRaises
  <2> QED
    BY <2>1, <1>move DEF Active
<1>8. ASSUME NEW r \in Runs, Seal(r) \/ Kill(r) PROVE AfterInv'
  <2>1. pc[r] \in Active
    BY <1>8, <1>on DEF Seal, Kill
  <2>2. \A q \in Runs \ {r} : records'[q] = records[q] /\ manifest'[q] = manifest[q]
    BY <1>8 DEF Seal, Kill, Gone, IInv, TypeOK
  <2>3. UNCHANGED opt /\ \E s \in {"done", "dead"} : pc' = [pc EXCEPT ![r] = s]
    BY <1>8 DEF Seal, Kill
  <2> QED
    BY <2>1, <2>2, <2>3, <1>quit
<1>9. ASSUME NEW r \in Runs, NEW g \in Lanes, SkipResumed(r, g) \/ Finish(r, g) PROVE AfterInv'
  BY <1>9, <1>own, <1>check DEF SkipResumed, Finish
<1>10. ASSUME NEW r \in Runs, NEW g \in Lanes, MarkTail(r, g) PROVE AfterInv'
  <2>1. CASE Todo(r, g) = {}
    BY <1>10, <2>1, <1>same DEF MarkTail
  <2>2. CASE Todo(r, g) # {}
    BY <1>10, <2>2, <1>check DEF MarkTail
  <2> QED
    BY <2>1, <2>2
<1>11. ASSUME NEW r \in Runs, NEW g \in Lanes,
              \/ NextUnit(r, g) \/ LaneOver(r, g) \/ Launch(r, g)
              \/ \E rc \in {"ok", "error", "stop"} : AttemptEnds(r, g, rc)
       PROVE  AfterInv'
  BY <1>11, <1>same DEF NextUnit, LaneOver, Launch, AttemptEnds
<1>12. CASE \/ \E r \in Runs, g \in Groups : LaneRaises(r, g)
            \/ \E g \in Lanes : OrphanEnds(g)
            \/ \E u \in Units : Tamper(u)
            \/ EditScripts
            \/ UNCHANGED vars
  BY <1>12, <1>same DEF LaneRaises, OrphanEnds, Tamper, EditScripts, vars
<1> QED
  BY <1>1, <1>2, <1>3, <1>3a, <1>4, <1>5, <1>6, <1>7, <1>8, <1>9, <1>10, <1>11, <1>12
     DEF Next, LaneStep, MainStep

Recovers ==
    \A r \in Runs, g \in Groups :
         (owner = r /\ opt[r].resume /\ lane[g].st = "pick" /\ lane'[g].st = "queued") =>
            ~ \E q \in opt[r].after :
                /\ lane'[g].unit \in DOMAIN manifest[q].rows
                /\ manifest[q].rows[lane'[g].unit] =
                     [status |-> "PASS", sha |-> artifact[lane'[g].unit], code |-> code]

LEMMA RecoversStep == IInv /\ ValidInv /\ AfterInv /\ [Next]_vars => Recovers
<1> SUFFICES ASSUME IInv, ValidInv, AfterInv, [Next]_vars, NEW r \in Runs, NEW g \in Groups,
                    owner = r, opt[r].resume, lane[g].st = "pick", lane'[g].st = "queued",
                    NEW q \in opt[r].after, lane'[g].unit \in DOMAIN manifest[q].rows,
                    manifest[q].rows[lane'[g].unit] =
                       [status |-> "PASS", sha |-> artifact[lane'[g].unit], code |-> code]
             PROVE  FALSE
  BY DEF Recovers
<1>0. g \in Lanes /\ g # MainLane /\ lane \in [Lanes -> LaneStates] /\ q \in Runs
  BY RunAssumption DEF Lanes, IInv, TypeOK
<1>1. NextUnit(r, g)
  <2> USE <1>0 DEF lockVars, verdictVars, laneVars
  <2>same. lane' # lane
    OBVIOUS
  <2>1. ASSUME NEW p \in Runs,
               \/ Start(p) \/ Acquire(p) \/ Gate(p) \/ JobsOver(p) \/ Judge(p) \/ Freshness(p)
               \/ Drained(p) \/ Seal(p)
        PROVE  FALSE
    BY <2>1, <2>same DEF Start, Acquire, Gate, JobsOver, Judge, Freshness, Drained, Seal
  <2>2. ASSUME NEW p \in Runs, OpenManifest(p) PROVE FALSE
    BY <2>2 DEF OpenManifest, Idle
  <2>2a. ASSUME NEW p \in Runs, NEW o \in Runs, Reconcile(p, o) PROVE FALSE
    BY <2>2a, <2>same DEF Reconcile
  <2>3. ASSUME NEW p \in Runs, Interrupt(p) \/ Kill(p) PROVE FALSE
    BY <2>3 DEF Interrupt, Kill, Idle
  <2>4. ASSUME NEW p \in Runs, NEW h \in Lanes, NextUnit(p, h) PROVE NextUnit(r, g)
    <3>1. h = g /\ owner = p
      BY <2>4 DEF NextUnit, SetLane, LaneOn
    <3> QED
      BY <2>4, <3>1
  <2>5. ASSUME NEW p \in Runs, NEW h \in Lanes, LaneOver(p, h) \/ Launch(p, h) PROVE FALSE
    BY <2>5 DEF LaneOver, Launch, SetLane, Idle, Work, LaneStates
  <2>6. ASSUME NEW p \in Runs, NEW h \in Lanes, NEW rc \in {"ok", "error", "stop"}, AttemptEnds(p, h, rc)
        PROVE  FALSE
    <3>1. \E w : lane' = [lane EXCEPT ![h] = w]
      BY <2>6, AttemptWork DEF IInv, SetLane
    <3>2. lane[h].st = "running"
      BY <2>6 DEF AttemptEnds
    <3> QED
      BY <3>1, <3>2
  <2>7. ASSUME NEW p \in Runs, NEW h \in Lanes, SkipResumed(p, h) \/ Finish(p, h) PROVE FALSE
    BY <2>7, <2>same DEF SkipResumed, Finish, SetLane, Idle
  <2>8. ASSUME NEW p \in Runs, NEW h \in Lanes, MarkTail(p, h) PROVE FALSE
    BY <2>8, <2>same DEF MarkTail, SetLane, Idle
  <2>9. ASSUME NEW p \in Runs, NEW h \in Groups, LaneRaises(p, h) \/ MarkTailRaises(p, h) PROVE FALSE
    BY <2>9, <2>same DEF LaneRaises, MarkTailRaises, SetLane, Idle
  <2>10. ASSUME NEW h \in Lanes, OrphanEnds(h) PROVE FALSE
    BY <2>10 DEF OrphanEnds, SetLane, Idle
  <2>11. CASE (\E u \in Units : Tamper(u)) \/ EditScripts \/ UNCHANGED vars
    BY <2>11, <2>same DEF Tamper, EditScripts, vars
  <2> QED
    BY <2>1, <2>2, <2>2a, <2>3, <2>4, <2>5, <2>6, <2>7, <2>8, <2>9, <2>10, <2>11 DEF Next, LaneStep, MainStep
<1> DEFINE u == First(Todo(r, g))
<1>2. u \in Todo(r, g) /\ u \in Units /\ ~(u \in Sectors /\ ResumeMatch(r, u)) /\ lane'[g].unit = u
  BY <1>0, <1>1, NextTodo DEF NextUnit, SetLane, IInv
<1>3. u \in Sectors
  BY <1>0, <1>2, RunAssumption DEF Todo, Units
<1>4. pc[r] \in Active
  BY DEF IInv, OwnerInv
<1>5. [unit |-> u, sha |-> artifact[u], code |-> code] \in records[r]
  BY <1>2, <1>4 DEF AfterInv, Loads
<1>6. artifact[u] \in Valid
  <2>1. manifest[q].rows[u].status = "PASS" /\ manifest[q].rows[u].sha = artifact[u]
    BY <1>2
  <2>2. u \in DOMAIN results[q] /\ results[q][u] = manifest[q].rows[u]
    BY <1>0, <1>2 DEF IInv, RowsInv
  <2> QED
    BY <1>0, <2>1, <2>2 DEF ValidInv
<1> QED
  BY <1>2, <1>3, <1>5, <1>6 DEF ResumeMatch

LEMMA AfterInit == Init => ValidInv /\ AfterInv
BY DEF Init, ValidInv, AfterInv, Active, NoRows

(* A --resume run runs no sector again that a settled run has checkpointed *)
(* as PASS, with scripts and artifact intact.                              *)
THEOREM ResumesRecover == Spec => ResumeRecovers
<1>1. IInv /\ ValidInv /\ AfterInv /\ [Next]_vars => (ValidInv /\ AfterInv)' /\ [Recovers]_vars
  BY ValidStep, AfterStep, RecoversStep
<1>2. Spec => [][Recovers]_vars
  BY <1>1, AfterInit, Invariance, PTL DEF Spec
<1>3. [Recovers]_vars <=> [\A r \in Runs, g \in Groups :
         (owner = r /\ opt[r].resume /\ lane[g].st = "pick" /\ lane'[g].st = "queued") =>
            ~ \E q \in opt[r].after :
                /\ lane'[g].unit \in DOMAIN manifest[q].rows
                /\ manifest[q].rows[lane'[g].unit] =
                     [status |-> "PASS", sha |-> artifact[lane'[g].unit], code |-> code]]_vars
  BY DEF Recovers
<1> QED
  BY <1>2, <1>3, PTL DEF ResumeRecovers
=============================================================================
