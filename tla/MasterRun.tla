------------------------------ MODULE MasterRun ------------------------------
(***************************************************************************)
(* The cross-sector master, orchestration/run_all.py, in daily mode: one   *)
(* lane of Tier-0 sectors per database group, a semaphore on network       *)
(* lanes, retries, the manifest that is checkpointed after every sector,   *)
(* the Tier-0 gate, the Tier-1 jobs, the freshness sentinel and the seal;  *)
(* and what later masters do with the manifests of masters that died:      *)
(* reconciliation to ABORTED and --resume.                                 *)
(*                                                                         *)
(* A run is one master process.  The lock is the one OrchestrationLock     *)
(* models, here granted when its owner is gone and no child of it runs.    *)
(* "Faults" are an operator's Ctrl+C, a killed process, an exception that  *)
(* escapes a lane, a manifest that cannot be written, an artifact changed  *)
(* by someone else and an edited script; MaxFaults bounds their number.    *)
(***************************************************************************)
EXTENDS Naturals, FiniteSets

CONSTANTS
    MaxRuns,      \* masters started
    Sectors,      \* the Tier-0 sectors of the registry
    Jobs,         \* the Tier-1 downstream jobs
    Groups,       \* the database groups, one lane each
    MainLane,     \* the main thread, which runs the Tier-1 jobs one by one
    Lane,         \* the database group of a sector, MainLane for a job
    Rank,         \* the position of a sector in group_order, of a job in the registry
    Required,     \* the required sectors and jobs
    Network,      \* those that fetch from the network
    NetLanes,     \* max_concurrent_network_lanes
    Posts,        \* sectors with a daily post step after the entry command
    CommandLines, \* the --resume, --ignore-gate and sector selections masters are started with
    Published,    \* what an entry command may publish, of Contents
    Probed,       \* sectors with a required freshness probe
    MaxAttempts,  \* retries + 1
    MaxFaults

Units == Sectors \cup Jobs
Lanes == Groups \cup {MainLane}
Runs == 1 .. MaxRuns

ASSUME RunAssumption ==
    /\ MaxRuns \in Nat /\ NetLanes \in Nat \ {0} /\ MaxAttempts \in Nat \ {0} /\ MaxFaults \in Nat
    /\ Sectors \cap Jobs = {} /\ MainLane \notin Groups /\ IsFiniteSet(Groups)
    /\ Lane \in [Units -> Lanes] /\ \A u \in Units : Lane[u] = MainLane <=> u \in Jobs
    /\ Rank \in [Units -> Nat]
    /\ \A u, v \in Units : Lane[u] = Lane[v] /\ Rank[u] = Rank[v] => u = v
    /\ Required \subseteq Units /\ Network \subseteq Units /\ Posts \subseteq Units
    /\ Probed \subseteq Units
    /\ CommandLines \subseteq [resume : BOOLEAN, ignore : BOOLEAN, sel : SUBSET Units]
    /\ Published \subseteq {"v1", "v2", "bad"}

VARIABLES
    pc,           \* how far each run is
    owner,        \* the run that owns the orchestration lock, 0 when none
    opt,          \* each run's command line, and the runs that were over when it was started
    records,      \* the PASS rows a --resume run has loaded
    results,      \* each run's results so far, unit by unit
    interrupted,  \* the runs that were interrupted or raised
    gateOk,       \* the Tier-0 gate's outcome in the run that owns the lock
    overall,      \* its acceptance as computed so far
    fresh,        \* the runs that evaluated freshness, with no blocking required probe
    manifest,     \* each run's master_manifest.json
    lane,         \* what each lane is doing
    sem,          \* free network slots
    artifact,     \* what is published for the target date
    code,         \* the version of the scripts and the registry
    faults

lockVars == <<owner, opt, records>>
verdictVars == <<gateOk, overall, fresh>>
laneVars == <<lane, sem, artifact>>
vars == <<pc, lockVars, results, interrupted, verdictVars, manifest, laneVars, code, faults>>

Valid == {"v1", "v2"}                  \* artifacts that verify, told apart by their hash
Contents == Valid \cup {"none", "bad"}
Healthy == {"PASS", "SKIPPED_RESUME"}  \* the HEALTHY_STATES a daily run can reach
Statuses == Healthy \cup {"FAIL", "OPTIONAL_FAIL", "SKIPPED_GATE", "UNKNOWN"}
Codes == 0 .. MaxFaults + 1
Row == [status : Statuses, sha : Contents, code : Codes]
IsRows(f) == DOMAIN f \subseteq Units /\ f \in [DOMAIN f -> Row]
NoRows == [u \in {} |-> 0]
Manifest(f) == [acc : {"absent", "RUNNING", "PASS", "FAIL", "ABORTED"},
                gate : {"RUNNING", "PASS", "BYPASSED", "FAIL"}, rows : {f}]
PassRecord == [unit : Units, sha : Contents, code : Codes]
Absent == [acc |-> "absent", gate |-> "RUNNING", rows |-> NoRows]
NoWork == "-"
Idle == [st |-> "pick", unit |-> NoWork, cmd |-> 0, try |-> 0, code |-> 0]
LaneStates == [st : {"pick", "queued", "running", "ok", "failed", "raised", "over"},
               unit : Units \cup {NoWork}, cmd : 0 .. 2, try : 0 .. MaxAttempts, code : Codes]

TypeOK ==
    /\ pc \in [Runs -> {"idle", "loaded", "locked", "tier0", "draining", "tier1", "judge",
                        "fresh", "sealing", "emptied", "done", "refused", "dead"}]
    /\ owner \in 0 .. MaxRuns
    /\ opt \in [Runs -> [resume : BOOLEAN, ignore : BOOLEAN, sel : SUBSET Units, after : SUBSET Runs]]
    /\ records \in [Runs -> SUBSET PassRecord]
    /\ results = [r \in Runs |-> results[r]] /\ \A r \in Runs : IsRows(results[r])
    /\ manifest = [r \in Runs |-> manifest[r]]
    /\ \A r \in Runs : IsRows(manifest[r].rows) /\ manifest[r] \in Manifest(manifest[r].rows)
    /\ interrupted \in SUBSET Runs /\ fresh \in SUBSET Runs
    /\ gateOk \in BOOLEAN
    /\ overall \in {"PASS", "FAIL"}
    /\ lane \in [Lanes -> LaneStates]
    /\ sem \in 0 .. NetLanes
    /\ artifact \in [Units -> Contents]
    /\ code \in Codes \ {0}
    /\ faults \in 0 .. MaxFaults

Init ==
    /\ pc = [r \in Runs |-> "idle"]
    /\ owner = 0
    /\ opt = [r \in Runs |-> [resume |-> FALSE, ignore |-> FALSE, sel |-> {}, after |-> {}]]
    /\ records = [r \in Runs |-> {}]
    /\ results = [r \in Runs |-> NoRows]
    /\ interrupted = {} /\ fresh = {}
    /\ gateOk = FALSE
    /\ overall = "FAIL"
    /\ manifest = [r \in Runs |-> Absent]
    /\ lane = [g \in Lanes |-> [Idle EXCEPT !.st = "over"]]
    /\ sem = NetLanes
    /\ artifact = [u \in Units |-> "none"]
    /\ code = 1
    /\ faults = 0

Move(r, s) == pc' = [pc EXCEPT ![r] = s]
Fault == faults < MaxFaults /\ faults' = faults + 1
IsHealthy(rows, u) == u \in DOMAIN rows /\ rows[u].status \in Healthy

-----------------------------------------------------------------------------
(* Starting up *)

PassRowsOf(S) ==
    UNION {{[unit |-> u, sha |-> manifest[q].rows[u].sha, code |-> manifest[q].rows[u].code] :
              u \in {v \in DOMAIN manifest[q].rows : manifest[q].rows[v].status = "PASS"}} :
           q \in S}

(* Rows of every manifest that parses count, whatever their acceptance.    *)
PassRows_OfSealedRuns == PassRowsOf({q \in Runs : manifest[q].acc = "PASS"})
PassRows == PassRowsOf(Runs)

(* The resume records are loaded before the lock is taken. *)
Start(r) ==
    /\ pc[r] = "idle" /\ \A q \in 1 .. r - 1 : pc[q] # "idle"
    /\ \E line \in CommandLines :
        /\ opt' = [opt EXCEPT ![r] = [resume |-> line.resume, ignore |-> line.ignore, sel |-> line.sel,
                                      after |-> {q \in Runs : pc[q] \in {"done", "dead"}}]]
        /\ records' = [records EXCEPT ![r] = IF line.resume THEN PassRows ELSE {}]
    /\ Move(r, "loaded")
    /\ UNCHANGED <<owner, results, interrupted, verdictVars, manifest, laneVars, code, faults>>

(* A live owner, or a live child of a dead one, keeps the lock. *)
Acquire(r) ==
    /\ pc[r] = "loaded"
    /\ IF owner = 0 /\ \A g \in Lanes : lane[g].st # "running"
         THEN owner' = r /\ Move(r, "locked")
         ELSE owner' = owner /\ Move(r, "refused")
    /\ records' = IF owner' = r THEN records ELSE [records EXCEPT ![r] = {}]
    /\ UNCHANGED <<opt, results, interrupted, verdictVars, manifest, laneVars, code,
                   faults>>

Abandoned_AnyState(q) == manifest[q].acc # "absent"
Abandoned(q) == manifest[q].acc = "RUNNING" /\ pc[q] = "dead"

(* Under the lock the manifests of dead masters are closed one by one,     *)
(* rows kept.  A probe that cannot tell whether a master lives, or a       *)
(* manifest that cannot be read, leaves one RUNNING: the sweep may pass    *)
(* any of them by.                                                         *)
Reconcile(r, q) ==
    /\ pc[r] = "locked" /\ Abandoned(q)
    /\ manifest' = [manifest EXCEPT ![q].acc = "ABORTED", ![q].gate = "FAIL"]
    /\ UNCHANGED <<pc, lockVars, results, interrupted, verdictVars, laneVars, code, faults>>

(* Then the run's own manifest is written and its lanes start. *)
OpenManifest(r) ==
    /\ pc[r] = "locked"
    /\ manifest' = [manifest EXCEPT ![r] = [Absent EXCEPT !.acc = "RUNNING"]]
    /\ lane' = [g \in Lanes |-> Idle]
    /\ Move(r, "tier0")
    /\ UNCHANGED <<lockVars, results, interrupted, verdictVars, sem, artifact, code, faults>>

-----------------------------------------------------------------------------
(* Lanes: the Tier-0 sectors of a group in order, the Tier-1 jobs in order *)

Selected(r) == opt[r].sel
Todo(r, g) == {u \in Selected(r) : Lane[u] = g /\ u \notin DOMAIN results[r]}
First(S) == CHOOSE u \in S : \A v \in S : Rank[u] <= Rank[v]

LanesActive(r) == pc[r] \in {"tier0", "draining"}
LaneOn(r, g) == owner = r /\ IF g = MainLane THEN pc[r] = "tier1" ELSE LanesActive(r)

WithRow(r, u, row) == [v \in DOMAIN results[r] \cup {u} |-> IF v = u THEN row ELSE results[r][v]]

GateValue(r) == IF gateOk THEN "PASS" ELSE IF opt[r].ignore THEN "BYPASSED" ELSE "FAIL"

(* record_progress, and the same write after a Tier-1 job. *)
Checkpoint(r, u, row) ==
    /\ results' = [results EXCEPT ![r] = WithRow(r, u, row)]
    /\ manifest' = [manifest EXCEPT ![r] =
         [acc |-> "RUNNING",
          gate |-> IF u \in Jobs THEN GateValue(r) ELSE "RUNNING",
          rows |-> WithRow(r, u, row)]]

SetLane(g, w) == lane' = [lane EXCEPT ![g] = w]
Work(g, st, cmd, try) == [lane[g] EXCEPT !.st = st, !.cmd = cmd, !.try = try]

ResumeMatch_AnyScripts(r, u) ==
    /\ \E rec \in records[r] : rec.unit = u /\ rec.sha = artifact[u]
    /\ artifact[u] \in Valid

(* A prior PASS with the same commands and scripts, whose artifact is      *)
(* still there with the same hash and still verifies.                      *)
ResumeMatch(r, u) ==
    /\ [unit |-> u, sha |-> artifact[u], code |-> code] \in records[r]
    /\ artifact[u] \in Valid

NextUnit(r, g) ==
    /\ LaneOn(r, g) /\ lane[g].st = "pick" /\ Todo(r, g) # {}
    /\ LET u == First(Todo(r, g)) IN
         /\ ~(u \in Sectors /\ ResumeMatch(r, u))
         /\ SetLane(g, [st |-> "queued", unit |-> u, cmd |-> 1, try |-> 1, code |-> code])
    /\ UNCHANGED <<pc, lockVars, results, interrupted, verdictVars, manifest, sem, artifact,
                   code, faults>>

SkipResumed(r, g) ==
    /\ LaneOn(r, g) /\ lane[g].st = "pick" /\ Todo(r, g) # {}
    /\ LET u == First(Todo(r, g)) IN
         /\ u \in Sectors /\ ResumeMatch(r, u)
         /\ Checkpoint(r, u, [status |-> "SKIPPED_RESUME", sha |-> artifact[u], code |-> code])
    /\ UNCHANGED <<pc, lockVars, interrupted, verdictVars, laneVars, code, faults>>

LaneOver(r, g) ==
    /\ LaneOn(r, g) /\ lane[g].st = "pick" /\ Todo(r, g) = {}
    /\ SetLane(g, [Idle EXCEPT !.st = "over"])
    /\ UNCHANGED <<pc, lockVars, results, interrupted, verdictVars, manifest, sem, artifact,
                   code, faults>>

(* An attempt of a network sector holds a network slot from launch to end. *)
TakeSlot_NoWait(u) == sem' = IF u \in Network THEN sem - 1 ELSE sem
TakeSlot(u) == IF u \in Network THEN sem > 0 /\ sem' = sem - 1 ELSE sem' = sem

GiveSlot_OnSuccess(u, rc) == sem' = IF u \in Network /\ rc = "ok" THEN sem + 1 ELSE sem
GiveSlot(u, rc) == sem' = IF u \in Network THEN sem + 1 ELSE sem

Launch(r, g) ==
    /\ LaneOn(r, g) /\ lane[g].st = "queued"
    /\ TakeSlot(lane[g].unit)
    /\ SetLane(g, Work(g, "running", lane[g].cmd, lane[g].try))
    /\ UNCHANGED <<pc, lockVars, results, interrupted, verdictVars, manifest, artifact, code,
                   faults>>

Commands(u) == IF u \in Posts THEN 2 ELSE 1

(* The entry command may write the artifact, whether it succeeds or not. *)
Publishes(g) ==
    \E c \in (IF lane[g].cmd = 1 THEN Published ELSE {}) \cup {artifact[lane[g].unit]} :
        artifact' = [artifact EXCEPT ![lane[g].unit] = c]

(* _run_one: return code 0 moves on to the next command, 78 and 124 (a     *)
(* timeout) end the sector, any other failure is retried.                  *)
AttemptEnds(r, g, rc) ==
    /\ LaneOn(r, g) /\ lane[g].st = "running"
    /\ GiveSlot(lane[g].unit, rc)
    /\ Publishes(g)
    /\ LET w == lane[g] IN
         SetLane(g, CASE rc = "ok" /\ w.cmd < Commands(w.unit) -> Work(g, "queued", w.cmd + 1, 1)
                      [] rc = "ok" /\ w.cmd = Commands(w.unit) -> Work(g, "ok", w.cmd, w.try)
                      [] rc = "error" /\ w.try < MaxAttempts   -> Work(g, "queued", w.cmd, w.try + 1)
                      [] OTHER                                 -> Work(g, "failed", w.cmd, w.try))
    /\ UNCHANGED <<pc, lockVars, results, interrupted, verdictVars, manifest, code, faults>>

Failure(u) == IF u \in Required THEN "FAIL" ELSE "OPTIONAL_FAIL"

(* The row of a unit that ran: a daily PASS must verify as published. *)
Outcome(g) ==
    LET u == lane[g].unit
        ok == lane[g].st = "ok" /\ artifact[u] \in Valid
    IN  [status |-> IF ok THEN "PASS" ELSE Failure(u), sha |-> artifact[u], code |-> lane[g].code]

Finish(r, g) ==
    /\ LaneOn(r, g) /\ lane[g].st \in {"ok", "failed"}
    /\ Checkpoint(r, lane[g].unit, Outcome(g))
    /\ SetLane(g, Idle)
    /\ UNCHANGED <<pc, lockVars, interrupted, verdictVars, sem, artifact, code, faults>>

(* An exception escapes the lane, before the result was recorded or, when  *)
(* the manifest cannot be written, after.                                  *)
LaneRaises(r, g) ==
    /\ LaneOn(r, g) /\ g # MainLane /\ lane[g].st \in {"ok", "failed"}
    /\ Fault
    /\ \/ UNCHANGED results
       \/ results' = [results EXCEPT ![r] = WithRow(r, lane[g].unit, Outcome(g))]
    /\ SetLane(g, [Idle EXCEPT !.st = "raised"])
    /\ UNCHANGED <<pc, lockVars, interrupted, verdictVars, manifest, sem, artifact, code>>

(* as_completed marks the sectors such a lane has no result for. *)
MarkTail(r, g) ==
    /\ owner = r /\ pc[r] = "tier0" /\ lane[g].st = "raised"
    /\ IF Todo(r, g) = {}
         THEN SetLane(g, [Idle EXCEPT !.st = "over"]) /\ UNCHANGED <<results, manifest>>
         ELSE LET u == First(Todo(r, g)) IN
                /\ Checkpoint(r, u, [status |-> Failure(u), sha |-> "none", code |-> 0])
                /\ UNCHANGED lane
    /\ UNCHANGED <<pc, lockVars, interrupted, verdictVars, sem, artifact, code, faults>>

(* The same, but the manifest cannot be written: run_tier0 raises. *)
MarkTailRaises(r, g) ==
    /\ owner = r /\ pc[r] = "tier0" /\ lane[g].st = "raised" /\ Todo(r, g) # {}
    /\ Fault
    /\ interrupted' = interrupted \cup {r}
    /\ Move(r, "draining")
    /\ UNCHANGED <<lockVars, results, verdictVars, manifest, laneVars, code>>

-----------------------------------------------------------------------------
(* The main thread *)

Tier0Over == \A g \in Groups : lane[g].st = "over"

GateOk(r) == \A u \in Required \cap Sectors : IsHealthy(results[r], u)

(* tier0_gate over every required sector of the registry; those that were  *)
(* not selected are recorded as UNKNOWN.  Behind a closed gate the jobs    *)
(* are skipped.                                                            *)
Gate(r) ==
    /\ owner = r /\ pc[r] = "tier0" /\ Tier0Over
    /\ LET ok == GateOk(r)
           unknown == (Required \cap Sectors) \ (DOMAIN results[r] \cup Selected(r))
           skipped == IF ok \/ opt[r].ignore THEN {} ELSE Selected(r) \cap Jobs
       IN  /\ gateOk' = ok
           /\ results' = [results EXCEPT ![r] =
                [u \in DOMAIN results[r] \cup unknown \cup skipped |->
                   IF u \in DOMAIN results[r] THEN results[r][u]
                   ELSE [status |-> IF u \in unknown THEN "UNKNOWN" ELSE "SKIPPED_GATE",
                         sha |-> "none", code |-> 0]]]
           /\ Move(r, IF ok \/ opt[r].ignore THEN "tier1" ELSE "judge")
    /\ UNCHANGED <<lockVars, interrupted, overall, fresh, manifest, laneVars, code, faults>>

JobsOver(r) ==
    /\ owner = r /\ pc[r] = "tier1" /\ lane[MainLane].st = "over"
    /\ Move(r, "judge")
    /\ UNCHANGED <<lockVars, results, interrupted, verdictVars, manifest, laneVars, code, faults>>

(* compute_overall *)
Passes_Gate(r) == gateOk \/ opt[r].ignore
Passes(r) ==
    /\ gateOk \/ opt[r].ignore
    /\ Selected(r) \subseteq DOMAIN results[r]
    /\ \A u \in Selected(r) \cap Required : IsHealthy(results[r], u)

Judge(r) ==
    /\ owner = r /\ pc[r] = "judge"
    /\ overall' = IF Passes(r) THEN "PASS" ELSE "FAIL"
    /\ Move(r, "fresh")
    /\ UNCHANGED <<lockVars, results, interrupted, gateOk, fresh, manifest, laneVars, code,
                   faults>>

(* A stale or unreadable required probe of a selected sector fails the run. *)
Freshness(r) ==
    /\ owner = r /\ pc[r] = "fresh"
    /\ \E stale \in SUBSET Probed :
         IF stale \cap Selected(r) # {}
           THEN overall' = "FAIL" /\ UNCHANGED fresh
           ELSE fresh' = fresh \cup {r} /\ UNCHANGED overall
    /\ Move(r, "sealing")
    /\ UNCHANGED <<lockVars, results, interrupted, gateOk, manifest, laneVars, code, faults>>

(* Ctrl+C, or an exception in the main thread.  During Tier 0 the pool     *)
(* still waits for its lanes; a running job is terminated.                 *)
Interrupt(r) ==
    /\ owner = r /\ pc[r] \in {"tier0", "tier1", "fresh"}
    /\ Fault
    /\ interrupted' = interrupted \cup {r}
    /\ Move(r, IF pc[r] = "tier0" THEN "draining" ELSE "sealing")
    /\ lane' = IF pc[r] = "tier1" THEN [lane EXCEPT ![MainLane] = [Idle EXCEPT !.st = "over"]]
                                  ELSE lane
    /\ sem' = IF pc[r] = "tier1" THEN NetLanes ELSE sem
    /\ UNCHANGED <<lockVars, results, verdictVars, manifest, artifact, code>>

Drained(r) ==
    /\ owner = r /\ pc[r] = "draining"
    /\ \A g \in Groups : lane[g].st \in {"over", "raised"}
    /\ Move(r, "emptied")
    /\ UNCHANGED <<lockVars, results, interrupted, verdictVars, manifest, laneVars, code, faults>>

(* The process is over: the lock is free and its memory is gone. *)
Gone(r) ==
    /\ owner' = 0
    /\ records' = [records EXCEPT ![r] = {}]
    /\ gateOk' = FALSE /\ overall' = "FAIL"
    /\ sem' = NetLanes

(* The finally block.  When run_tier0 raised, main's results are empty. *)
Seal(r) ==
    /\ owner = r /\ pc[r] \in {"sealing", "emptied"}
    /\ manifest' = [manifest EXCEPT ![r] =
         [acc |-> overall, gate |-> GateValue(r),
          rows |-> IF pc[r] = "emptied" THEN NoRows ELSE results[r]]]
    /\ Gone(r)
    /\ Move(r, "done")
    /\ UNCHANGED <<opt, results, interrupted, fresh, lane, artifact, code, faults>>

-----------------------------------------------------------------------------
(* The environment *)

(* The process is killed, at any point, or raises before it has opened its *)
(* manifest: its running children go on without it.                        *)
Kill(r) ==
    /\ owner = r /\ Fault
    /\ Gone(r)
    /\ Move(r, "dead")
    /\ lane' = [g \in Lanes |-> IF lane[g].st = "running" THEN lane[g] ELSE [Idle EXCEPT !.st = "over"]]
    /\ UNCHANGED <<opt, results, interrupted, fresh, manifest, artifact, code>>

OrphanEnds(g) ==
    /\ owner = 0 /\ lane[g].st = "running"
    /\ Publishes(g)
    /\ SetLane(g, [Idle EXCEPT !.st = "over"])
    /\ UNCHANGED <<pc, lockVars, results, interrupted, verdictVars, manifest, sem, code, faults>>

Tamper(u) ==
    /\ Fault
    /\ \E c \in Contents \ {artifact[u]} : artifact' = [artifact EXCEPT ![u] = c]
    /\ UNCHANGED <<pc, lockVars, results, interrupted, verdictVars, manifest, lane, sem, code>>

EditScripts ==
    /\ Fault
    /\ code' = code + 1
    /\ UNCHANGED <<pc, lockVars, results, interrupted, verdictVars, manifest, laneVars>>

LaneStep(r, g) ==
    \/ NextUnit(r, g) \/ SkipResumed(r, g) \/ LaneOver(r, g) \/ Launch(r, g)
    \/ \E rc \in {"ok", "error", "stop"} : AttemptEnds(r, g, rc)
    \/ Finish(r, g) \/ MarkTail(r, g)

MainStep(r) ==
    \/ \E q \in Runs : Reconcile(r, q)
    \/ OpenManifest(r) \/ Gate(r) \/ JobsOver(r) \/ Judge(r) \/ Freshness(r) \/ Drained(r) \/ Seal(r)

Next ==
    \/ \E r \in Runs : Start(r) \/ Acquire(r) \/ MainStep(r) \/ Interrupt(r) \/ Kill(r)
    \/ \E r \in Runs, g \in Lanes : LaneStep(r, g)
    \/ \E r \in Runs, g \in Groups : LaneRaises(r, g) \/ MarkTailRaises(r, g)
    \/ \E g \in Lanes : OrphanEnds(g)
    \/ \E u \in Units : Tamper(u)
    \/ EditScripts

Spec == Init /\ [][Next]_vars

(* Threads of a live master are scheduled, and a child ends by itself or   *)
(* at its timeout.  A lane that waits for a network slot needs strong      *)
(* fairness: other lanes take and free slots for ever after.               *)
Fairness ==
    /\ \A r \in Runs : WF_vars(MainStep(r))
    /\ \A r \in Runs, g \in Lanes : SF_vars(LaneStep(r, g))

FairSpec == Spec /\ Fairness

-----------------------------------------------------------------------------
(* Properties *)

(* A sealed PASS was earned: every selected required sector and job is     *)
(* healthy in the manifest, the gate passed over every required sector of  *)
(* the registry or was bypassed on demand, and no required freshness probe *)
(* blocked, unless the run was interrupted.                                *)
PassIsEarned ==
    \A r \in Runs : manifest[r].acc = "PASS" =>
        /\ \A u \in Selected(r) \cap Required : IsHealthy(manifest[r].rows, u)
        /\ \/ /\ manifest[r].gate = "PASS"
              /\ \A u \in Required \cap Sectors : IsHealthy(manifest[r].rows, u)
           \/ manifest[r].gate = "BYPASSED" /\ opt[r].ignore
        /\ r \in fresh \cup interrupted

(* A downstream job runs only while all required sectors of the registry   *)
(* are healthy in this run, or under --ignore-gate.                        *)
JobsBehindGate ==
    \A r \in Runs : owner = r /\ lane[MainLane].st = "running" =>
        opt[r].ignore \/ \A u \in Required \cap Sectors : IsHealthy(results[r], u)

(* Network slots are neither leaked nor handed out twice, whatever way the *)
(* attempts of the lanes end.                                              *)
NetworkSlotsConserved ==
    owner # 0 /\ pc[owner] # "locked" =>
        sem + Cardinality({g \in Lanes : lane[g].st = "running" /\ lane[g].unit \in Network})
          = NetLanes

Record == INSTANCE RunRecord WITH
    acc <- [r \in Runs |-> manifest[r].acc],
    rows <- [r \in Runs |-> manifest[r].rows],
    cut <- interrupted,
    gone <- {r \in Runs : pc[r] = "dead"}

(* Manifests keep what RunRecord promises, through lane exceptions, kills, *)
(* interrupts and reconciliation, itself cut off anywhere: one manifest of *)
(* a live run is open at a time, only a dead run's is aborted, checkpoints *)
(* are kept unless the run was interrupted, and what was sealed or         *)
(* reconciled never changes again.                                         *)
RecordKept == Record!Spec

(* --resume skips a sector only when an earlier run passed it under the    *)
(* present scripts and what it published is there unchanged, even when     *)
(* that run was killed, or still running as the records were loaded.       *)
SkipIsSound ==
    [][\A r \in Runs : \A u \in DOMAIN results'[r] \ DOMAIN results[r] :
         results'[r][u].status = "SKIPPED_RESUME" =>
            \E q \in Runs \ {r} :
                /\ u \in DOMAIN results[q] /\ results[q][u].status = "PASS"
                /\ results[q][u].code = code /\ results[q][u].sha = artifact[u]]_vars

(* "a later --resume can recover the exact PASS + artifact SHA"            *)
(* (run_all.py:3079-3081): it does not run a sector again that a run which *)
(* was over by then checkpointed as PASS, with scripts and artifact intact.*)
ResumeRecovers ==
    [][\A r \in Runs, g \in Groups :
         (owner = r /\ opt[r].resume /\ lane[g].st = "pick" /\ lane'[g].st = "queued") =>
            ~ \E q \in opt[r].after :
                /\ lane'[g].unit \in DOMAIN manifest[q].rows
                /\ manifest[q].rows[lane'[g].unit] =
                     [status |-> "PASS", sha |-> artifact[lane'[g].unit], code |-> code]]_vars

(* No run keeps the lock for ever: lanes do not wait on each other for     *)
(* ever, raised lanes are tidied up, and the main thread reaches its seal. *)
MasterSettles == \A r \in Runs : owner = r ~> owner # r

RowsKept(r) ==
    \A u \in DOMAIN manifest[r].rows :
        u \in DOMAIN manifest'[r].rows /\ manifest'[r].rows[u] = manifest[r].rows[u]

(* "load-bearing crash-resume record" (run_all.py:3077-3081): whatever ends *)
(* the run, the rows it has checkpointed stay in its manifest.             *)
CheckpointsSurviveInterrupts == [][\A r \in Runs : RowsKept(r)]_vars
=============================================================================
