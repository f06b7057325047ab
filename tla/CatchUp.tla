------------------------------- MODULE CatchUp -------------------------------
(***************************************************************************)
(* Catch-up mode of orchestration/run_all.py, night after night: each lane *)
(* plans the sessions its sector has not published, rebuilds them oldest   *)
(* first, restores the current target last, and records what failed in     *)
(* backfill_gap_markers.json, where a session that failed often enough is  *)
(* tombstoned.  All lanes of a master share that file under a thread lock; *)
(* the operator's --mark-gap and --clear-gap, a process of its own, take   *)
(* neither that lock nor the orchestration lock.                           *)
(*                                                                         *)
(* Sessions are numbered from the one after the sector's first publication *)
(* (or publish_epoch).  What a sector publishes for one is an artifact,    *)
(* which verifies or not, and in Dated sectors a health manifest of that   *)
(* session, which the gap report asks for and the tidying of the marker    *)
(* file does not.  The mutable tables of a sector, and the health manifest *)
(* of the others, its root, describe one session at a time.                *)
(***************************************************************************)
EXTENDS Naturals, FiniteSets

CONSTANTS
    Sectors,         \* one lane each
    LastDay,         \* bound on the sessions
    Window,          \* backfill_window_days, in sessions
    PermanentAfter,  \* permanent_gap_after_failures
    GroupSize,       \* sessions per backfill command: 1, or a chunk of the native backfill
    Covers,          \* sectors whose native backfill also rebuilds the target
    Dated,           \* sectors with a health manifest for each session
    Stamped,         \* sectors whose root manifest carries the session it describes
    Strict,          \* sectors whose past sessions are verified with a manifest: it is required of
                     \* history, and their backfill is not a chunk over one root manifest
    Weekly,          \* sectors with a weekly prerequisite
    WeekStarts,      \* first sessions of a week
    Froms,           \* what --catch-up-from is given, 0 when it is not
    OperatorDays,    \* the sessions the operator names
    Nobody,          \* not a sector
    MaxFaults        \* bound on crashes, damaged artifacts and operator commands

Days == 1 .. LastDay

ASSUME CatchUpAssumption ==
    /\ LastDay \in Nat \ {0} /\ Window \in Nat /\ PermanentAfter \in Nat \ {0} /\ MaxFaults \in Nat
    /\ GroupSize \in [Sectors -> Nat \ {0}]
    /\ Covers \subseteq Sectors /\ Weekly \subseteq Sectors /\ Strict \subseteq Sectors
    /\ Dated \subseteq Sectors /\ Stamped \subseteq Sectors \ Dated
    /\ \A s \in Covers : GroupSize[s] >= LastDay
    /\ WeekStarts \subseteq Days /\ OperatorDays \subseteq Days /\ Froms \subseteq Nat /\ Nobody \notin Sectors

VARIABLES
    today,    \* the latest completed session, the target of a run
    good,     \* the sessions whose artifact verifies, for each sector
    healthy,  \* those of them whose own health manifest is PASS, for each Dated sector
    root,     \* the session a sector's root describes, 0 when its manifest is not PASS
    markers,  \* the gap marker file
    run,      \* the command line of the master that is running
    lane,     \* what each lane is doing
    glock,    \* the lane that holds _GAP_MARKER_LOCK
    copy,     \* the marker file as the lane that holds the lock has loaded it
    cli,      \* the operator's --mark-gap or --clear-gap
    misses,   \* recorded failures of a session since its artifact verified or the operator spoke
    faults

vars == <<today, good, healthy, root, markers, run, lane, glock, copy, cli, misses, faults>>
diskVars == <<today, good, healthy, root>>

NoRecord == [n |-> 0, by |-> "nobody"]
Record == [n : 0 .. PermanentAfter, by : {"nobody", "auto", "operator"}]
Files == [Sectors -> [Days -> Record]]
NoFile == [s \in Sectors |-> [d \in Days |-> NoRecord]]
NoRun == [on |-> FALSE, from |-> 0, weekly |-> FALSE]
NoLane == [st |-> "off", left |-> {}, dates |-> {}, permanent |-> {}, target |-> FALSE,
           failed |-> {}, status |-> "UNKNOWN"]
NoCli == [op |-> "none", sector |-> Nobody, day |-> 0, copy |-> NoFile]
Accepted == {"PASS", "UP_TO_DATE", "PASS_WITH_BACKFILL_GAPS"}
LaneStates ==
    [st : {"off", "plan", "pre", "groups", "book", "booksave", "tidy", "tidysave", "done"},
     left : SUBSET Days, dates : SUBSET Days, permanent : SUBSET Days, target : BOOLEAN,
     failed : SUBSET Days, status : Accepted \cup {"UNKNOWN", "FAIL"}]

TypeOK ==
    /\ today \in Days
    /\ good \in [Sectors -> SUBSET Days] /\ healthy \in [Sectors -> SUBSET Days]
    /\ root \in [Sectors -> 0 .. LastDay]
    /\ markers \in Files /\ copy \in Files
    /\ run \in [on : BOOLEAN, from : Froms \cup {0}, weekly : BOOLEAN]
    /\ lane \in [Sectors -> LaneStates]
    /\ glock \in Sectors \cup {Nobody}
    /\ cli \in [op : {"none", "mark", "clear"}, sector : Sectors \cup {Nobody}, day : 0 .. LastDay,
                copy : Files]
    /\ misses \in [Sectors -> [Days -> 0 .. PermanentAfter + 1]]
    /\ faults \in 0 .. MaxFaults

Init ==
    /\ today = 1
    /\ good = [s \in Sectors |-> {}] /\ healthy = [s \in Sectors |-> {}]
    /\ root = [s \in Sectors |-> 0]
    /\ markers = NoFile /\ copy = NoFile
    /\ run = NoRun
    /\ lane = [s \in Sectors |-> NoLane]
    /\ glock = Nobody
    /\ cli = NoCli
    /\ misses = [s \in Sectors |-> [d \in Days |-> 0]]
    /\ faults = 0

Fault == faults < MaxFaults /\ faults' = faults + 1
SetLane(s, w) == lane' = [lane EXCEPT ![s] = w]
Lesser(a, b) == IF a < b THEN a ELSE b

-----------------------------------------------------------------------------
(* The plan *)

(* verify_published_artifact_for_date, health manifest included. *)
Verifies_ArtifactOnly(s, d) == d \in good[s]
Verifies(s, d) ==
    /\ d \in good[s]
    /\ IF s \in Dated THEN d \in healthy[s] ELSE IF s \in Stamped THEN root[s] = d ELSE root[s] # 0

(* What counts as published in a gap report: a root manifest cannot speak  *)
(* of a past session, a manifest of its own has to.                        *)
Complete(s) == {d \in good[s] : s \in Dated \cap Strict => d \in healthy[s]}

(* An explicit --catch-up-from retries automatic tombstones, not an operator's. *)
Tombstones(s) ==
    {d \in Days : \/ markers[s][d].by = "operator"
                  \/ markers[s][d].by = "auto" /\ run.from = 0}

WindowStart == IF run.from # 0 THEN run.from ELSE IF today > Window THEN today - Window ELSE 1

Actionable_Older(s) == {d \in Days : WindowStart < d /\ d < today} \ Complete(s)
Actionable(s) == {d \in Days : WindowStart <= d /\ d < today} \ Complete(s)

Plan(s) ==
    LET dates == Actionable(s) \ Tombstones(s)
        due == s \in Weekly /\ (run.weekly \/ dates \cap WeekStarts # {})
        rebuild == ~Verifies(s, today) \/ due \/ dates # {}
    IN
    /\ lane[s].st = "plan"
    /\ SetLane(s, [NoLane EXCEPT
         !.st = IF due THEN "pre" ELSE "groups",
         !.left = dates, !.dates = dates,
         !.permanent = Actionable(s) \cap Tombstones(s),
         !.target = rebuild /\ ~(s \in Covers /\ dates # {})])
    /\ UNCHANGED <<diskVars, markers, run, glock, copy, cli, misses, faults>>

-----------------------------------------------------------------------------
(* Execution *)

(* Bookkeeping of the planned sessions is skipped when there are none. *)
Ends(w, status) == [w EXCEPT !.st = IF w.dates = {} THEN "tidy" ELSE "book", !.status = status]

Prerequisite(s) ==
    /\ lane[s].st = "pre"
    /\ \/ SetLane(s, [lane[s] EXCEPT !.st = "groups"])
       \/ SetLane(s, Ends(lane[s], "FAIL"))
    /\ UNCHANGED <<diskVars, markers, run, glock, copy, cli, misses, faults>>

(* The oldest sessions left, as many as one command takes. *)
Group(s) ==
    {d \in lane[s].left : Cardinality({e \in lane[s].left : e < d}) < GroupSize[s]}

Latest(S) == CHOOSE d \in S : \A e \in S : e <= d

(* The session a rebuild of group G leaves the root on. *)
Ending(s, G) == IF s \in Covers THEN today ELSE Latest(G)

(* Commands replace what is published of the sessions they rebuild, with   *)
(* something that verifies or not, and leave the root on one of `ends`.    *)
(* An artifact that verifies ends a row of failures.                       *)
Rebuild(s, D, ends) ==
    /\ \E built \in SUBSET D :
        /\ good' = [good EXCEPT ![s] = (@ \ D) \cup built]
        /\ \E passed \in SUBSET (IF s \in Dated THEN built ELSE {}) :
            healthy' = [healthy EXCEPT ![s] = (@ \ D) \cup passed]
    /\ \E at \in ends : root' = [root EXCEPT ![s] = at]
    /\ misses' = [misses EXCEPT ![s] = [d \in Days |-> IF d \in good'[s] THEN 0 ELSE @[d]]]

(* The sessions a backfill of group G rebuilds. *)
Rebuilt(s, G) == IF s \in Covers THEN G \cup {today} ELSE G

(* The check of a rebuilt session. *)
Stands(s, d) == d \in good[s] /\ (s \in Strict => Verifies(s, d))

(* Every command returned 0: each session of the group is verified now. *)
BackfillOk(s) ==
    LET G == Group(s) IN
    /\ lane[s].st = "groups" /\ lane[s].left # {}
    /\ UNCHANGED <<today, markers, run, glock, copy, cli, faults>>
    /\ Rebuild(s, Rebuilt(s, G), {Ending(s, G), 0})
    /\ SetLane(s, [lane[s] EXCEPT !.left = @ \ G, !.failed = @ \cup {d \in G : ~Stands(s, d)'}])

(* A command failed: the whole group counts as failed, and a backfill that *)
(* covers the target fails the sector.  What the command, and those before *)
(* it, had published by then is there.                                     *)
BackfillFails(s) ==
    LET G == Group(s)
        w == [lane[s] EXCEPT !.left = @ \ G, !.failed = @ \cup G]
    IN
    /\ lane[s].st = "groups" /\ lane[s].left # {}
    /\ Rebuild(s, Rebuilt(s, G), {root[s], 0} \cup Rebuilt(s, G))
    /\ SetLane(s, IF s \in Covers THEN Ends(w, "FAIL") ELSE w)
    /\ UNCHANGED <<today, markers, run, glock, copy, cli, faults>>

(* The target comes last.  Without a command for it the published artifact *)
(* is verified once more.                                                  *)
Target(s) ==
    /\ lane[s].st = "groups" /\ lane[s].left = {}
    /\ UNCHANGED <<today, markers, run, glock, copy, cli, faults>>
    /\ \/ /\ lane[s].target
          /\ Rebuild(s, {today}, {today, 0})
          /\ SetLane(s, Ends(lane[s], IF Verifies(s, today)' THEN "PASS" ELSE "FAIL"))
       \/ /\ lane[s].target
          /\ Rebuild(s, {today}, {root[s], 0, today})
          /\ SetLane(s, Ends(lane[s], "FAIL"))
       \/ /\ ~lane[s].target
          /\ SetLane(s, Ends(lane[s], IF Verifies(s, today) THEN "UP_TO_DATE" ELSE "FAIL"))
          /\ UNCHANGED <<good, healthy, root, misses>>

-----------------------------------------------------------------------------
(* Bookkeeping, each time under the lock: load the file, change it, save it *)

(* record_gap_failure; the count is capped at the threshold. *)
Failed_Once(rec) == [rec EXCEPT !.n = 1]
Failed(rec) ==
    [n |-> Lesser(rec.n + 1, PermanentAfter),
     by |-> IF rec.n + 1 >= PermanentAfter /\ rec.by = "nobody" THEN "auto" ELSE rec.by]

Load_Unlocked(s) == glock' = s /\ copy' = markers
Load(s) ==
    /\ glock = Nobody
    /\ glock' = s
    /\ copy' = markers

BookLoad(s) ==
    /\ lane[s].st = "book"
    /\ Load(s)
    /\ SetLane(s, [lane[s] EXCEPT !.st = "booksave"])
    /\ UNCHANGED <<diskVars, markers, run, cli, misses, faults>>

(* Planned sessions that are not among the failed ones lose their record. *)
Booked(s) ==
    [d \in Days |-> CASE d \in lane[s].failed                    -> Failed(copy[s][d])
                      [] d \in lane[s].dates \ lane[s].failed    -> NoRecord
                      [] OTHER                                   -> copy[s][d]]

Tally(s) ==
    [d \in Days |-> IF d \in lane[s].failed \ good[s] /\ run.from = 0
                     THEN Lesser(misses[s][d] + 1, PermanentAfter + 1) ELSE misses[s][d]]

BookSave(s) ==
    /\ lane[s].st = "booksave"
    /\ markers' = [copy EXCEPT ![s] = Booked(s)]
    /\ misses' = [misses EXCEPT ![s] = Tally(s)]
    /\ glock' = Nobody /\ copy' = NoFile
    /\ SetLane(s, [lane[s] EXCEPT !.st = "tidy"])
    /\ UNCHANGED <<diskVars, run, cli, faults>>

(* clear_resolved_auto_gap_records, which verifies without the manifest:   *)
(* a session that a lane has just booked for its dated manifest alone      *)
(* loses that record here.                                                 *)
TidyLoad(s) ==
    /\ lane[s].st = "tidy"
    /\ Load(s)
    /\ SetLane(s, [lane[s] EXCEPT !.st = "tidysave"])
    /\ UNCHANGED <<diskVars, markers, run, cli, misses, faults>>

Resolved_AnySource(s) == {d \in good[s] : d <= today /\ copy[s][d] # NoRecord}
Resolved(s) == {d \in good[s] : d <= today /\ copy[s][d] # NoRecord /\ copy[s][d].by # "operator"}

FinalStatus_Note(w) == IF w.dates = {} THEN "NOTE" ELSE w.status
FinalStatus(w) ==
    IF w.status \in Accepted
      THEN IF w.failed # {} THEN "PASS_WITH_BACKFILL_GAPS"
           ELSE IF w.dates # {} THEN "PASS" ELSE w.status
      ELSE w.status

TidySave(s) ==
    /\ lane[s].st = "tidysave"
    /\ markers' = IF Resolved(s) = {} THEN markers
                  ELSE [copy EXCEPT ![s] = [d \in Days |->
                          IF d \in Resolved(s) THEN NoRecord ELSE copy[s][d]]]
    /\ glock' = Nobody /\ copy' = NoFile
    /\ SetLane(s, [lane[s] EXCEPT !.st = "done", !.status = FinalStatus(lane[s])])
    /\ UNCHANGED <<diskVars, run, cli, misses, faults>>

-----------------------------------------------------------------------------
(* Runs, sessions, and what happens to them *)

StartRun ==
    /\ ~run.on
    /\ \E from \in Froms, weekly \in BOOLEAN :
        /\ from <= today
        /\ weekly => Weekly # {}
        /\ run' = [on |-> TRUE, from |-> from, weekly |-> weekly]
    /\ lane' = [s \in Sectors |-> [NoLane EXCEPT !.st = "plan"]]
    /\ UNCHANGED <<diskVars, markers, glock, copy, cli, misses, faults>>

EndRun ==
    /\ run.on /\ \A s \in Sectors : lane[s].st = "done"
    /\ run' = NoRun
    /\ lane' = [s \in Sectors |-> NoLane]
    /\ UNCHANGED <<diskVars, markers, glock, copy, cli, misses, faults>>

(* A session that completes while a master runs is the next run's target. *)
NextDay ==
    /\ ~run.on /\ today < LastDay
    /\ today' = today + 1
    /\ UNCHANGED <<good, healthy, root, markers, run, lane, glock, copy, cli, misses, faults>>

(* The file is replaced atomically, so a crash leaves it whole. *)
Crash ==
    /\ run.on /\ Fault
    /\ run' = NoRun
    /\ lane' = [s \in Sectors |-> NoLane]
    /\ glock' = Nobody /\ copy' = NoFile
    /\ UNCHANGED <<diskVars, markers, cli, misses>>

(* A published artifact, or the manifest beside it, no longer verifies. *)
Spoil(s, d) ==
    /\ ~run.on /\ Fault
    /\ \/ d \in good[s] /\ good' = [good EXCEPT ![s] = @ \ {d}]
       \/ d \in healthy[s] /\ UNCHANGED good
    /\ healthy' = [healthy EXCEPT ![s] = @ \ {d}]
    /\ UNCHANGED <<today, root, markers, run, lane, glock, copy, cli, misses>>

(* handle_gap_marker_cli *)
CliLoad(op, s, d) ==
    /\ cli.op = "none" /\ Fault
    /\ cli' = [op |-> op, sector |-> s, day |-> d, copy |-> markers]
    /\ UNCHANGED <<diskVars, markers, run, lane, glock, copy, misses>>

CliSave ==
    /\ cli.op # "none"
    /\ markers' = [cli.copy EXCEPT ![cli.sector][cli.day] =
         IF cli.op = "mark" THEN [@ EXCEPT !.by = "operator"] ELSE NoRecord]
    /\ misses' = [s \in Sectors |-> [d \in Days |-> 0]]
    /\ cli' = NoCli
    /\ UNCHANGED <<diskVars, run, lane, glock, copy, faults>>

LaneStep(s) ==
    \/ Plan(s) \/ Prerequisite(s) \/ BackfillOk(s) \/ BackfillFails(s) \/ Target(s)
    \/ BookLoad(s) \/ BookSave(s) \/ TidyLoad(s) \/ TidySave(s)

Next ==
    \/ \E s \in Sectors : LaneStep(s)
    \/ StartRun \/ EndRun \/ NextDay \/ Crash \/ CliSave
    \/ \E s \in Sectors, d \in Days : Spoil(s, d)
    \/ \E s \in Sectors, d \in OperatorDays, op \in {"mark", "clear"} : CliLoad(op, s, d)

Spec == Init /\ [][Next]_vars

(* Runs are started again and again (the nightly schedule), their lanes    *)
(* are threads of a live process, and the lock they wait for is always     *)
(* released.                                                               *)
Fairness ==
    /\ \A s \in Sectors : SF_vars(LaneStep(s))
    /\ WF_vars(StartRun) /\ WF_vars(EndRun)

FairSpec == Spec /\ Fairness

-----------------------------------------------------------------------------
(* Properties *)

(* "without a tombstone it would be retried every night": a session whose *)
(* artifact does not verify, of a sector without weekly prerequisites, is  *)
(* given up after PermanentAfter recorded failures in a row, whatever      *)
(* other lanes and the operator write to the same file and wherever a      *)
(* master dies; only --catch-up-from tries it again.  It says nothing of a *)
(* session that fails on its dated manifest alone: Resolved drops the      *)
(* record of each failure.                                                 *)
GapsAreGivenUp ==
    \A s \in Sectors \ Weekly, d \in Days : misses[s][d] <= PermanentAfter

(* A tombstone that the operator set is dropped by a lane only when it was *)
(* set after the lane's plan or while a lane was writing the file.         *)
OperatorMarksStand ==
    [][\A q \in Sectors, d \in Days :
         (markers[q][d].by = "operator" /\ markers'[q][d].by # "operator" /\ cli.op = cli'.op) =>
            \E s \in Sectors :
                \/ glock = s /\ copy[q][d].by # "operator"
                \/ s = q /\ lane[s].st = "booksave" /\ d \in lane[s].dates]_vars

(* A run that reports a sector as PASS or UP_TO_DATE leaves no session of  *)
(* the window incomplete, its dated manifest included, but for those it    *)
(* reports as permanent gaps.                                              *)
CleanPassClosesGaps ==
    \A s \in Sectors : (lane[s].st = "done" /\ lane[s].status \in {"PASS", "UP_TO_DATE"}) =>
        \A d \in Days : (WindowStart <= d /\ d <= today) => d \in Complete(s) \cup lane[s].permanent

(* An accepted sector has its target published and its root on the target, *)
(* even when an earlier run died or failed between a backfill and the      *)
(* target: for sectors whose root manifest says which session it describes.*)
AcceptedOnTarget ==
    \A s \in Stamped : (lane[s].st = "done" /\ lane[s].status \in Accepted) =>
        today \in good[s] /\ root[s] = today

(* A session whose artifact does not verify is published or given up in    *)
(* the end, or leaves the window, for sectors without weekly prerequisites *)
(* (of one whose manifest alone is bad this does not hold).                *)
GapsAreSettled ==
    \A s \in Sectors \ Weekly, d \in Days :
        (d < today /\ d \notin good[s]) ~>
            (d \in good[s] \/ markers[s][d].by # "nobody" \/ d + Window < today)
=============================================================================
