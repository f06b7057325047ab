------------------------ MODULE ActivationTransaction -------------------------
(***************************************************************************)
(* stage12_activation_transaction.py with stage12_activation.py: the       *)
(* transactions that put a sealed machinery model into production, and the *)
(* daily scorer that decides from their files whether to apply it.         *)
(*                                                                         *)
(* All transactions belong to one governance cycle and one date.  They     *)
(* share the portfolio config, the live dashboard, the candidate and its   *)
(* backups, and the activation state; their lock is the machine lock of    *)
(* OrchestrationLock, here one step each way.  Every file is replaced      *)
(* atomically, so a write happens or does not.  What the candidate and the *)
(* smoke run compute is left out: they pass or fail.                       *)
(***************************************************************************)
EXTENDS Naturals

CONSTANTS
    Transactions,   \* invocations of 25_activate_machinery_production.py
    None,           \* no transaction
    MaxFaults       \* bound on kills, interrupts and failing writes

ASSUME ConstantsAssumption ==
    Transactions \cap {None, "none", "prev"} = {} /\ MaxFaults \in Nat

VARIABLES
    mode,       \* activation_mode of the sealed governance lock
    apart,      \* the lock names a source dashboard of its own
    config,     \* the machinery settings in the portfolio config
    backup,     \* CONFIG_BACKUP_NAME
    dash,       \* the live dashboard, file by file
    cand,       \* the transaction that built the candidate files
    snap,       \* the dashboard sealed before publication
    record,     \* machinery_activation_result.json
    state,      \* the activation state the scorer reads
    result,     \* TRANSACTION_RESULT_NAME, which the transactions overwrite
    owner,      \* the transaction in the machine lock, which may have died
    run, faults

files == <<config, backup, dash, cand, snap, record, state, result>>
vars == <<mode, apart, files, owner, run, faults>>

File == <<"rank", "sidecar", "manifest">>
Dashboards == [{"rank", "sidecar", "manifest"} -> {"none", "old", "new"}]

States == {"none", "prev"} \cup Transactions
Undone == {"FAIL_NO_PRODUCTION_CHANGE", "FAIL_ROLLED_BACK"}
Verdicts == {"PASS", "FAIL_ROLLBACK_INCOMPLETE"} \cup Undone
Outcomes == {"none"} \cup Verdicts

Body == {"locked", "refresh", "prepare", "backup", "commit", "settle", "capture", "publish",
         "adapter", "record", "smoke", "validate", "activate", "report"}
Repair == {"uncommit", "undo"}
Handler == {"config", "restore", "check", "unstate", "seal"}

Steps == Body \cup Repair \cup Handler \cup {"idle", "waiting", "refused", "ended", "dead"}

Runs ==
    [pc : Steps,
     n : 0..3, prev : {"none", "prev"}, orig : {"shadow", "active"},
     committed : BOOLEAN, published : BOOLEAN, written : BOOLEAN, errors : BOOLEAN,
     verdict : Outcomes,
     smoked : BOOLEAN,      \* ghost: its portfolio smoke passed
     stranded : BOOLEAN,    \* ghost: it changed production and its flags do not say so
     before : Dashboards,   \* ghost: the dashboard it found under the lock, refreshed
     held : States]         \* ghost: the activation state it found under the lock

TypeOK ==
    /\ mode \in {"INITIAL", "REPLACE_ACTIVE"} /\ apart \in BOOLEAN
    /\ config \in {"shadow", "active"} /\ backup \in {"none", "shadow", "active"}
    /\ dash \in Dashboards /\ snap \in Dashboards
    /\ cand \in Transactions \cup {None}
    /\ record \in (Transactions \X {"published", "validated", "rolled_back"}) \cup {<<None, "none">>}
    /\ state \in States
    /\ result \in (Transactions \X Verdicts) \cup {<<None, "none">>}
    /\ owner \in Transactions \cup {None}
    /\ run \in [Transactions -> Runs]
    /\ faults \in 0..MaxFaults

(* The first k files of a dashboard are replaced by v. *)
Written(d, k, v) == [f \in DOMAIN d |-> IF \E i \in 1..k : File[i] = f THEN v ELSE d[f]]
Blank == [f \in {"rank", "sidecar", "manifest"} |-> "none"]
Complete(d) == \A f \in DOMAIN d : d[f] # "none"
Sealed(d) == d["rank"] = d["manifest"]   \* the manifest holds the hash of this rank table

Init ==
    /\ mode \in {"INITIAL", "REPLACE_ACTIVE"} /\ apart \in BOOLEAN
    /\ config = IF mode = "INITIAL" THEN "shadow" ELSE "active"
    /\ state = IF mode = "INITIAL" THEN "none" ELSE "prev"
    /\ \E k \in 0..3 : dash = Written(Blank, k, "old")
    /\ backup = "none" /\ cand = None /\ snap = Blank
    /\ record = <<None, "none">> /\ result = <<None, "none">>
    /\ owner = None /\ faults = 0
    /\ run = [t \in Transactions |->
         [pc |-> "idle", n |-> 0, prev |-> "none", orig |-> "shadow", committed |-> FALSE,
          published |-> FALSE, written |-> FALSE, errors |-> FALSE, verdict |-> "none",
          smoked |-> FALSE, stranded |-> FALSE, before |-> Blank,
          held |-> "none"]]

Fault == faults < MaxFaults /\ faults' = faults + 1
At(t, pc) == run[t].pc = pc
Goto(t, pc) == run' = [run EXCEPT ![t].pc = pc, ![t].n = 0]
Next1(t, pc) == run' = [run EXCEPT ![t].pc = pc, ![t].n = @ + 1]

-----------------------------------------------------------------------------
(* Before the lock and at it *)

ExpectedConfig_AnyMode == config \in {"shadow", "active"}
ExpectedConfig == config = IF mode = "INITIAL" THEN "shadow" ELSE "active"
ApprovedState == state = IF mode = "INITIAL" THEN "none" ELSE "prev"

Start(t) ==
    /\ At(t, "idle")
    /\ IF ApprovedState /\ ExpectedConfig
       THEN run' = [run EXCEPT ![t].pc = "waiting", ![t].prev = state]
       ELSE Goto(t, "refused")
    /\ UNCHANGED <<mode, apart, files, owner, faults>>

Lock(t) ==
    /\ At(t, "waiting")
    /\ IF owner = None
       THEN /\ owner' = t
            /\ run' = [run EXCEPT ![t].pc = "locked", ![t].orig = config,
                                   ![t].before = dash, ![t].held = state]
       ELSE Goto(t, "refused") /\ UNCHANGED owner
    /\ UNCHANGED <<mode, apart, files, faults>>

Recheck(t) ==
    /\ At(t, "locked")
    /\ Goto(t, IF ExpectedConfig THEN "refresh" ELSE "config")
    /\ UNCHANGED <<mode, apart, files, owner, faults>>

(* The refresh scores in shadow, as there is no activation state; a live *)
(* dashboard is never refreshed under a model that is being replaced.    *)
Refresh(t) ==
    /\ At(t, "refresh")
    /\ \/ Goto(t, "prepare") /\ UNCHANGED dash
       \/ mode = "REPLACE_ACTIVE" /\ Goto(t, "config") /\ UNCHANGED dash
       \/ /\ mode = "INITIAL"
          /\ \E k \in 0..3 :
               /\ dash' = Written(dash, k, "old")
               /\ \E pc \in {"config"} \cup (IF k = 3 THEN {"prepare"} ELSE {}) :
                    run' = [run EXCEPT ![t].pc = pc, ![t].before = Written(dash, k, "old")]
    /\ UNCHANGED <<mode, apart, config, backup, cand, snap, record, state, result, owner, faults>>

-----------------------------------------------------------------------------
(* The transaction *)

(* prepare_activation_candidate: what it demands of the files it finds. *)
SourceIsShadow ==
    apart \/ (mode = "INITIAL" /\ dash["rank"] = "old" /\ dash["manifest"] = "old")
MayPrepare_AnyState == ExpectedConfig /\ SourceIsShadow
MayPrepare ==
    ExpectedConfig /\ SourceIsShadow /\ (mode = "REPLACE_ACTIVE" => state = "prev")

Prepare(t) ==
    /\ At(t, "prepare")
    /\ \/ Goto(t, "config") /\ UNCHANGED cand    \* also: the files are there and no --force
       \/ MayPrepare /\ cand' = t /\ \E pc \in {"backup", "config"} : Goto(t, pc)
    /\ UNCHANGED <<mode, apart, config, backup, dash, snap, record, state, result, owner, faults>>

Backup(t) ==
    /\ At(t, "backup")
    /\ backup' = run[t].orig
    /\ Goto(t, IF mode = "INITIAL" THEN "commit" ELSE "capture")
    /\ UNCHANGED <<mode, apart, config, dash, cand, snap, record, state, result, owner, faults>>

(* commit_portfolio_activation_config: write, then read back. *)
Commit(t) ==
    /\ At(t, "commit")
    /\ IF config = "shadow"
       THEN config' = "active" /\ Goto(t, "settle")
       ELSE Goto(t, "config") /\ UNCHANGED config
    /\ UNCHANGED <<mode, apart, backup, dash, cand, snap, record, state, result, owner, faults>>

Settle(t) ==
    /\ At(t, "settle")
    /\ run' = [run EXCEPT ![t].pc = "capture", ![t].committed = TRUE]
    /\ UNCHANGED <<mode, apart, files, owner, faults>>

(* activate_candidate, up to the dashboard it seals before publication. *)
Capture(t) ==
    /\ At(t, "capture")
    /\ IF config = "active"
       THEN snap' = dash /\ Goto(t, "publish")
       ELSE Goto(t, "config") /\ UNCHANGED snap
    /\ UNCHANGED <<mode, apart, config, backup, dash, cand, record, state, result, owner, faults>>

Publish(t) ==
    /\ At(t, "publish")
    /\ dash' = [dash EXCEPT ![File[run[t].n + 1]] = "new"]
    /\ IF run[t].n = 2 THEN Goto(t, "adapter") ELSE Next1(t, "publish")
    /\ UNCHANGED <<mode, apart, config, backup, cand, snap, record, state, result, owner, faults>>

AdapterCheck(t) ==
    /\ At(t, "adapter")
    /\ \E pc \in {"record", "undo"} : Goto(t, pc)
    /\ UNCHANGED <<mode, apart, files, owner, faults>>

Record(t) ==
    /\ At(t, "record")
    /\ record' = <<t, "published">>
    /\ run' = [run EXCEPT ![t].pc = "smoke", ![t].published = TRUE]
    /\ UNCHANGED <<mode, apart, config, backup, dash, cand, snap, state, result, owner, faults>>

Smoke(t) ==
    /\ At(t, "smoke")
    /\ \E ok \in BOOLEAN :
         run' = [run EXCEPT ![t].pc = IF ok THEN "validate" ELSE "config", ![t].smoked = ok]
    /\ UNCHANGED <<mode, apart, files, owner, faults>>

Validate(t) ==
    /\ At(t, "validate")
    /\ record' = <<t, "validated">>
    /\ Goto(t, "activate")
    /\ UNCHANGED <<mode, apart, config, backup, dash, cand, snap, state, result, owner, faults>>

Activate(t) ==
    /\ At(t, "activate")
    /\ state' = t
    /\ run' = [run EXCEPT ![t].pc = "report", ![t].written = TRUE]
    /\ UNCHANGED <<mode, apart, config, backup, dash, cand, snap, record, result, owner, faults>>

Report(t) ==
    /\ At(t, "report")
    /\ result' = <<t, "PASS">>
    /\ owner' = None
    /\ run' = [run EXCEPT ![t].pc = "ended", ![t].verdict = "PASS"]
    /\ UNCHANGED <<mode, apart, config, backup, dash, cand, snap, record, state, faults>>

-----------------------------------------------------------------------------
(* Exceptions *)

(* The two inner handlers repair what their step had written. *)
Catch(pc) == CASE pc = "settle" -> "uncommit"
               [] pc \in {"publish", "adapter"} -> "undo"
               [] OTHER -> "config"

Raise(t) ==
    /\ run[t].pc \in Body /\ Fault
    /\ run' = [run EXCEPT ![t].pc = Catch(@), ![t].n = 0, ![t].stranded = @ \/ At(t, "record")]
    /\ UNCHANGED <<mode, apart, files, owner>>

Uncommit(t) ==
    /\ At(t, "uncommit")
    /\ config' = run[t].orig
    /\ Goto(t, "config")
    /\ UNCHANGED <<mode, apart, backup, dash, cand, snap, record, state, result, owner, faults>>

(* _restore_dashboard_state, one file after the other. *)
RestoreFile(t) ==
    /\ dash' = [dash EXCEPT ![File[run[t].n + 1]] = snap[File[run[t].n + 1]]]
    /\ UNCHANGED <<mode, apart, config, backup, cand, snap, record, state, result, owner, faults>>

Undo(t) ==
    /\ At(t, "undo")
    /\ IF run[t].n = 2 THEN Goto(t, "config") ELSE Next1(t, "undo")
    /\ RestoreFile(t)

RepairFails(t) ==
    /\ run[t].pc \in Repair /\ Fault
    /\ run' = [run EXCEPT ![t].pc = "config", ![t].n = 0, ![t].stranded = TRUE]
    /\ UNCHANGED <<mode, apart, files, owner>>

(* The outer handler: each part on its own, then the verdict. *)
RollBackConfig(t) ==
    /\ At(t, "config")
    /\ config' = IF run[t].committed THEN run[t].orig ELSE config
    /\ Goto(t, IF run[t].published THEN "restore" ELSE "unstate")
    /\ UNCHANGED <<mode, apart, backup, dash, cand, snap, record, state, result, owner, faults>>

(* rollback_published_candidate *)
Restore_RankOnly(t) ==
    /\ At(t, "restore")
    /\ Goto(t, "check")
    /\ RestoreFile(t)

Restore(t) ==
    /\ At(t, "restore")
    /\ IF run[t].n = 2 THEN Goto(t, "check") ELSE Next1(t, "restore")
    /\ RestoreFile(t)

CheckRestored(t) ==
    /\ At(t, "check")
    /\ IF Complete(snap) => Sealed(dash)
       THEN record' = <<t, "rolled_back">> /\ Goto(t, "unstate")
       ELSE /\ run' = [run EXCEPT ![t].pc = "unstate", ![t].errors = TRUE]
            /\ UNCHANGED record
    /\ UNCHANGED <<mode, apart, config, backup, dash, cand, snap, state, result, owner, faults>>

RollBackState(t) ==
    /\ At(t, "unstate")
    /\ state' = IF run[t].written THEN run[t].prev ELSE state
    /\ Goto(t, "seal")
    /\ UNCHANGED <<mode, apart, config, backup, dash, cand, snap, record, result, owner, faults>>

(* The part that fails is skipped, and the verdict says so. *)
RollbackFails(t) ==
    /\ \/ At(t, "config") /\ run[t].committed
       \/ run[t].pc \in {"restore", "check"}
       \/ At(t, "unstate") /\ run[t].written
    /\ Fault
    /\ run' = [run EXCEPT ![t].errors = TRUE, ![t].n = 0,
         ![t].pc = CASE At(t, "unstate") -> "seal"
                     [] At(t, "config") /\ run[t].published -> "restore"
                     [] OTHER -> "unstate"]
    /\ UNCHANGED <<mode, apart, files, owner>>

Verdict_Status(r) ==
    CASE ~r.committed /\ ~r.published -> "PRE_ACTIVATION_FAILED"
      [] (r.committed \/ r.published) /\ ~r.errors -> "FAIL_ROLLED_BACK"
      [] OTHER -> "FAIL_ROLLBACK_INCOMPLETE"

Verdict(r) ==
    CASE ~r.committed /\ ~r.published -> "FAIL_NO_PRODUCTION_CHANGE"
      [] (r.committed \/ r.published) /\ ~r.errors -> "FAIL_ROLLED_BACK"
      [] OTHER -> "FAIL_ROLLBACK_INCOMPLETE"

SealFailure(t) ==
    /\ At(t, "seal")
    /\ owner' = None
    /\ \/ /\ result' = <<t, Verdict(run[t])>>
          /\ run' = [run EXCEPT ![t].pc = "ended", ![t].verdict = Verdict(run[t])]
          /\ UNCHANGED faults
       \/ Goto(t, "ended") /\ UNCHANGED result /\ Fault
    /\ UNCHANGED <<mode, apart, config, backup, dash, cand, snap, record, state>>

Kill(t) ==
    /\ run[t].pc \in Body \cup Repair \cup Handler /\ Fault
    /\ run' = [run EXCEPT ![t].pc = "dead"]
    /\ UNCHANGED <<mode, apart, files, owner>>

-----------------------------------------------------------------------------
(* Other programs *)

(* A master recovers the lock of a dead transaction. *)
Recover ==
    /\ \E t \in Transactions : owner = t /\ At(t, "dead")
    /\ owner' = None
    /\ UNCHANGED <<mode, apart, files, run, faults>>

(* apply_active_production_policy: the scorer accepts t's state, refuses it *)
(* with an error, or finds no state or the previous one.                   *)
Accepted(t) ==
    state = t /\ config = "active" /\ cand = t /\ record = <<t, "validated">>
Scores == state \in {"none", "prev"} \/ \E t \in Transactions : Accepted(t)

(* The scorer of a master publishes the dashboard of the date once more. *)
Score ==
    /\ owner = None /\ Scores
    /\ \E k \in 1..3 :
         /\ dash' = Written(dash, k, IF state \in Transactions THEN "new" ELSE "old")
         /\ IF k = 3 THEN UNCHANGED faults ELSE Fault
    /\ UNCHANGED <<mode, apart, config, backup, cand, snap, record, state, result, owner, run>>

Next ==
    \/ \E t \in Transactions :
         \/ Start(t) \/ Lock(t) \/ Recheck(t) \/ Refresh(t) \/ Prepare(t) \/ Backup(t)
         \/ Commit(t) \/ Settle(t) \/ Capture(t) \/ Publish(t) \/ AdapterCheck(t)
         \/ Record(t) \/ Smoke(t) \/ Validate(t) \/ Activate(t) \/ Report(t)
         \/ Raise(t) \/ Uncommit(t) \/ Undo(t) \/ RepairFails(t)
         \/ RollBackConfig(t) \/ Restore(t) \/ CheckRestored(t) \/ RollBackState(t)
         \/ RollbackFails(t) \/ SealFailure(t) \/ Kill(t)
    \/ Recover \/ Score

Spec == Init /\ [][Next]_vars

-----------------------------------------------------------------------------
(* Properties *)

(* The scorer and the transactions agree: it applies a model only if the   *)
(* portfolio smoke of its transaction passed and the transaction was not   *)
(* reported as undone, and the model of a transaction that reported PASS   *)
(* stays applicable whatever later transactions of the cycle attempt.      *)
ReaderAgrees ==
    \A t \in Transactions :
        /\ Accepted(t) => run[t].smoked /\ run[t].verdict \notin Undone
        /\ run[t].verdict = "PASS" => Accepted(t)

(* A transaction that reports an undone activation leaves the config, the  *)
(* activation state and the whole dashboard as it found them, or the state *)
(* as it was when it started, if a dead transaction left its own since.    *)
(* The exception is a publication whose record or repair failed, of which  *)
(* the transaction does not know.                                          *)
Restored(t) ==
    config = run[t].orig /\ dash = run[t].before /\ state \in {run[t].held, run[t].prev}
VerdictIsTrue ==
    [][\A t \in Transactions :
         run[t].verdict = "none" /\ run'[t].verdict \in Undone /\ ~run[t].stranded
             => Restored(t)]_vars

(* Whenever an initial activation has changed the config, the original is  *)
(* in the backup, whoever died and whoever tried again.                    *)
ConfigIsRecoverable == mode = "INITIAL" /\ config = "active" => backup = "shadow"
=============================================================================
