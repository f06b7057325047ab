------------------------------- MODULE Nightly --------------------------------
(***************************************************************************)
(* run_nightly.py and reconcile_late_ib_statements.py: nightlies started   *)
(* by the scheduler and by hand, the master each launches, the two passes  *)
(* of the late-statement reconciler around it with the portfolio runs it   *)
(* starts, and operators' own masters, on one machine lock.                *)
(*                                                                         *)
(* The lock's own protocol is OrchestrationLock's, here one step each way. *)
(* One session has a book and a broker statement, which may arrive at any  *)
(* time; sessions are reconciled one after the other and share nothing but *)
(* the lock.  A nightly runs once.  MaxFaults bounds crashes and failures. *)
(***************************************************************************)
EXTENDS Naturals

CONSTANTS
    Nightlies,   \* invocations of run_nightly.py; each names its master and reconciler too
    Operators,   \* masters an operator starts
    NoLock,
    MaxFaults

ASSUME ConstantsAssumption == MaxFaults \in Nat /\ Nightlies \cap Operators = {}

VARIABLES
    night,      \* the nightly processes
    manifest,   \* acceptance in nightly_manifest.json
    master,     \* the master processes
    record,     \* acceptance in master_manifest.json
    newer,      \* <<a, b>> when the manifest of a was written after that of b
    recon,      \* the reconciler of a nightly and the portfolio run it waits for
    lock,       \* the holder of the machine lock, which may have died
    arrived,    \* the statement of the session is on disk
    book,       \* the session has a book
    ledger,     \* the session has an accepted ledger
    recovery,   \* acceptance in late_statement_orchestration_meta.json
    rebuilt,    \* what follows the ledger was built on the accepted one
    faults

nightVars == <<night, manifest>>
masterVars == <<master, record, newer>>
bookVars == <<book, ledger, recovery, rebuilt>>
vars == <<nightVars, masterVars, recon, lock, arrived, bookVars, faults>>

Masters == Nightlies \cup Operators
MasterPid(m) == <<"master", m>>
PortfolioPid(n) == <<"portfolio", n>>
Pids == {MasterPid(m) : m \in Masters} \cup {PortfolioPid(n) : n \in Nightlies}

Passes == {"pre", "post"}
Verdicts == {"PASS", "FAIL_MASTER", "FAIL_LATE", "FAIL_PROVIDER", "DEFERRED", "ABORTED"}

NightStates ==
    [pc : {"idle", "scan", "probe", "close", "check", "validate", "pass", "master", "done", "dead"},
     todo : SUBSET Nightlies, gone : SUBSET Nightlies, phase : Passes,
     before : SUBSET Masters, accepted : SUBSET Passes, rc : {0, 1}, due : BOOLEAN]
MasterStates == {"idle", "starting", "locked", "building", "sealing", "passed", "failed", "dead"}

(* The masters whose manifest is on disk. *)
Recorded == {m \in Masters : record[m] # "none"}

TypeOK ==
    /\ night \in [Nightlies -> NightStates]
    /\ manifest \in [Nightlies -> {"none", "RUNNING"} \cup Verdicts]
    /\ master \in [Masters -> MasterStates]
    /\ record \in [Masters -> {"none", "RUNNING", "PASS", "FAIL", "ABORTED"}]
    /\ newer \subseteq Recorded \X Recorded
    /\ \A a, b \in Recorded : a # b => (<<a, b>> \in newer <=> <<b, a>> \notin newer)
    /\ recon \in [Nightlies ->
         {"idle", "plan", "ledger", "in_ledger", "audit", "post", "in_post", "ok", "failed"}]
    /\ lock \in Pids \cup {NoLock}
    /\ arrived \in BOOLEAN /\ book \in BOOLEAN /\ ledger \in BOOLEAN /\ rebuilt \in BOOLEAN
    /\ recovery \in {"none", "RUNNING", "PASS", "FAIL"}
    /\ faults \in 0..MaxFaults

NewNight == [pc |-> "idle", todo |-> {}, gone |-> {}, phase |-> "pre", before |-> {},
             accepted |-> {}, rc |-> 0, due |-> FALSE]

Init ==
    /\ night = [n \in Nightlies |-> NewNight]
    /\ manifest = [n \in Nightlies |-> "none"]
    /\ master = [m \in Masters |-> "idle"]
    /\ record = [m \in Masters |-> "none"]
    /\ newer = {}
    /\ recon = [n \in Nightlies |-> "idle"]
    /\ lock = NoLock
    /\ arrived \in BOOLEAN /\ book \in BOOLEAN
    /\ ledger = FALSE /\ recovery = "none" /\ rebuilt = FALSE
    /\ faults = 0

Fault == faults < MaxFaults /\ faults' = faults + 1

MasterAlive(m) == master[m] \in {"starting", "locked", "building", "sealing"}
ReconAlive(n) == recon[n] \notin {"idle", "ok", "failed"}
Gone(n) == night[n].pc \in {"done", "dead"}

(* The process a lock file names is running. *)
HolderAlive ==
    \/ \E m \in Masters : lock = MasterPid(m) /\ MasterAlive(m)
    \/ \E n \in Nightlies : lock = PortfolioPid(n) /\ recon[n] \in {"in_ledger", "in_post"}

-----------------------------------------------------------------------------
(* The nightly *)

Goto(n, pc) == night' = [night EXCEPT ![n].pc = pc]
Seal(n, verdict) == manifest' = [manifest EXCEPT ![n] = verdict] /\ Goto(n, "done")

Start(n) ==
    /\ night[n].pc = "idle"
    /\ night' = [night EXCEPT ![n] =
         [NewNight EXCEPT !.pc = "scan",
                          !.todo = {m \in Nightlies : manifest[m] # "none"},
                          !.gone = {m \in Nightlies : night[m].pc = "dead"}]]
    /\ UNCHANGED <<manifest, masterVars, recon, lock, arrived, bookVars, faults>>

(* reconcile_abandoned_nightly_runs, one manifest after the other: load it, *)
(* probe its process, and write what was loaded back as ABORTED.  One that  *)
(* cannot be read, or whose process the probe cannot judge, is left alone.  *)
Target(n) == CHOOSE m \in night[n].todo : TRUE
Drop(n) == night' = [night EXCEPT ![n].pc = "scan", ![n].todo = @ \ {Target(n)}]
Skip(n) == night' = [night EXCEPT ![n].pc = "scan", ![n].todo = @ \ {Target(n)},
                                  ![n].gone = @ \ {Target(n)}]

Load(n) ==
    /\ night[n].pc = "scan" /\ night[n].todo # {}
    /\ \/ manifest[Target(n)] = "RUNNING" /\ Goto(n, "probe")
       \/ manifest[Target(n)] # "RUNNING" /\ Drop(n)
       \/ Skip(n)
    /\ UNCHANGED <<manifest, masterVars, recon, lock, arrived, bookVars, faults>>

Abandoned_Master(m) == Gone(m) /\ ~MasterAlive(m)
Abandoned(m) == Gone(m)

Probe(n) ==
    /\ night[n].pc = "probe"
    /\ \/ Abandoned(Target(n)) /\ Goto(n, "close")
       \/ ~Abandoned(Target(n)) /\ Drop(n)
       \/ Skip(n)
    /\ UNCHANGED <<manifest, masterVars, recon, lock, arrived, bookVars, faults>>

Close(n) ==
    /\ night[n].pc = "close"
    /\ manifest' = [manifest EXCEPT ![Target(n)] = "ABORTED"]
    /\ Drop(n)
    /\ UNCHANGED <<masterVars, recon, lock, arrived, bookVars, faults>>

Open(n) ==
    /\ night[n].pc = "scan" /\ night[n].todo = {}
    /\ manifest' = [manifest EXCEPT ![n] = "RUNNING"]
    /\ Goto(n, "check")
    /\ UNCHANGED <<masterVars, recon, lock, arrived, bookVars, faults>>

(* _active_orchestrator: a dead holder is left to the master's recovery,   *)
(* but a lock that cannot be judged counts as held.                        *)
Check(n) ==
    /\ night[n].pc = "check"
    /\ \/ lock # NoLock /\ Seal(n, "DEFERRED")
       \/ /\ ~HolderAlive
          /\ night' = [night EXCEPT ![n].pc = "validate", ![n].before = Recorded]
          /\ UNCHANGED manifest
    /\ UNCHANGED <<masterVars, recon, lock, arrived, bookVars, faults>>

BeginPass(n, phase, rc) ==
    /\ recon' = [recon EXCEPT ![n] = "plan"]
    /\ night' = [night EXCEPT ![n].pc = "pass", ![n].phase = phase, ![n].rc = rc]

Validate(n) ==
    /\ night[n].pc = "validate"
    /\ \/ BeginPass(n, "pre", 0) /\ UNCHANGED <<manifest, faults>>
       \/ Seal(n, "FAIL_PROVIDER") /\ Fault /\ UNCHANGED recon
    /\ UNCHANGED <<masterVars, lock, arrived, bookVars>>

WithVerdict(n) == IF recon[n] = "ok" THEN night[n].accepted \cup {night[n].phase} ELSE night[n].accepted

(* After the first pass the master is launched, accepted or not. *)
PreEnds_Stop(n) ==
    /\ night[n].pc = "pass" /\ night[n].phase = "pre" /\ recon[n] \in {"ok", "failed"}
    /\ IF recon[n] = "failed"
         THEN Seal(n, "FAIL_LATE") /\ UNCHANGED master
         ELSE /\ master' = [master EXCEPT ![n] = "starting"]
              /\ night' = [night EXCEPT ![n].pc = "master", ![n].accepted = WithVerdict(n)]
              /\ UNCHANGED manifest
    /\ UNCHANGED <<record, newer, recon, lock, arrived, bookVars, faults>>

PreEnds(n) ==
    /\ night[n].pc = "pass" /\ night[n].phase = "pre" /\ recon[n] \in {"ok", "failed"}
    /\ master' = [master EXCEPT ![n] = "starting"]
    /\ night' = [night EXCEPT ![n].pc = "master", ![n].accepted = WithVerdict(n)]
    /\ UNCHANGED <<manifest, record, newer, recon, lock, arrived, bookVars, faults>>

MasterEnds(n) ==
    /\ night[n].pc = "master" /\ ~MasterAlive(n)
    /\ BeginPass(n, "post", IF master[n] = "passed" THEN 0 ELSE 1)
    /\ UNCHANGED <<manifest, masterVars, lock, arrived, bookVars, faults>>

(* _new_master_manifest takes the newest manifest that was not there       *)
(* before, whoever wrote it.                                               *)
NewestAccepted(n) ==
    LET new == Recorded \ night[n].before
    IN  \E m \in new : record[m] = "PASS" /\ \A k \in new \ {m} : <<m, k>> \in newer

Passed_ByManifest(n) == NewestAccepted(n)
Passed(n) == night[n].rc = 0 /\ NewestAccepted(n)

(* _resolve_acceptance, when the second pass has ended. *)
Verdict(n) ==
    /\ night[n].pc = "pass" /\ night[n].phase = "post" /\ recon[n] \in {"ok", "failed"}
    /\ night' = [night EXCEPT ![n].pc = "done", ![n].accepted = WithVerdict(n)]
    /\ manifest' = [manifest EXCEPT ![n] =
         IF WithVerdict(n) # Passes THEN "FAIL_LATE" ELSE IF Passed(n) THEN "PASS" ELSE "FAIL_MASTER"]
    /\ UNCHANGED <<masterVars, recon, lock, arrived, bookVars, faults>>

-----------------------------------------------------------------------------
(* One pass of the reconciler *)

ReconTo(n, s) == recon' = [recon EXCEPT ![n] = s]

(* _completed_broker_chain: an accepted ledger without a recovery record   *)
(* is taken to predate this program.                                       *)
Completed == ledger /\ recovery \in {"none", "PASS"}

(* plan_reconciliations: due records that this pass had a book to attach   *)
(* the statement to.                                                       *)
Plan(n) ==
    /\ recon[n] = "plan"
    /\ night' = [night EXCEPT ![n].due = arrived /\ book]
    /\ ReconTo(n, IF arrived /\ ~Completed /\ book THEN "ledger" ELSE "ok")
    /\ UNCHANGED <<manifest, masterVars, lock, arrived, bookVars, faults>>

(* A portfolio run fails closed on any lock file, a dead owner's too. *)
Refused(n) ==
    /\ recon[n] \in {"ledger", "post"} /\ lock # NoLock
    /\ ReconTo(n, "failed")
    /\ UNCHANGED <<nightVars, masterVars, lock, arrived, bookVars, faults>>

(* The forced ledger run invalidates what follows the ledger. *)
LedgerRun(n) ==
    /\ recon[n] = "ledger" /\ lock = NoLock
    /\ lock' = PortfolioPid(n)
    /\ rebuilt' = FALSE
    /\ ReconTo(n, "in_ledger")
    /\ UNCHANGED <<nightVars, masterVars, arrived, book, ledger, recovery, faults>>

LedgerEnds_Quiet(n) ==
    /\ recon[n] = "in_ledger"
    /\ lock' = NoLock
    /\ \/ ledger' = TRUE /\ ReconTo(n, "audit") /\ UNCHANGED faults
       \/ ledger' \in {FALSE, ledger} /\ ReconTo(n, "ok") /\ Fault
    /\ UNCHANGED <<nightVars, masterVars, arrived, book, recovery, rebuilt>>

LedgerEnds(n) ==
    /\ recon[n] = "in_ledger"
    /\ lock' = NoLock
    /\ \/ ledger' = TRUE /\ ReconTo(n, "audit") /\ UNCHANGED faults
       \/ ledger' \in {FALSE, ledger} /\ ReconTo(n, "failed") /\ Fault
    /\ UNCHANGED <<nightVars, masterVars, arrived, book, recovery, rebuilt>>

(* late_holding_coverage_gaps raises when a seal it reads does not hold. *)
Audit(n) ==
    /\ recon[n] = "audit"
    /\ \/ ReconTo(n, "post") /\ UNCHANGED faults
       \/ ReconTo(n, "failed") /\ Fault
    /\ UNCHANGED <<nightVars, masterVars, lock, arrived, bookVars>>

PostRun(n) ==
    /\ recon[n] = "post" /\ lock = NoLock
    /\ lock' = PortfolioPid(n)
    /\ recovery' = "RUNNING"
    /\ ReconTo(n, "in_post")
    /\ UNCHANGED <<nightVars, masterVars, arrived, book, ledger, rebuilt, faults>>

PostEnds(n) ==
    /\ recon[n] = "in_post"
    /\ lock' = NoLock
    /\ \/ /\ recovery' = "PASS" /\ rebuilt' = ledger
          /\ ReconTo(n, IF ledger THEN "ok" ELSE "failed")
          /\ UNCHANGED faults
       \/ recovery' = "FAIL" /\ ReconTo(n, "failed") /\ Fault /\ UNCHANGED rebuilt
    /\ UNCHANGED <<nightVars, masterVars, arrived, book, ledger>>

-----------------------------------------------------------------------------
(* A master *)

(* The order of modification times once the manifests of S are written.    *)
Wrote_Untimed(pairs, S) == pairs
Wrote(pairs, S) == {p \in pairs : p[1] \notin S /\ p[2] \notin S} \cup (S \X (Recorded \ S))

OperatorStarts(m) ==
    /\ m \in Operators /\ master[m] = "idle"
    /\ master' = [master EXCEPT ![m] = "starting"]
    /\ UNCHANGED <<nightVars, record, newer, recon, lock, arrived, bookVars, faults>>

(* A dead holder does not keep the lock, unless it cannot be judged. *)
Acquire(m) ==
    /\ master[m] = "starting"
    /\ \/ lock # NoLock /\ master' = [master EXCEPT ![m] = "failed"] /\ UNCHANGED lock
       \/ ~HolderAlive /\ master' = [master EXCEPT ![m] = "locked"] /\ lock' = MasterPid(m)
    /\ UNCHANGED <<nightVars, record, newer, recon, arrived, bookVars, faults>>

(* Under the lock the manifests of dead masters are closed, one after the  *)
(* other, but for those that cannot be read or judged.                     *)
Reconcile(m, k) ==
    /\ master[m] = "locked" /\ record[k] = "RUNNING" /\ ~MasterAlive(k)
    /\ record' = [record EXCEPT ![k] = "ABORTED"]
    /\ newer' = Wrote(newer, {k})
    /\ UNCHANGED <<nightVars, master, recon, lock, arrived, bookVars, faults>>

(* Then the run's own is opened. *)
OpenManifest(m) ==
    /\ master[m] = "locked"
    /\ record' = [record EXCEPT ![m] = "RUNNING"]
    /\ newer' = Wrote(newer, {m})
    /\ master' = [master EXCEPT ![m] = "building"]
    /\ UNCHANGED <<nightVars, recon, lock, arrived, bookVars, faults>>

(* The portfolio job builds the session's book unless it has one, on the   *)
(* statement if it is there and the job's groups include the ledger.       *)
Build(m) ==
    /\ master[m] = "building"
    /\ master' = [master EXCEPT ![m] = "sealing"]
    /\ book' = TRUE
    /\ \/ book /\ UNCHANGED <<ledger, rebuilt>>
       \/ ~book /\ \E l \in {FALSE, arrived} : ledger' = l /\ rebuilt' = l
    /\ UNCHANGED <<nightVars, record, newer, recon, lock, arrived, recovery, faults>>

SealMaster(m) ==
    /\ master[m] = "sealing"
    /\ lock' = NoLock
    /\ newer' = Wrote(newer, {m})
    /\ \/ /\ master' = [master EXCEPT ![m] = "passed"]
          /\ record' = [record EXCEPT ![m] = "PASS"]
          /\ UNCHANGED faults
       \/ /\ master' = [master EXCEPT ![m] = "failed"]
          /\ record' = [record EXCEPT ![m] = "FAIL"]
          /\ Fault
    /\ UNCHANGED <<nightVars, recon, arrived, bookVars>>

-----------------------------------------------------------------------------
(* The environment *)

StatementArrives ==
    /\ ~arrived /\ arrived' = TRUE
    /\ UNCHANGED <<nightVars, masterVars, recon, lock, bookVars, faults>>

Running(n) == night[n].pc \notin {"idle", "done", "dead"}

(* A nightly that is killed leaves the child it waits for running. *)
KillNightly(n) ==
    /\ Running(n) /\ Fault
    /\ Goto(n, "dead")
    /\ UNCHANGED <<manifest, masterVars, recon, lock, arrived, bookVars>>

KillMaster(m) ==
    /\ MasterAlive(m) /\ Fault
    /\ master' = [master EXCEPT ![m] = "dead"]
    /\ UNCHANGED <<nightVars, record, newer, recon, lock, arrived, bookVars>>

KillReconciler(n) ==
    /\ ReconAlive(n) /\ Fault
    /\ ReconTo(n, "failed")
    /\ UNCHANGED <<nightVars, masterVars, lock, arrived, bookVars>>

Shutdown ==
    /\ Fault
    /\ night' = [n \in Nightlies |-> IF Running(n) THEN [night[n] EXCEPT !.pc = "dead"] ELSE night[n]]
    /\ master' = [m \in Masters |-> IF MasterAlive(m) THEN "dead" ELSE master[m]]
    /\ recon' = [n \in Nightlies |-> IF ReconAlive(n) THEN "failed" ELSE recon[n]]
    /\ UNCHANGED <<manifest, record, newer, lock, arrived, bookVars>>

NightStep(n) ==
    \/ Load(n) \/ Probe(n) \/ Close(n) \/ Open(n) \/ Check(n) \/ Validate(n)
    \/ PreEnds(n) \/ MasterEnds(n) \/ Verdict(n)

ReconStep(n) ==
    \/ Plan(n) \/ Refused(n) \/ LedgerRun(n) \/ LedgerEnds(n) \/ Audit(n) \/ PostRun(n) \/ PostEnds(n)

MasterStep(m) ==
    \/ Acquire(m) \/ (\E k \in Masters : Reconcile(m, k)) \/ OpenManifest(m) \/ Build(m) \/ SealMaster(m)

Next ==
    \/ \E n \in Nightlies : Start(n) \/ NightStep(n) \/ ReconStep(n) \/ KillNightly(n) \/ KillReconciler(n)
    \/ \E m \in Masters : OperatorStarts(m) \/ MasterStep(m) \/ KillMaster(m)
    \/ StatementArrives
    \/ Shutdown

Spec == Init /\ [][Next]_vars

-----------------------------------------------------------------------------
(* Properties *)

(* PASS is earned by the nightly's own master and by both of its passes,   *)
(* though the manifest it reads may be another master's.                   *)
PassIsOwn ==
    \A n \in Nightlies : manifest[n] = "PASS" =>
        master[n] = "passed" /\ night[n].accepted = Passes

(* "the master still runs and the current book is still produced"          *)
(* (run_nightly.py:524): a failed reconciliation is reported only after    *)
(* the nightly's own master has been run.                                  *)
MasterRanAnyway ==
    \A n \in Nightlies : manifest[n] \in {"PASS", "FAIL_MASTER", "FAIL_LATE"} =>
        night[n].pc = "done" /\ master[n] \in {"passed", "failed", "dead"}

(* A nightly that works has closed the manifest of every nightly that was  *)
(* dead when it started and that it could read and judge, although that    *)
(* one's master may still be running; and no sweep closes a nightly that   *)
(* still runs.                                                             *)
DeadNightliesAreClosed ==
    /\ \A n \in Nightlies : manifest[n] # "none" =>
         \A m \in night[n].gone : manifest[m] # "RUNNING"
    /\ \A n \in Nightlies : manifest[n] = "ABORTED" => Gone(n)

(* After a nightly that had the statement and a book to attach it to said  *)
(* PASS, the session lacks an accepted ledger only if another nightly is   *)
(* at work or has said otherwise.                                          *)
MissingLedgerIsReported ==
    (\E n \in Nightlies : manifest[n] = "PASS" /\ night[n].due) /\ ~ledger =>
        \E n \in Nightlies : manifest[n] \in {"RUNNING", "FAIL_LATE", "ABORTED"}
=============================================================================
