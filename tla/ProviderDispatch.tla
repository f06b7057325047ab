--------------------------- MODULE ProviderDispatch ---------------------------
(***************************************************************************)
(* One day of independent provider ingestion: run_due.py, which a          *)
(* scheduled task polls and an operator may also start; capture.py, the    *)
(* child it launches and an operator may also run by hand; and             *)
(* provider_observations.sqlite, which they share under two file locks,    *)
(* with the migration of the legacy store as a further writer.             *)
(*                                                                         *)
(* The clock counts polling intervals.  A SQLite transaction is one step.  *)
(* A run's digest is its position in capture_runs, and 0 is EMPTY_DIGEST;  *)
(* PASS stands for PASS_WITH_WARNINGS as well.  Bounds: LastTick, the      *)
(* number of attempts (the code's own), MaxFaults crashes and failures.    *)
(***************************************************************************)
EXTENDS Integers, Sequences, FiniteSets, FiniteSetsExt

CONSTANTS
    Dispatchers,   \* those who start run_due.py
    Task,          \* the scheduled task, one of them (its instances never overlap)
    Phases,        \* capture phases of the day
    Due,           \* [Phases -> Nat]: the scheduled time of a phase
    Grace,         \* [Phases -> Nat]: phase_grace_minutes
    MaxAttempts,   \* max_scheduled_attempts
    ChildTimeout,  \* capture_timeout_minutes
    StaleAfter,    \* dispatch_stale_minutes
    Slack,         \* the time that may pass over the steps of a dispatcher, its lock waits included
    LastTick,
    Manual,        \* cycles an operator captures by hand
    Legacy,        \* cycles that are migrated from the legacy store
    NoLock,
    MaxFaults

ASSUME ConstantsAssumption ==
    /\ Task \in Dispatchers
    /\ Due \in [Phases -> Nat] /\ Grace \in [Phases -> Nat]
    /\ MaxAttempts \in Nat \ {0}
    /\ {ChildTimeout, StaleAfter, Slack, LastTick, MaxFaults} \subseteq Nat
    /\ ChildTimeout < StaleAfter

VARIABLES
    clock,
    disp,     \* run_due.py processes
    row,      \* scheduled_dispatch_attempts
    child,    \* capture.py processes, and the migration, by cycle
    capLock,  \* holder of the .capture.lock file lock
    writer,   \* the child that holds the .writer.lock file lock
    runs,     \* capture_runs, in the order of their rowid
    vouched,  \* the phases an invocation that returned 0 was asked to vouch for
    faults

vars == <<clock, disp, row, child, capLock, writer, runs, vouched, faults>>
lockVars == <<capLock, writer>>

Scheduled == Phases \X (1..MaxAttempts)
Captures == Scheduled \cup Manual
Writers == Captures \cup Legacy
CyclesOf(p) == {c \in Scheduled : c[1] = p}
NoCycle == <<>>

(* Scheduled cycles, manual ones and migrated ones have ids of different   *)
(* shapes.                                                                 *)
ASSUME CyclesAssumption ==
    /\ Scheduled \cap Manual = {} /\ Legacy \cap Captures = {}
    /\ NoLock \notin Writers /\ NoCycle \notin Scheduled

Off == [st |-> "off", now |-> 0, since |-> 0, cycle |-> NoCycle, seen |-> {}, rc |-> 0]
Idle == [Off EXCEPT !.st = "idle"]
Quiet == [st |-> "none", status |-> "FAIL", prev |-> 0]

(* The states in which a dispatcher has a STARTED row to settle. *)
Owning == {"abort", "launch", "waiting", "seal"}

DispStates ==
    [st : {"idle", "off", "sweep", "look", "choose", "record", "report"} \cup Owning,
     now : 0..LastTick, since : 0..LastTick, cycle : Scheduled \cup {NoCycle},
     seen : SUBSET Scheduled, rc : {0, 1}]
Attempts == [state : {"none", "STARTED", "PASS", "FAIL", "INTERRUPTED"}, at : 0..LastTick]
ChildStates ==
    [st : {"none", "waiting", "pulling", "reading", "inserting", "sealing", "ok", "failed"},
     status : {"PASS", "FAIL", "MIGRATED"}, prev : Nat]
CaptureRuns == [cycle : Writers, status : {"PASS", "FAIL", "MIGRATED"}, prev : Nat]

TypeOK ==
    /\ clock \in 0..LastTick
    /\ disp \in [Dispatchers -> DispStates]
    /\ row \in [Scheduled -> Attempts]
    /\ child \in [Writers -> ChildStates]
    /\ capLock \in Captures \cup {NoLock}
    /\ writer \in Writers \cup {NoLock}
    /\ runs \in Seq(CaptureRuns)
    /\ vouched \subseteq Phases
    /\ faults \in 0..MaxFaults

Init ==
    /\ clock = 0
    /\ disp = [d \in Dispatchers |-> Idle]
    /\ row = [c \in Scheduled |-> [state |-> "none", at |-> 0]]
    /\ child = [c \in Writers |-> Quiet]
    /\ capLock = NoLock /\ writer = NoLock
    /\ runs = <<>>
    /\ vouched = {}
    /\ faults = 0

Fault == faults < MaxFaults /\ faults' = faults + 1

-----------------------------------------------------------------------------
(* The store *)

Accepted(i) == runs[i].status \in {"PASS", "MIGRATED"}
Captured(c) == \E i \in DOMAIN runs : runs[i].cycle = c /\ Accepted(i)

(* ORDER BY rowid DESC LIMIT 1. *)
LatestOf(S) == IF S = {} THEN 0 ELSE Max(S)
AcceptedHead == LatestOf({i \in DOMAIN runs : Accepted(i)})

(* The run names the run that was the accepted head when it was appended. *)
LinkHolds(i) == runs[i].prev = LatestOf({j \in 1..(i - 1) : Accepted(j)})

(* A phase counts when its capture and its dispatch both passed. *)
Covered(p) == \E c \in CyclesOf(p) : row[c].state = "PASS" /\ Captured(c)

(* finalize_dispatch_attempt refuses a row that is terminal already. *)
Finalize(c, state) ==
    row' = IF row[c].state = "STARTED" THEN [row EXCEPT ![c].state = state] ELSE row

(* interrupt_stale_dispatch_attempts *)
Stale_AtTimeout(c, t) == row[c].state = "STARTED" /\ row[c].at + ChildTimeout <= t
Stale_Swapped(c, t) == row[c].state = "STARTED" /\ t + StaleAfter < row[c].at
Stale(c, t) == row[c].state = "STARTED" /\ row[c].at + StaleAfter < t

-----------------------------------------------------------------------------
(* The dispatcher *)

Elapsed(p, t) == Due[p] <= t
IsDue(p, t) == Elapsed(p, t) /\ t <= Due[p] + Grace[p]

Goto(d, s) == disp' = [disp EXCEPT ![d].st = s]
Leave(d) == disp' = [disp EXCEPT ![d] = Off]

(* The task is started for ever, an operator's dispatcher once.  Whatever  *)
(* an invocation decides about time it decides by its own start.           *)
Start(d) ==
    /\ disp[d].st = "idle" \/ (disp[d].st = "off" /\ d = Task)
    /\ disp' = [disp EXCEPT ![d] = [Off EXCEPT !.st = "sweep", !.now = clock, !.since = clock]]
    /\ UNCHANGED <<clock, row, child, lockVars, runs, vouched, faults>>

Sweep(d) ==
    /\ disp[d].st = "sweep" /\ writer = NoLock
    /\ row' = [c \in Scheduled |->
                 IF Stale(c, disp[d].now) THEN [row[c] EXCEPT !.state = "INTERRUPTED"] ELSE row[c]]
    /\ Goto(d, "look")
    /\ UNCHANGED <<clock, child, lockVars, runs, vouched, faults>>

(* due_phases, and the first of the two reads: today's accepted captures. *)
Look(d) ==
    /\ disp[d].st = "look"
    /\ disp' = IF \E p \in Phases : IsDue(p, disp[d].now)
                 THEN [disp EXCEPT ![d].st = "choose", ![d].seen = {c \in Scheduled : Captured(c)}]
                 ELSE [disp EXCEPT ![d].st = "report"]
    /\ UNCHANGED <<clock, row, child, lockVars, runs, vouched, faults>>

Tried(p) == {c \in CyclesOf(p) : row[c].state # "none"}
HasAttemptsLeft_Inclusive(p) == Cardinality(Tried(p)) <= MaxAttempts
HasAttemptsLeft(p) == Cardinality(Tried(p)) < MaxAttempts

(* The second read, today's dispatches, and the choice of the earliest due *)
(* phase that has not passed and has attempts left.                        *)
Choose(d) ==
    /\ disp[d].st = "choose"
    /\ LET passed(p) == \E c \in CyclesOf(p) : row[c].state = "PASS" /\ c \in disp[d].seen
           open == {p \in Phases : IsDue(p, disp[d].now) /\ ~passed(p)}
           able == {p \in open : HasAttemptsLeft(p)}
       IN  IF able = {}
             THEN disp' = [disp EXCEPT ![d].st = "report", ![d].seen = {},
                                       ![d].rc = IF open = {} THEN 0 ELSE 1]
             ELSE \E p \in able :
                    /\ \A q \in able : Due[p] <= Due[q]
                    /\ disp' = [disp EXCEPT ![d].st = "record", ![d].seen = {},
                                            ![d].cycle = <<p, Cardinality(Tried(p)) + 1>>]
    /\ UNCHANGED <<clock, row, child, lockVars, runs, vouched, faults>>

(* record_dispatch_started raises when the attempt exists. *)
Record(d) ==
    /\ disp[d].st = "record" /\ writer = NoLock
    /\ LET c == disp[d].cycle IN
       IF row[c].state = "none"
         THEN row' = [row EXCEPT ![c] = [state |-> "STARTED", at |-> disp[d].now]] /\ Goto(d, "launch")
         ELSE UNCHANGED row /\ Leave(d)
    /\ UNCHANGED <<clock, child, lockVars, runs, vouched, faults>>

Abort(d) ==
    /\ disp[d].st = "abort" /\ writer = NoLock
    /\ Finalize(disp[d].cycle, "FAIL")
    /\ Leave(d)
    /\ UNCHANGED <<clock, child, lockVars, runs, vouched, faults>>

Ends(d, rc) == disp' = [disp EXCEPT ![d].st = "seal", ![d].since = clock, ![d].rc = rc]

(* The start artifact, without which the attempt is failed, and the child, *)
(* which may not start (return code 127).                                  *)
Launch(d) ==
    /\ disp[d].st = "launch"
    /\ \/ /\ disp' = [disp EXCEPT ![d].st = "waiting", ![d].since = clock]
          /\ child' = [child EXCEPT ![disp[d].cycle] = [Quiet EXCEPT !.st = "waiting"]]
          /\ UNCHANGED faults
       \/ Goto(d, "abort") /\ Fault /\ UNCHANGED child
       \/ Ends(d, 1) /\ Fault /\ UNCHANGED child
    /\ UNCHANGED <<clock, row, lockVars, runs, vouched>>

ChildEnded(d) ==
    /\ disp[d].st = "waiting"
    /\ LET c == disp[d].cycle IN
         /\ child[c].st \in {"ok", "failed"}
         /\ Ends(d, IF child[c].st = "ok" THEN 0 ELSE 1)
    /\ UNCHANGED <<clock, row, child, lockVars, runs, vouched, faults>>

Freed(lock, S) == IF lock \in S THEN NoLock ELSE lock

(* Processes that end, by themselves or not, drop their file locks; an     *)
(* open transaction is rolled back.                                        *)
Dies(S) ==
    /\ child' = [c \in Writers |-> IF c \in S THEN [Quiet EXCEPT !.st = "failed"] ELSE child[c]]
    /\ capLock' = Freed(capLock, S)
    /\ writer' = Freed(writer, S)

(* subprocess.run kills the child at its timeout, and the code is 124. *)
TimeOut_Off(d) == FALSE
TimeOut(d) ==
    /\ disp[d].st = "waiting" /\ clock >= disp[d].since + ChildTimeout
    /\ child[disp[d].cycle].st \notin {"ok", "failed"}
    /\ Dies({disp[d].cycle})
    /\ Ends(d, 1)
    /\ UNCHANGED <<clock, row, runs, vouched, faults>>

(* The terminal artifact, and the terminal row under the writer lock; a    *)
(* row that another dispatcher has interrupted makes this one raise.       *)
Seal(d) ==
    /\ disp[d].st = "seal" /\ writer = NoLock
    /\ LET c == disp[d].cycle IN
       \E sealed \in BOOLEAN :
         /\ IF sealed THEN UNCHANGED faults ELSE Fault
         /\ LET passed == disp[d].rc = 0 /\ sealed IN
              /\ Finalize(c, IF passed THEN "PASS" ELSE "FAIL")
              /\ disp' = [disp EXCEPT ![d] =
                   IF row[c].state = "STARTED"
                     THEN [Off EXCEPT !.st = "report", !.now = disp[d].now, !.since = disp[d].since,
                                     !.rc = IF passed THEN 0 ELSE 1]
                     ELSE Off]
    /\ UNCHANGED <<clock, child, lockVars, runs, vouched>>

(* verify_store_head: the newest run that was not migrated continues the chain. *)
HeadHolds ==
    LET newest == LatestOf({i \in DOMAIN runs : runs[i].status # "MIGRATED"})
    IN  newest = 0 \/ LinkHolds(newest)

RequiredPhases_Due(t) == {p \in Phases : IsDue(p, t)}
RequiredPhases(t) == {p \in Phases : Elapsed(p, t)}

(* _emit_verified_summary and the return code of main. *)
Report(d) ==
    /\ disp[d].st = "report"
    /\ vouched' = IF /\ disp[d].rc = 0 /\ HeadHolds
                     /\ \A p \in RequiredPhases(disp[d].now) : Covered(p)
                    THEN vouched \cup {p \in Phases : Elapsed(p, disp[d].now)}
                    ELSE vouched
    /\ Leave(d)
    /\ UNCHANGED <<clock, row, child, lockVars, runs, faults>>

(* writer_lock raises at its deadline; so does the dispatcher. *)
WriterTimeout(d) ==
    /\ disp[d].st \in {"sweep", "record", "abort", "seal"} /\ writer # NoLock
    /\ Leave(d)
    /\ UNCHANGED <<clock, row, child, lockVars, runs, vouched, faults>>

-----------------------------------------------------------------------------
(* The capture child, a manual capture, a migration *)

Now(c, s) == child' = [child EXCEPT ![c].st = s]
Done(c, s) == child' = [child EXCEPT ![c] = [Quiet EXCEPT !.st = s]]
Frees(c) == capLock' = Freed(capLock, {c}) /\ writer' = Freed(writer, {c})

(* An operator may run the same manual cycle again, a migration once. *)
StartByHand(c) ==
    /\ \/ c \in Manual /\ child[c].st \in {"none", "ok", "failed"}
       \/ c \in Legacy /\ child[c].st = "none"
    /\ child' = [child EXCEPT ![c] = [Quiet EXCEPT !.st = "waiting"]]
    /\ UNCHANGED <<clock, disp, row, lockVars, runs, vouched, faults>>

Prior(c) == {i \in DOMAIN runs : runs[i].cycle = c}

(* The service lock, held for the whole capture; the store opened for      *)
(* writing; and require_scheduled_dispatch, unless the cycle has a run     *)
(* already: one that passed is not captured again, nor one that failed.    *)
EnterCapture(c) ==
    /\ c \in Captures /\ child[c].st = "waiting" /\ capLock = NoLock /\ writer = NoLock
    /\ IF Prior(c) = {} /\ (c \in Scheduled => row[c].state = "STARTED")
         THEN capLock' = c /\ Now(c, "pulling")
         ELSE UNCHANGED capLock /\ Done(c, IF Captured(c) THEN "ok" ELSE "failed")
    /\ UNCHANGED <<clock, disp, row, writer, runs, vouched, faults>>

(* Every request has been made, and _provider_acceptance has judged them.  *)
Results(c) == IF c \in Legacy THEN {"MIGRATED"} ELSE {"PASS", "FAIL"}
Ready(c) == child[c].st = IF c \in Legacy THEN "waiting" ELSE "pulling"

TakeWriter_NoLock(c) ==
    /\ Ready(c)
    /\ \E s \in Results(c) : child' = [child EXCEPT ![c].st = "reading", ![c].status = s]
    /\ UNCHANGED <<clock, disp, row, lockVars, runs, vouched, faults>>

TakeWriter(c) ==
    /\ Ready(c) /\ writer = NoLock
    /\ \E s \in Results(c) : child' = [child EXCEPT ![c].st = "reading", ![c].status = s]
    /\ writer' = c
    /\ UNCHANGED <<clock, disp, row, capLock, runs, vouched, faults>>

(* persist_capture reads the accepted head before its transaction begins. *)
ReadHead(c) ==
    /\ child[c].st = "reading"
    /\ child' = [child EXCEPT ![c].st = "inserting", ![c].prev = AcceptedHead]
    /\ UNCHANGED <<clock, disp, row, lockVars, runs, vouched, faults>>

Insert(c) ==
    /\ child[c].st = "inserting"
    /\ runs' = Append(runs, [cycle |-> c, status |-> child[c].status, prev |-> child[c].prev])
    /\ Now(c, "sealing")
    /\ UNCHANGED <<clock, disp, row, lockVars, vouched, faults>>

(* The child returns 0 for an accepted capture in a store that verifies. *)
Verdict_AnyStatus(c) == IF \A i \in DOMAIN runs : LinkHolds(i) THEN "ok" ELSE "failed"
Verdict(c) ==
    IF child[c].status # "FAIL" /\ \A i \in DOMAIN runs : LinkHolds(i) THEN "ok" ELSE "failed"

SealCapture(c) ==
    /\ child[c].st = "sealing"
    /\ \/ Done(c, Verdict(c)) /\ UNCHANGED faults
       \/ Done(c, "failed") /\ Fault
    /\ Frees(c)
    /\ UNCHANGED <<clock, disp, row, runs, vouched>>

(* A lock could not be had within writer_lock_timeout_sec. *)
LockTimeout(c) ==
    /\ \/ c \in Captures /\ child[c].st = "waiting" /\ (capLock # NoLock \/ writer # NoLock)
       \/ Ready(c) /\ writer # NoLock
    /\ Done(c, "failed")
    /\ Frees(c)
    /\ UNCHANGED <<clock, disp, row, runs, vouched, faults>>

-----------------------------------------------------------------------------
(* The environment *)

Running == {c \in Writers : child[c].st \notin {"none", "ok", "failed"}}

(* The dispatcher dies; its child goes on, and nobody times it out. *)
Crash(d) ==
    /\ disp[d].st \notin {"idle", "off"} /\ Fault
    /\ Leave(d)
    /\ UNCHANGED <<clock, row, child, lockVars, runs, vouched>>

ChildDies(c) ==
    /\ c \in Running /\ Fault
    /\ Dies({c})
    /\ UNCHANGED <<clock, disp, row, runs, vouched>>

Shutdown ==
    /\ Fault
    /\ disp' = [d \in Dispatchers |-> IF disp[d].st = "idle" THEN Idle ELSE Off]
    /\ Dies(Running)
    /\ UNCHANGED <<clock, row, runs, vouched>>

MayWait(d) ==
    CASE disp[d].st \in {"idle", "off"} -> TRUE
      [] disp[d].st = "waiting" -> clock < disp[d].since + ChildTimeout
      [] OTHER -> clock < disp[d].since + Slack

Tick ==
    /\ clock < LastTick
    /\ \A d \in Dispatchers : MayWait(d)
    /\ clock' = clock + 1
    /\ UNCHANGED <<disp, row, child, lockVars, runs, vouched, faults>>

DispatchStep(d) ==
    \/ Sweep(d) \/ Look(d) \/ Choose(d) \/ Record(d) \/ Abort(d) \/ Launch(d)
    \/ ChildEnded(d) \/ TimeOut(d) \/ Seal(d) \/ Report(d) \/ WriterTimeout(d)

CaptureStep(c) ==
    \/ EnterCapture(c) \/ TakeWriter(c) \/ ReadHead(c) \/ Insert(c)
    \/ SealCapture(c) \/ LockTimeout(c)

Next ==
    \/ \E d \in Dispatchers : Start(d) \/ DispatchStep(d) \/ Crash(d)
    \/ \E c \in Writers : StartByHand(c) \/ CaptureStep(c) \/ ChildDies(c)
    \/ Shutdown
    \/ Tick

Spec == Init /\ [][Next]_vars

(* The scheduled task polls for ever, processes that were started run, and *)
(* time passes.  A provider may answer slowly for ever: a pull is not fair. *)
Fairness ==
    /\ WF_vars(Start(Task))
    /\ \A d \in Dispatchers : WF_vars(DispatchStep(d))
    /\ \A c \in Writers : WF_vars(CaptureStep(c) /\ child[c].st # "pulling")
    /\ WF_vars(Tick)

FairSpec == Spec /\ Fairness

-----------------------------------------------------------------------------
(* Properties *)

(* A dispatch is PASS only over a capture that is in the store as accepted. *)
PassedIsCaptured == \A c \in Scheduled : row[c].state = "PASS" => Captured(c)

(* Every capture run names the accepted run before it, whoever appends:    *)
(* scheduled and manual captures, migrations, and children that are killed *)
(* or outlive their dispatcher.                                            *)
ChainHolds == \A i \in DOMAIN runs : LinkHolds(i)

(* "A STARTED row older than the separately configured stale threshold     *)
(* therefore represents a parent crash" (store.py:617-619): the row of a   *)
(* dispatcher that is alive is not interrupted under it, and belongs to no *)
(* other dispatcher.                                                       *)
LiveAttemptsStand ==
    \A d \in Dispatchers : disp[d].st \in Owning =>
        /\ row[disp[d].cycle].state = "STARTED"
        /\ \A e \in Dispatchers \ {d} : disp[e].st \in Owning => disp[e].cycle # disp[d].cycle

(* "missed scheduled phases exit nonzero" (run_due.py:8-9): when an        *)
(* invocation has returned 0, every phase whose time had passed by its     *)
(* start has a cycle that passed in the store and in the scheduler.        *)
CleanExitIsCovered ==
    \A p \in vouched : \E c \in CyclesOf(p) : row[c].state = "PASS" /\ Captured(c)

(* A STARTED row does not stay for ever, whatever became of its dispatcher. *)
StartedIsSettled == \A c \in Scheduled : (row[c].state = "STARTED") ~> (row[c].state # "STARTED")

(* Every invocation ends: the child's timeout ends the wait for a provider *)
(* that never answers.                                                     *)
InvocationsEnd == \A d \in Dispatchers : (disp[d].st \notin {"idle", "off"}) ~> (disp[d].st = "off")
=============================================================================
