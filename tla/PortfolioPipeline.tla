-------------------------- MODULE PortfolioPipeline ---------------------------
(***************************************************************************)
(* 18_run_portfolio_pipeline.py with core/artifacts.py: one dated run      *)
(* directory, built and rebuilt by pipeline runs that are forced, resumed, *)
(* interrupted or killed.                                                  *)
(*                                                                         *)
(* A group is a sequence of scripts <<stage, kind>>.  The last script of a *)
(* stage seals its manifest, the gate the orchestrator reads; the scripts  *)
(* before it are the stage's builder, and 05c is the optional "spread".    *)
(* What a script computes is left out, and so are the scripts that leave   *)
(* nothing in the run directory.  A script is one step here, cut short at  *)
(* any point of its work: the machine lock keeps other runs away.          *)
(***************************************************************************)
EXTENDS Integers, SequencesExt

CONSTANTS
    Requests,   \* the group lists that are asked for
    Cadences,   \* those of them that are a whole cadence
    MaxRuns,    \* bound on the number of runs
    MaxFaults   \* bound on kills, interrupts and scripts that fail

ASSUME ConstantsAssumption ==
    Cadences \subseteq Requests /\ MaxRuns \in Nat /\ MaxFaults \in Nat

VARIABLES
    run,        \* the current or last run
    meta,       \* acceptance in its orchestration meta
    dir,        \* the run directory
    statement,  \* the broker statement of the day is on disk
    runs, faults

vars == <<run, meta, dir, statement, runs, faults>>

Groups == [
    scores |-> <<<<"scores", "build">>, <<"scores", "seal">>>>,
    risk |-> <<<<"risk", "build">>, <<"risk", "spread">>, <<"risk", "seal">>>>,
    optimizer |-> <<<<"optimizer", "build">>, <<"optimizer", "seal">>>>,
    costs |-> <<<<"costs", "build">>, <<"costs", "seal">>>>,
    rotation |-> <<<<"rotation", "build">>, <<"rotation", "seal">>>>,
    macro |-> <<<<"macro", "build">>, <<"macro", "seal">>>>,
    macro_contract |-> <<<<"macro", "build">>, <<"macro", "seal">>>>,
    bl |-> <<<<"bl", "build">>, <<"bl", "seal">>>>,
    sleeves |-> <<<<"sleeves", "build">>, <<"sleeves", "seal">>>>,
    ledger |-> <<<<"ledger", "build">>, <<"ledger", "seal">>>>,
    exits |-> <<<<"exits", "build">>, <<"exits", "seal">>, <<"exit_book", "seal">>>>,
    payout |-> <<<<"payout", "seal">>>>,
    governor |-> <<<<"governor", "seal">>>>,
    bootstrap_final |-> <<<<"bootstrap", "seal">>>>,
    final |-> <<<<"final", "seal">>>>,
    earnings |-> <<<<"earnings", "build">>, <<"earnings", "seal">>>>,
    monitor |-> <<<<"universe", "seal">>, <<"monitor", "seal">>>>,
    monitor_filter |-> <<<<"overlay", "seal">>, <<"optimizer", "build">>, <<"optimizer", "seal">>,
                         <<"costs", "build">>, <<"costs", "seal">>>>,
    final_report |-> <<<<"final_report", "seal">>>>]

Stages == {"scores", "risk", "optimizer", "costs", "rotation", "macro", "bl", "sleeves", "ledger",
           "exits", "exit_book", "payout", "governor", "bootstrap", "final", "earnings",
           "universe", "monitor", "overlay", "final_report"}
Scripts == UNION {Range(Groups[g]) : g \in DOMAIN Groups}

Optional_Shadow(s) == s[2] = "spread" \/ s[1] = "payout"
Optional(s) == s[2] = "spread"
IntrinsicRepass == {"monitor_filter"}
NoForce == {<<"earnings", "seal">>}
CurrentBroker == {"ledger", "exits", "payout"}
BrokerChain == {"bootstrap_final", "monitor", "monitor_filter"}

(* DEPENDENCIES, by stage: "final" is the bootstrap book too, "exits" the  *)
(* exit-adjusted book too, and 05c produces "liquidity".                   *)
Dependencies(s) ==
    CASE s[2] = "spread" -> {"risk", "costs", "bl", "sleeves", "exits", "payout", "governor", "final"}
      [] s[1] = "scores" -> {"risk", "optimizer", "costs", "rotation", "macro", "bl", "sleeves",
                             "exits", "payout", "governor", "final"}
      [] s[1] = "risk" -> {"optimizer", "costs", "rotation", "macro", "bl", "sleeves", "exits",
                           "payout", "governor", "final"}
      [] s[1] = "optimizer" -> {"costs", "rotation", "macro", "bl", "sleeves", "exits", "payout",
                                "governor", "final"}
      [] s[1] = "costs" -> {"bl", "sleeves", "exits", "payout", "governor", "final"}
      [] s[1] \in {"rotation", "macro"} -> {"bl", "sleeves", "exits", "final"}
      [] s[1] = "bl" -> {"sleeves", "exits", "final"}
      [] s[1] = "sleeves" -> {"exits", "final"}
      [] s[1] = "ledger" -> {"exits", "payout", "final"}
      [] s[1] \in {"exits", "exit_book"} -> {"payout", "final"}
      [] s[1] \in {"payout", "governor"} -> {"final"}
      [] OTHER -> {}

(* CONSUMER_FILES in the order of sorted(DEPENDENCIES[...]), and the gates *)
(* gone when invalidate_dependents has come to the n-th of them.           *)
Files == <<<<"bl", "bl">>, <<"costs", "costs">>, <<"exits", "exits">>, <<"exits", "exit_book">>,
           <<"final", "final">>, <<"final", "bootstrap">>, <<"governor", "governor">>,
           <<"macro", "macro">>, <<"optimizer", "optimizer">>, <<"payout", "payout">>,
           <<"risk", "risk">>, <<"rotation", "rotation">>, <<"sleeves", "sleeves">>>>
Unlinked(s, n) == {Files[k][2] : k \in {j \in 1..n : Files[j][1] \in Dependencies(s)}}

(* The stages whose files a gate hashes: as semantic digests the           *)
(* orchestrator cannot read, or by path, and then it re-hashes them.       *)
(* Left out, with gates that are accepted no less often than the code's:   *)
(* the layers the final book records in shadow, and the ledger's files and *)
(* the final book that the universe takes without a bootstrap book.        *)
RiskReads == {"scores"}
OptimizerReads == {"scores", "risk"}
CostReads == {"scores", "risk", "optimizer"}
RotationReads == {"risk", "optimizer", "costs"}
MacroReads == {"scores", "optimizer"}
BlReads == {"scores", "risk", "optimizer", "costs", "rotation", "macro"}
SleeveReads == {"scores", "risk", "rotation", "macro", "bl"}
ExitReads == {"scores", "ledger"}
ExitBookReads == {"risk", "ledger", "exits"}
PayoutReads == {"optimizer", "costs"}
GovernorReads == {"risk", "costs"}
FinalReads == {"optimizer", "costs"}
EarningsReads == {"scores"}
UniverseReads == {"scores", "bootstrap"}
MonitorReads == {"universe"}
OverlayReads == {"scores", "monitor"}
ReportReads == {"scores", "macro", "earnings", "monitor", "final"}

Reads(p) ==
    CASE p = "risk" -> RiskReads
      [] p = "optimizer" -> OptimizerReads
      [] p = "costs" -> CostReads
      [] p = "rotation" -> RotationReads
      [] p = "macro" -> MacroReads
      [] p = "bl" -> BlReads
      [] p = "sleeves" -> SleeveReads
      [] p = "exits" -> ExitReads
      [] p = "exit_book" -> ExitBookReads
      [] p = "payout" -> PayoutReads
      [] p = "governor" -> GovernorReads
      [] p \in {"final", "bootstrap"} -> FinalReads
      [] p = "earnings" -> EarningsReads
      [] p = "universe" -> UniverseReads
      [] p = "monitor" -> MonitorReads
      [] p = "overlay" -> OverlayReads
      [] p = "final_report" -> ReportReads
      [] OTHER -> {}

ByPath == {"earnings", "universe", "monitor", "overlay", "final_report"}
Readers(p) == {c \in Stages : p \in Reads(c)}

Statuses == {"none", "RUNNING", "PASS", "PASS_WITH_DEFERRED", "PASS_WITH_ADVISORY_WARNINGS", "FAIL"}

TypeOK ==
    /\ run \in [on : BOOLEAN, request : Requests \cup {<<>>}, force : BOOLEAN,
                plan : Seq(DOMAIN Groups), g : Nat, k : Nat, recovery : BOOLEAN, soft : BOOLEAN,
                deferred : BOOLEAN, clean : BOOLEAN]
    /\ meta \in Statuses
    /\ dir \in [built : SUBSET Scripts, seal : [Stages -> {"none", "PASS", "FAIL"}],
                outdated : SUBSET Stages, torn : SUBSET Stages, marker : BOOLEAN,
                filtered : BOOLEAN]
    /\ statement \in BOOLEAN
    /\ runs \in 0..MaxRuns /\ faults \in 0..MaxFaults

Empty == [built |-> {}, seal |-> [p \in Stages |-> "none"], outdated |-> {}, torn |-> {},
          marker |-> FALSE, filtered |-> FALSE]
NoRun == [on |-> FALSE, request |-> <<>>, force |-> FALSE, plan |-> <<>>, g |-> 0, k |-> 0,
          recovery |-> FALSE, soft |-> FALSE, deferred |-> FALSE, clean |-> TRUE]

Init ==
    /\ run = NoRun /\ meta = "none" /\ dir = Empty /\ statement \in BOOLEAN
    /\ runs = 0 /\ faults = 0

(***************************************************************************)
(* The run directory                                                       *)
(***************************************************************************)
Accepts_SealOnly(d, p) == d.seal[p] = "PASS" /\ (p = "final_report" => ~d.marker)

(* manifest_acceptance(...).startswith("PASS"): inputs named by path are   *)
(* hashed again, and the report is stale as long as its marker is there.   *)
Accepts(d, p) ==
    /\ d.seal[p] = "PASS"
    /\ p \in ByPath => p \notin d.outdated
    /\ p = "final_report" => ~d.marker

(* The gates of C are gone; the readers that name them by path see it.     *)
Without(d, C) ==
    [d EXCEPT !.seal = [p \in Stages |-> IF p \in C THEN "none" ELSE @[p]],
              !.outdated = (@ \cup {c \in ByPath : Reads(c) \cap C # {}}) \ C,
              !.torn = @ \ C]

(* A file of stage p was written: gates that hashed it no longer match.    *)
Rewritten(d, p) ==
    [d EXCEPT !.outdated = @ \cup {c \in Readers(p) : d.seal[c] # "none"},
              !.filtered = @ /\ p # "overlay"]

(* invalidate_dependents: the marker first, then one gate after another.   *)
MarksReport(s) == "final" \in Dependencies(s)
Marked(d, s) == IF MarksReport(s) THEN [d EXCEPT !.marker = TRUE] ELSE d
InvalidatedUpTo(d, s, n) == Without(Marked(d, s), Unlinked(s, n))
Invalidated(d, s) == InvalidatedUpTo(d, s, Len(Files))

(* What a forced script removes of its own stage: 01, 09, 12, 17 and 21    *)
(* the gate before they invalidate, 05, 05c, 23 and the validators the     *)
(* gate after it, 27, 30 and 33 their own files and not the gate.          *)
OwnFirst == {"scores", "optimizer", "costs", "rotation", "macro"}
KeepsGate == {"sleeves", "ledger", "exits"}
SingleStages == {"payout", "governor", "bootstrap", "final", "universe", "monitor", "overlay",
                 "final_report", "exit_book", "earnings"}
Cleared(d, s) ==
    IF s[1] \in SingleStages THEN d
    ELSE IF s[2] = "build" /\ s[1] \in KeepsGate
         THEN [d EXCEPT !.built = @ \ {s}, !.torn = @ \cup {p \in {s[1]} : d.seal[p] # "none"}]
         ELSE Without(d, {s[1]})

Prepared(d, s) ==
    IF s[2] = "build" /\ s[1] \in OwnFirst THEN Invalidated(Cleared(d, s), s)
    ELSE Cleared(Invalidated(d, s), s)

(* The directories a forced script leaves when it stops while preparing.   *)
Preparing(d, s) ==
    LET first == IF s[2] = "build" /\ s[1] \in OwnFirst THEN Cleared(d, s) ELSE d
    IN  {d, first, Prepared(d, s)}
            \cup {InvalidatedUpTo(first, s, n) : n \in 0..Len(Files)}

(* 20 marks the report stale before it writes the deployable book, and 21  *)
(* before it replaces a report by force.                                   *)
Announced(d, s, force) ==
    IF s[1] = "final" \/ (s[1] = "final_report" /\ force) THEN [d EXCEPT !.marker = TRUE] ELSE d

(* The first of its files is written, the gate not yet.  A report is       *)
(* staged beside the accepted one.                                         *)
Begun(d, s) ==
    IF s[2] # "seal" THEN Rewritten([d EXCEPT !.built = @ \cup {s}], s[1])
    ELSE IF s[1] \in SingleStages \ {"final_report"}
         THEN Rewritten([d EXCEPT !.torn = @ \cup {p \in {s[1]} : d.seal[p] # "none"}], s[1])
         ELSE d

Sealed(d, p, acceptance) ==
    Rewritten([d EXCEPT !.seal[p] = acceptance, !.outdated = @ \ {p}, !.torn = @ \ {p}], p)

(* publish_final_report_pair replaces the pair and clears the marker last. *)
Published(d) == Sealed(d, "final_report", "PASS")

Completed(d, s, group) ==
    IF s = <<"final_report", "seal">> THEN [Published(d) EXCEPT !.marker = FALSE]
    ELSE IF s[2] = "seal" THEN Sealed(Begun(d, s), s[1], "PASS")
    ELSE IF s[1] = "optimizer"
         THEN [Begun(d, s) EXCEPT !.filtered = (group = "monitor_filter")]
         ELSE Begun(d, s)

(* A script needs its inputs sealed and unharmed and its builder's files;  *)
(* the deployable book needs an optimizer solved under the current overlay *)
(* and a ledger of the day, where there is one, has to be intact.          *)
Intact(d, p) == d.seal[p] = "PASS" /\ p \notin d.torn
Needs(p) == IF p = "rotation" THEN RotationReads \ {"optimizer", "costs"}
            ELSE IF p = "macro" THEN {"scores"} ELSE Reads(p)
Ready(d, s) ==
    /\ \A p \in Needs(s[1]) : Intact(d, p)
    /\ s[2] = "seal" /\ <<s[1], "build">> \in Scripts => <<s[1], "build">> \in d.built
    /\ s[1] = "ledger" => statement
    /\ s[1] = "final" => d.filtered /\ Intact(d, "overlay")
    /\ s[1] = "universe" /\ d.seal["ledger"] # "none" => Intact(d, "ledger")

(* Everything a script that stops may leave behind: it was preparing, had  *)
(* written a part, or sealed a FAIL.                                       *)
CutShort(d, s, force) ==
    LET ready == Announced(IF force THEN Prepared(d, s) ELSE d, s, force)
    IN  (IF force THEN Preparing(d, s) ELSE {d}) \cup {ready, Begun(ready, s)}
            \cup (IF s[1] = "final_report" /\ Ready(ready, s) THEN {Published(ready)} ELSE {})

Failed(d, s, force) ==
    LET ready == Announced(IF force THEN Prepared(d, s) ELSE d, s, force)
    IN  {e \in CutShort(d, s, force) : s[1] = "final_report" => e.seal = d.seal}
            \cup (IF s[2] = "seal" /\ s[1] # "final_report"
                  THEN {Sealed(Begun(ready, s), s[1], "FAIL")} ELSE {})

(***************************************************************************)
(* The plan                                                                *)
(***************************************************************************)
(* _sealed_ledger_available *)
LedgerReady == Intact(dir, "ledger")

ChainStart(plan) ==
    LET at == {k \in DOMAIN plan : plan[k] \in BrokerChain}
    IN  CHOOSE k \in at : \A j \in at : k <= j

WithLedger(plan, filed, ready) ==
    LET bare == SelectSeq(plan, LAMBDA g : g # "ledger")
    IN  IF filed /\ ("ledger" \in Range(plan) \/ ~ready)
        THEN InsertAt(bare, ChainStart(bare), "ledger")
        ELSE plan

WithMacroContract(plan) ==
    IF {"macro", "macro_contract"} \cap Range(SubSeq(plan, 1, ChainStart(plan) - 1)) = {}
    THEN InsertAt(plan, ChainStart(plan), "macro_contract")
    ELSE plan

(* plan_groups_with_metadata, with a prior ledger within its age bound.    *)
PlanOf(request, filed, ready) ==
    LET monitored == {"monitor", "monitor_filter"} \cap Range(request) # {}
        full == IF monitored THEN WithMacroContract(WithLedger(request, filed, ready)) ELSE request
        prior == ~ready /\ ~filed
                 /\ (monitored \/ (CurrentBroker \cup {"final_report"}) \cap Range(request) # {})
    IN  IF prior THEN SelectSeq(full, LAMBDA g : g \notin CurrentBroker) ELSE full

Plan(request) == PlanOf(request, statement, LedgerReady)

(* The scripts of a plan in their order, <<group, script>>.                *)
Steps(plan) == UNION {{j} \X DOMAIN Groups[plan[j]] : j \in DOMAIN plan}
StepAt(plan, a) == Groups[plan[a[1]]][a[2]]
Earlier(a, b) == a[1] < b[1] \/ (a[1] = b[1] /\ a[2] < b[2])
Done(plan, b) == {a \in Steps(plan) : Earlier(a, b)}

(* Script 20 composes the bootstrap and the final book. *)
ScriptName(s) == IF s[1] = "bootstrap" THEN <<"final", s[2]>> ELSE s

(* build_step_plan: a script that ran earlier in the plan is a re-pass.    *)
Repeats(plan, a) ==
    \E b \in Steps(plan) : b[1] < a[1] /\ ScriptName(StepAt(plan, b)) = ScriptName(StepAt(plan, a))
SelfForced(plan, a) ==
    (Repeats(plan, a) \/ plan[a[1]] \in IntrinsicRepass) /\ StepAt(plan, a) \notin NoForce

(* The bootstrap book and the monitor universe built on it are discarded   *)
(* by the monitor filter; rotation is not invalidated by the costs it      *)
(* hashes, and the exit-adjusted book not by the exits.                    *)
Kept == {"bootstrap", "universe"}
NotInvalidated == {"rotation", "exit_book"}

(* What a script may take from other stages: a gate, its inputs, the report. *)
Undone(s) ==
    LET gone == Unlinked(s, Len(Files)) IN
    gone \cup Readers(s[1]) \cup {c \in ByPath : Reads(c) \cap gone # {}}
        \cup (IF MarksReport(s) \/ s[1] = "final" THEN {"final_report"} ELSE {})

(* One of the steps from was done, and none of the steps lost after it.    *)
Since(done, from, lost) ==
    \E a \in done \cap from : \A b \in done : Earlier(a, b) => b \notin lost

Seals(plan, p) == {a \in Steps(plan) : StepAt(plan, a) = <<p, "seal">>}
Undoing(plan, p) ==
    {a \in Steps(plan) : StepAt(plan, a)[1] = p \/ p \in Undone(StepAt(plan, a))}
Solving(plan) == {a \in Steps(plan) : StepAt(plan, a) = <<"optimizer", "build">>}
Filtering(plan) == {a \in Solving(plan) : plan[a[1]] = "monitor_filter"}
Overlaying(plan) == {a \in Steps(plan) : StepAt(plan, a)[1] = "overlay"}
Purging(plan, p) ==
    {a \in Steps(plan) : SelfForced(plan, a) /\ StepAt(plan, a)[2] # "spread"
                             /\ p \in Unlinked(StepAt(plan, a), Len(Files))}
Purged(plan, done, p) ==
    Since(done, Purging(plan, p), {a \in Steps(plan) : StepAt(plan, a)[1] = p})
Renewing(plan, p) ==
    {a \in Seals(plan, p) : SelfForced(plan, a) \/ Purged(plan, Done(plan, a), p)}

Stands(plan, done, p) == Since(done, Seals(plan, p), Undoing(plan, p))
Filtered(plan, done) == Since(done, Filtering(plan), Overlaying(plan) \cup Solving(plan))
Renewed(plan, done, p) == Since(done, Renewing(plan, p), Undoing(plan, p))

(* What the group lists of config.yaml share: a script follows everything  *)
(* it needs, whatever a script takes from an earlier stage is planned again *)
(* after it, and a ledger is planned where one can be read or built.  None *)
(* of the lists has the macro contract, which hashes the optimizer's book  *)
(* if there is one, ahead of the optimizer.                                *)
Supplied(plan) ==
    \A a \in Steps(plan) :
        LET p == StepAt(plan, a)[1]
            done == Done(plan, a)
        IN  /\ \A q \in Needs(p) : Stands(plan, done, q)
            /\ p = "final" => Stands(plan, done, "overlay") /\ Filtered(plan, done)

Completing(plan) ==
    /\ Filtered(plan, Steps(plan))
    /\ \A a \in Steps(plan) :
          LET p == StepAt(plan, a)[1]
          IN  p \notin Kept =>
                  /\ Stands(plan, Steps(plan), p)
                  /\ p \in NotInvalidated => Renewed(plan, Steps(plan), p)

LedgerPlanned(plan, filed, ready) ==
    /\ \A a \in Steps(plan) :
          StepAt(plan, a)[1] = "ledger" => ~SelfForced(plan, a) /\ (filed \/ ready)
    /\ filed /\ ~ready =>
          \A a \in Seals(plan, "universe") : Stands(plan, Done(plan, a), "ledger")

ASSUME PlansAssumption ==
    \A request \in Requests, filed, ready \in BOOLEAN :
        LET plan == PlanOf(request, filed, ready)
        IN  /\ plan \in Seq(DOMAIN Groups)
            /\ \A a \in Seals(plan, "macro") : Done(plan, a) \cap Solving(plan) # {}
            /\ request \in Cadences =>
                   Supplied(plan) /\ Completing(plan) /\ LedgerPlanned(plan, filed, ready)

(***************************************************************************)
(* A run                                                                   *)
(***************************************************************************)
Group == run.plan[run.g]
Here == <<run.g, run.k>>
Script == StepAt(run.plan, Here)

(* step_resume_skip *)
Skips == ~run.force /\ ~SelfForced(run.plan, Here) /\ Accepts(dir, Script[1])

(* group_recovery_force_required *)
NeedsRecovery(group) ==
    \E t \in Range(Groups[group]) : dir.seal[t[1]] # "none" /\ ~Accepts(dir, t[1])

(* fail_if_exists: without --force a script does not overwrite its files;  *)
(* 37, 38 and 50 have no guard and a stale report may be replaced.         *)
Refuses_GateOnly == Script[2] = "seal" /\ dir.seal[Script[1]] # "none"
Refuses ==
    IF Script[2] = "seal"
    THEN dir.seal[Script[1]] # "none" /\ (Script[1] = "final_report" => ~dir.marker)
    ELSE Script \in dir.built
Unguarded == {"earnings", "monitor"}

(* script_args, and the one relaunch with --force when a first pass meets  *)
(* the outputs of a run that never sealed them.                            *)
Asked == (run.force \/ SelfForced(run.plan, Here) \/ run.recovery) /\ Script \notin NoForce
Forced_AskedOnly == Asked
Forced ==
    \/ Asked
    \/ Refuses /\ Script[1] \notin Unguarded /\ ~Repeats(run.plan, Here) /\ ~Accepts(dir, Script[1])
       /\ Script \notin NoForce

(* fail_if_exists stops a script that was not forced over its own files.   *)
Refused == Refuses /\ Script[1] \notin Unguarded /\ ~Forced

Terminal_Soft == IF run.soft THEN "PASS_WITH_WARNINGS" ELSE "PASS"
Terminal == IF run.soft THEN "PASS_WITH_ADVISORY_WARNINGS"
            ELSE IF run.deferred THEN "PASS_WITH_DEFERRED" ELSE "PASS"

Ended(r) == [r EXCEPT !.on = FALSE, !.g = 0, !.k = 0, !.recovery = FALSE, !.soft = FALSE,
                      !.deferred = FALSE]

(* A cadence is started or resumed, by force or not; a part of it is asked *)
(* for by reconcile_late_ib_statements.py, with --force.                   *)
Begin(request, force) ==
    /\ ~run.on /\ runs < MaxRuns
    /\ force \/ request \in Cadences
    /\ LET plan == Plan(request)
       IN  /\ plan # <<>>
           /\ run' = [NoRun EXCEPT !.on = TRUE, !.request = request, !.force = force,
                          !.plan = plan, !.deferred = (CurrentBroker \cap Range(request)) \ Range(plan) # {},
                          !.clean = (dir.torn = {})]
    /\ meta' = "RUNNING" /\ runs' = runs + 1
    /\ UNCHANGED <<dir, statement, faults>>

AtScript == run.on /\ run.g > 0 /\ run.k <= Len(Groups[Group])

(* The next group, with its recovery force, or the end of the plan.        *)
NextGroup ==
    /\ run.on /\ ~AtScript
    /\ IF run.g = Len(run.plan)
       THEN run' = Ended(run) /\ meta' = Terminal
       ELSE /\ run' = [run EXCEPT !.g = @ + 1, !.k = 1,
                           !.recovery = ~run.force /\ NeedsRecovery(run.plan[run.g + 1])]
            /\ UNCHANGED meta
    /\ UNCHANGED <<dir, statement, runs, faults>>

Advance == run' = [run EXCEPT !.k = @ + 1]

Skip ==
    /\ AtScript /\ Skips /\ Advance
    /\ UNCHANGED <<meta, dir, statement, runs, faults>>

Succeed ==
    /\ AtScript /\ ~Skips /\ ~Refused /\ Ready(dir, Script)
    /\ dir' = Completed(Announced(IF Forced THEN Prepared(dir, Script) ELSE dir, Script, Forced),
                        Script, Group)
    /\ Advance
    /\ UNCHANGED <<meta, statement, runs, faults>>

(* A script that fails ends the run, an optional one is a warning.         *)
Fail ==
    /\ AtScript /\ ~Skips
    /\ \/ (Refused \/ ~Ready(dir, Script)) /\ UNCHANGED faults
       \/ faults < MaxFaults /\ faults' = faults + 1
    /\ \E d \in IF Refused THEN {dir} ELSE Failed(dir, Script, Forced) : dir' = d
    /\ IF Optional(Script)
       THEN run' = [run EXCEPT !.k = @ + 1, !.soft = TRUE] /\ UNCHANGED meta
       ELSE run' = Ended([run EXCEPT !.clean = @ /\ (Refused \/ ~Ready(dir, Script))]) /\ meta' = "FAIL"
    /\ UNCHANGED <<statement, runs>>

(* The run is killed, or interrupted and main() closes its meta.           *)
Stop ==
    /\ run.on /\ faults < MaxFaults /\ faults' = faults + 1
    /\ \E d \in IF AtScript /\ ~Skips /\ ~Refused THEN CutShort(dir, Script, Forced) ELSE {dir} : dir' = d
    /\ run' = Ended([run EXCEPT !.clean = FALSE]) /\ meta' \in {meta, "FAIL"}
    /\ UNCHANGED <<statement, runs>>

(* The broker's statement arrives, a day late as a rule.                   *)
StatementArrives ==
    /\ ~run.on /\ ~statement /\ statement' = TRUE
    /\ UNCHANGED <<run, meta, dir, runs, faults>>

Next ==
    \/ \E request \in Requests, force \in BOOLEAN : Begin(request, force)
    \/ NextGroup \/ Skip \/ Succeed \/ Fail \/ Stop
    \/ StatementArrives

Spec == Init /\ [][Next]_vars

(***************************************************************************)
(* Properties                                                              *)
(***************************************************************************)
(* An accepted gate was sealed over the inputs that are on disk now,       *)
(* whatever was forced, resumed, interrupted or killed since: the          *)
(* invalidation of artifacts.py, the self-forced re-passes and the         *)
(* partial-step recovery of 18_run_portfolio_pipeline.py leave no gate     *)
(* behind but those that are not invalidated.                              *)
AcceptedIsCurrent ==
    \A p \in Stages \ NotInvalidated : Accepts(dir, p) => p \notin dir.outdated

(* A report the resume gate accepts stands on a sealed chain: scores, risk *)
(* and the deployable book have not been rebuilt or removed under it.  The *)
(* optimizer's gate is unlinked before the report is marked stale.         *)
ReportIsCurrent ==
    Accepts(dir, "final_report") =>
        \A p \in {"scores", "risk", "final"} : dir.seal[p] = "PASS" /\ p \notin dir.outdated

(* A whole cadence that passes leaves every group it planned accepted over *)
(* current inputs, no later pass having undone an earlier one, with a book *)
(* solved under the monitor's overlay.                                     *)
PassCoversPlan ==
    (~run.on /\ run.request \in Cadences /\ meta \notin {"none", "RUNNING", "FAIL"}) =>
        /\ \A j \in DOMAIN run.plan : \A t \in Range(Groups[run.plan[j]]) :
               t[1] \notin Kept => Accepts(dir, t[1]) /\ t[1] \notin dir.outdated
        /\ dir.filtered

(* An unforced cadence that meets no failure of its own finishes, wherever *)
(* the runs before it were cut short, unless they left a sealed stage with *)
(* files it does not certify.                                              *)
ResumeCompletes ==
    (~run.on /\ run.request \in Cadences /\ ~run.force /\ run.clean) => meta # "FAIL"
=============================================================================
