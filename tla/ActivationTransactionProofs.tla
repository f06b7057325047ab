--------------------- MODULE ActivationTransactionProofs ----------------------
(***************************************************************************)
(* What the verdicts of activation transactions and the scorer that reads  *)
(* their files rely on, for any transactions and faults.                   *)
(***************************************************************************)
EXTENDS ActivationTransaction, TLAPS

Live(t) == run[t].pc \in Body \cup Repair \cup Handler

(* One live transaction, the one in the machine lock. *)
OwnerInv == \A t \in Transactions : Live(t) => owner = t

(* A replacement leaves the config alone, an initial one keeps its original. *)
ConfigInv ==
    /\ mode = "REPLACE_ACTIVE" => config = "active"
    /\ mode = "INITIAL" /\ config = "active" => backup = "shadow"

Quiet(r) == ~r.committed /\ ~r.published /\ ~r.written
Fresh(r) == Quiet(r) /\ ~r.errors /\ ~r.stranded
Untouched(t) == dash = run[t].before /\ state = run[t].held
Base == IF mode = "INITIAL" THEN "none" ELSE "prev"
Expected == IF mode = "INITIAL" THEN "shadow" ELSE "active"

Early == {"locked", "refresh", "prepare", "backup", "commit"}
Late == {"capture", "publish", "adapter", "record", "smoke", "validate", "activate", "report"}
Public == {"smoke", "validate", "activate", "report"}

StartInv(t) ==
    /\ run[t].pc \in {"idle", "waiting"} => Fresh(run[t]) /\ ~run[t].smoked
    /\ Live(t) \/ run[t].pc = "waiting" => run[t].prev = Base

(* Up to the config nothing has changed. *)
EarlyInv(t) ==
    run[t].pc \in Early =>
        /\ Fresh(run[t]) /\ Untouched(t) /\ config = run[t].orig
        /\ run[t].pc # "locked" => config = Expected
        /\ run[t].pc \in {"backup", "commit"} => cand = t
        /\ run[t].pc = "commit" => mode = "INITIAL" /\ backup = "shadow"

SettleInv(t) ==
    run[t].pc \in {"settle", "uncommit"} =>
        /\ Fresh(run[t]) /\ Untouched(t) /\ mode = "INITIAL" /\ run[t].orig = "shadow"
        /\ run[t].pc = "settle" => cand = t /\ config = "active"

(* From then on the flags tell how far it got. *)
LateInv(t) ==
    run[t].pc \in Late =>
        /\ config = "active" /\ cand = t /\ run[t].orig = Expected
        /\ ~run[t].errors /\ ~run[t].stranded
        /\ run[t].committed <=> mode = "INITIAL"
        /\ run[t].published <=> run[t].pc \in Public
        /\ run[t].written <=> run[t].pc = "report"
        /\ run[t].pc = "capture" => dash = run[t].before
        /\ run[t].pc # "capture" => snap = run[t].before
        /\ run[t].pc \in {"validate", "activate", "report"} => run[t].smoked
        /\ run[t].pc \in {"activate", "report"} => record = <<t, "validated">>
        /\ IF run[t].pc = "report" THEN state = t ELSE state = run[t].held

(* The files up to the n-th are those of the snapshot. *)
Back(t) ==
    /\ run[t].n \in {1, 2} => dash["rank"] = snap["rank"]
    /\ run[t].n = 2 => dash["sidecar"] = snap["sidecar"]

FoldInv(t) ==
    run[t].pc \in Repair \cup Handler =>
        /\ run[t].committed => mode = "INITIAL" /\ run[t].orig = "shadow"
        /\ run[t].written => run[t].published
        /\ run[t].pc # "seal" /\ ~run[t].written => state = run[t].held

UndoInv(t) ==
    run[t].pc = "undo" =>
        /\ ~run[t].published /\ ~run[t].errors /\ ~run[t].stranded
        /\ snap = run[t].before /\ Back(t)
        /\ ~run[t].committed => config = run[t].orig

HandlerInv(t) ==
    run[t].pc = "config" =>
        /\ ~run[t].errors
        /\ run[t].published => snap = run[t].before
        /\ ~run[t].stranded /\ ~run[t].committed => config = run[t].orig
        /\ ~run[t].stranded /\ ~run[t].published => dash = run[t].before

RestoreInv(t) ==
    run[t].pc \in {"restore", "check"} =>
        /\ run[t].published /\ snap = run[t].before
        /\ ~run[t].stranded /\ ~run[t].errors => config = run[t].orig
        /\ run[t].pc = "restore" => Back(t)
        /\ run[t].pc = "check" => dash = snap

EndInv(t) ==
    run[t].pc \in {"unstate", "seal"} =>
        /\ ~run[t].stranded /\ ~run[t].errors => config = run[t].orig /\ dash = run[t].before
        /\ run[t].errors => run[t].committed \/ run[t].published
        /\ run[t].pc = "seal" /\ ~run[t].errors =>
              state # t /\ state \in {run[t].held, run[t].prev}

IndexInv(t) == run[t].pc \in {"publish", "undo", "restore"} => run[t].n \in {0, 1, 2}

Stage(t) ==
    /\ StartInv(t) /\ EarlyInv(t) /\ SettleInv(t) /\ LateInv(t) /\ FoldInv(t)
    /\ UndoInv(t) /\ HandlerInv(t) /\ RestoreInv(t) /\ EndInv(t) /\ IndexInv(t)

(* A state is its writer's, whose smoke passed. *)
Claim(t) ==
    /\ run[t].verdict # "none" => run[t].pc = "ended"
    /\ state = t => run[t].smoked /\ run[t].verdict \notin Undone /\ (Live(t) => run[t].written)

(* After a PASS no transaction gets to change a file. *)
Blocked(t) ==
    /\ Quiet(run[t])
    /\ \/ run[t].pc \in {"locked", "config", "unstate", "seal"}
       \/ mode = "REPLACE_ACTIVE" /\ run[t].pc \in {"refresh", "prepare"}

PassInv ==
    \A t \in Transactions : run[t].verdict = "PASS" =>
        Accepted(t) /\ \A u \in Transactions : Live(u) => Blocked(u)

IInv ==
    /\ TypeOK /\ OwnerInv /\ ConfigInv /\ PassInv
    /\ \A t \in Transactions : Stage(t) /\ Claim(t)

-----------------------------------------------------------------------------
(* The run of a transaction *)

Others(t) == \A u \in Transactions \ {t} : run'[u] = run[u]
SameLocals(t) ==
    /\ run'[t].prev = run[t].prev /\ run'[t].orig = run[t].orig
    /\ run'[t].before = run[t].before /\ run'[t].held = run[t].held
SameFlags(t) ==
    /\ run'[t].committed = run[t].committed /\ run'[t].published = run[t].published
    /\ run'[t].written = run[t].written
SameEnd(t) ==
    /\ run'[t].errors = run[t].errors /\ run'[t].stranded = run[t].stranded
SameClaim(t) ==
    /\ run'[t].verdict = run[t].verdict /\ run'[t].smoked = run[t].smoked
Kept(t) == SameLocals(t) /\ SameFlags(t) /\ SameEnd(t) /\ SameClaim(t)
Moved(t) == run' \in [Transactions -> Runs] /\ Others(t)

LEMMA RunMoves ==
  ASSUME TypeOK, NEW t \in Transactions, NEW w \in Runs, run' = [run EXCEPT ![t] = w]
  PROVE  Moved(t) /\ run'[t] = w
BY DEF TypeOK, Others, Moved

(* The updates that steps make of the record of a run. *)
LEMMA RunUpdates ==
  ASSUME NEW r \in Runs, NEW pc \in Steps
  PROVE  /\ [r EXCEPT !.pc = pc] \in Runs
         /\ \A n \in 0..3 : [r EXCEPT !.pc = pc, !.n = n] \in Runs
         /\ \A b \in BOOLEAN : /\ [r EXCEPT !.pc = pc, !.committed = b] \in Runs
                               /\ [r EXCEPT !.pc = pc, !.published = b] \in Runs
                               /\ [r EXCEPT !.pc = pc, !.written = b] \in Runs
                               /\ [r EXCEPT !.pc = pc, !.smoked = b] \in Runs
                               /\ [r EXCEPT !.pc = pc, !.errors = b] \in Runs
         /\ \A b \in BOOLEAN, n \in 0..3 :
              /\ [r EXCEPT !.pc = pc, !.n = n, !.stranded = b] \in Runs
              /\ [r EXCEPT !.errors = b, !.n = n, !.pc = pc] \in Runs
         /\ \A v \in Outcomes : [r EXCEPT !.pc = pc, !.verdict = v] \in Runs
         /\ \A p \in {"none", "prev"} : [r EXCEPT !.pc = pc, !.prev = p] \in Runs
         /\ \A d \in Dashboards : [r EXCEPT !.pc = pc, !.before = d] \in Runs
         /\ \A o \in {"shadow", "active"}, d \in Dashboards, s \in States :
              [r EXCEPT !.pc = pc, !.orig = o, !.before = d, !.held = s] \in Runs
<1>1. [r EXCEPT !.pc = pc] \in Runs
  BY DEF Runs
<1>2. \A n \in 0..3 : [r EXCEPT !.pc = pc, !.n = n] \in Runs
  BY DEF Runs
<1>3. \A b \in BOOLEAN : [r EXCEPT !.pc = pc, !.committed = b] \in Runs
  BY DEF Runs
<1>4. \A b \in BOOLEAN : [r EXCEPT !.pc = pc, !.published = b] \in Runs
  BY DEF Runs
<1>5. \A b \in BOOLEAN : [r EXCEPT !.pc = pc, !.written = b] \in Runs
  BY DEF Runs
<1>6. \A b \in BOOLEAN : [r EXCEPT !.pc = pc, !.smoked = b] \in Runs
  BY DEF Runs
<1>7. \A b \in BOOLEAN : [r EXCEPT !.pc = pc, !.errors = b] \in Runs
  BY DEF Runs
<1>8. \A b \in BOOLEAN, n \in 0..3 : [r EXCEPT !.pc = pc, !.n = n, !.stranded = b] \in Runs
  BY DEF Runs
<1>9. \A b \in BOOLEAN, n \in 0..3 : [r EXCEPT !.errors = b, !.n = n, !.pc = pc] \in Runs
  BY DEF Runs
<1>10. \A v \in Outcomes : [r EXCEPT !.pc = pc, !.verdict = v] \in Runs
  BY DEF Runs
<1>11. \A p \in {"none", "prev"} : [r EXCEPT !.pc = pc, !.prev = p] \in Runs
  BY DEF Runs
<1>12. \A d \in Dashboards : [r EXCEPT !.pc = pc, !.before = d] \in Runs
  BY DEF Runs
<1>13. \A o \in {"shadow", "active"}, d \in Dashboards, s \in States :
        [r EXCEPT !.pc = pc, !.orig = o, !.before = d, !.held = s] \in Runs
  BY DEF Runs
<1> QED
  BY <1>1, <1>2, <1>3, <1>4, <1>5, <1>6, <1>7, <1>8, <1>9, <1>10, <1>11, <1>12, <1>13

(* What each update of a run changes, and what it leaves. *)

LEMMA GotoFacts ==
  ASSUME TypeOK, NEW t \in Transactions, NEW pc \in Steps, Goto(t, pc)
  PROVE  Moved(t) /\ run'[t].pc = pc /\ run'[t].n = 0 /\ Kept(t)
<1> DEFINE w == [run[t] EXCEPT !.pc = pc, !.n = 0]
<1>0. 0 \in 0..3
  OBVIOUS
<1>1. run[t] \in Runs
  BY DEF TypeOK
<1>2. w \in Runs
  BY <1>0, <1>1, RunUpdates DEF TypeOK
<1>3. run' = [run EXCEPT ![t] = w]
  BY DEF Goto, Next1
<1>4. Moved(t) /\ run'[t] = w
  BY <1>2, <1>3, RunMoves
<1>5. /\ w.pc = pc /\ w.n = 0
      /\ w.prev = run[t].prev /\ w.orig = run[t].orig
      /\ w.before = run[t].before /\ w.held = run[t].held
      /\ w.committed = run[t].committed /\ w.published = run[t].published
      /\ w.written = run[t].written /\ w.errors = run[t].errors
      /\ w.stranded = run[t].stranded /\ w.verdict = run[t].verdict
      /\ w.smoked = run[t].smoked
  BY <1>1 DEF Runs
<1> HIDE DEF w
<1> QED
  BY <1>4, <1>5 DEF Kept, SameLocals, SameFlags, SameEnd, SameClaim

LEMMA NextFacts ==
  ASSUME TypeOK, NEW t \in Transactions, NEW pc \in Steps, Next1(t, pc), run[t].n \in {0, 1, 2}
  PROVE  Moved(t) /\ run'[t].pc = pc /\ run'[t].n = run[t].n + 1 /\ Kept(t)
<1> DEFINE w == [run[t] EXCEPT !.pc = pc, !.n = run[t].n + 1]
<1>0. run[t].n + 1 \in 0..3
  OBVIOUS
<1>1. run[t] \in Runs
  BY DEF TypeOK
<1>2. w \in Runs
  BY <1>0, <1>1, RunUpdates DEF TypeOK
<1>3. run' = [run EXCEPT ![t] = w]
  BY DEF Goto, Next1
<1>4. Moved(t) /\ run'[t] = w
  BY <1>2, <1>3, RunMoves
<1>5. /\ w.pc = pc /\ w.n = run[t].n + 1
      /\ w.prev = run[t].prev /\ w.orig = run[t].orig
      /\ w.before = run[t].before /\ w.held = run[t].held
      /\ w.committed = run[t].committed /\ w.published = run[t].published
      /\ w.written = run[t].written /\ w.errors = run[t].errors
      /\ w.stranded = run[t].stranded /\ w.verdict = run[t].verdict
      /\ w.smoked = run[t].smoked
  BY <1>1 DEF Runs
<1> HIDE DEF w
<1> QED
  BY <1>4, <1>5 DEF Kept, SameLocals, SameFlags, SameEnd, SameClaim

LEMMA PcFacts ==
  ASSUME TypeOK, NEW t \in Transactions, NEW pc \in Steps, run' = [run EXCEPT ![t].pc = pc]
  PROVE  Moved(t) /\ run'[t].pc = pc /\ Kept(t)
<1> DEFINE w == [run[t] EXCEPT !.pc = pc]
<1>0. 0 \in 0..3
  OBVIOUS
<1>1. run[t] \in Runs
  BY DEF TypeOK
<1>2. w \in Runs
  BY <1>0, <1>1, RunUpdates DEF TypeOK
<1>3. run' = [run EXCEPT ![t] = w]
  BY DEF Goto, Next1
<1>4. Moved(t) /\ run'[t] = w
  BY <1>2, <1>3, RunMoves
<1>5. /\ w.pc = pc /\ w.n = run[t].n
      /\ w.prev = run[t].prev /\ w.orig = run[t].orig
      /\ w.before = run[t].before /\ w.held = run[t].held
      /\ w.committed = run[t].committed /\ w.published = run[t].published
      /\ w.written = run[t].written /\ w.errors = run[t].errors
      /\ w.stranded = run[t].stranded /\ w.verdict = run[t].verdict
      /\ w.smoked = run[t].smoked
  BY <1>1 DEF Runs
<1> HIDE DEF w
<1> QED
  BY <1>4, <1>5 DEF Kept, SameLocals, SameFlags, SameEnd, SameClaim

LEMMA CommittedFacts ==
  ASSUME TypeOK, NEW t \in Transactions, NEW pc \in Steps, NEW x \in BOOLEAN,
         run' = [run EXCEPT ![t].pc = pc, ![t].committed = x]
  PROVE  Moved(t) /\ run'[t].pc = pc /\ run'[t].committed = x /\ run'[t].n = run[t].n /\ SameLocals(t) /\ SameEnd(t) /\ SameClaim(t)
         /\ run'[t].published = run[t].published /\ run'[t].written = run[t].written
<1> DEFINE w == [run[t] EXCEPT !.pc = pc, !.committed = x]
<1>0. 0 \in 0..3
  OBVIOUS
<1>1. run[t] \in Runs
  BY DEF TypeOK
<1>2. w \in Runs
  BY <1>0, <1>1, RunUpdates DEF TypeOK
<1>3. run' = [run EXCEPT ![t] = w]
  BY DEF Goto, Next1
<1>4. Moved(t) /\ run'[t] = w
  BY <1>2, <1>3, RunMoves
<1>5. /\ w.pc = pc /\ w.n = run[t].n
      /\ w.prev = run[t].prev /\ w.orig = run[t].orig
      /\ w.before = run[t].before /\ w.held = run[t].held
      /\ w.committed = x /\ w.published = run[t].published
      /\ w.written = run[t].written /\ w.errors = run[t].errors
      /\ w.stranded = run[t].stranded /\ w.verdict = run[t].verdict
      /\ w.smoked = run[t].smoked
  BY <1>1 DEF Runs
<1> HIDE DEF w
<1> QED
  BY <1>4, <1>5 DEF Kept, SameLocals, SameFlags, SameEnd, SameClaim

LEMMA PublishedFacts ==
  ASSUME TypeOK, NEW t \in Transactions, NEW pc \in Steps, NEW x \in BOOLEAN,
         run' = [run EXCEPT ![t].pc = pc, ![t].published = x]
  PROVE  Moved(t) /\ run'[t].pc = pc /\ run'[t].published = x /\ run'[t].n = run[t].n /\ SameLocals(t) /\ SameEnd(t) /\ SameClaim(t)
         /\ run'[t].committed = run[t].committed /\ run'[t].written = run[t].written
<1> DEFINE w == [run[t] EXCEPT !.pc = pc, !.published = x]
<1>0. 0 \in 0..3
  OBVIOUS
<1>1. run[t] \in Runs
  BY DEF TypeOK
<1>2. w \in Runs
  BY <1>0, <1>1, RunUpdates DEF TypeOK
<1>3. run' = [run EXCEPT ![t] = w]
  BY DEF Goto, Next1
<1>4. Moved(t) /\ run'[t] = w
  BY <1>2, <1>3, RunMoves
<1>5. /\ w.pc = pc /\ w.n = run[t].n
      /\ w.prev = run[t].prev /\ w.orig = run[t].orig
      /\ w.before = run[t].before /\ w.held = run[t].held
      /\ w.committed = run[t].committed /\ w.published = x
      /\ w.written = run[t].written /\ w.errors = run[t].errors
      /\ w.stranded = run[t].stranded /\ w.verdict = run[t].verdict
      /\ w.smoked = run[t].smoked
  BY <1>1 DEF Runs
<1> HIDE DEF w
<1> QED
  BY <1>4, <1>5 DEF Kept, SameLocals, SameFlags, SameEnd, SameClaim

LEMMA WrittenFacts ==
  ASSUME TypeOK, NEW t \in Transactions, NEW pc \in Steps, NEW x \in BOOLEAN,
         run' = [run EXCEPT ![t].pc = pc, ![t].written = x]
  PROVE  Moved(t) /\ run'[t].pc = pc /\ run'[t].written = x /\ run'[t].n = run[t].n /\ SameLocals(t) /\ SameEnd(t) /\ SameClaim(t)
         /\ run'[t].committed = run[t].committed /\ run'[t].published = run[t].published
<1> DEFINE w == [run[t] EXCEPT !.pc = pc, !.written = x]
<1>0. 0 \in 0..3
  OBVIOUS
<1>1. run[t] \in Runs
  BY DEF TypeOK
<1>2. w \in Runs
  BY <1>0, <1>1, RunUpdates DEF TypeOK
<1>3. run' = [run EXCEPT ![t] = w]
  BY DEF Goto, Next1
<1>4. Moved(t) /\ run'[t] = w
  BY <1>2, <1>3, RunMoves
<1>5. /\ w.pc = pc /\ w.n = run[t].n
      /\ w.prev = run[t].prev /\ w.orig = run[t].orig
      /\ w.before = run[t].before /\ w.held = run[t].held
      /\ w.committed = run[t].committed /\ w.published = run[t].published
      /\ w.written = x /\ w.errors = run[t].errors
      /\ w.stranded = run[t].stranded /\ w.verdict = run[t].verdict
      /\ w.smoked = run[t].smoked
  BY <1>1 DEF Runs
<1> HIDE DEF w
<1> QED
  BY <1>4, <1>5 DEF Kept, SameLocals, SameFlags, SameEnd, SameClaim

LEMMA SmokedFacts ==
  ASSUME TypeOK, NEW t \in Transactions, NEW pc \in Steps, NEW x \in BOOLEAN,
         run' = [run EXCEPT ![t].pc = pc, ![t].smoked = x]
  PROVE  Moved(t) /\ run'[t].pc = pc /\ run'[t].smoked = x /\ run'[t].n = run[t].n /\ SameLocals(t) /\ SameEnd(t) /\ SameFlags(t)
         /\ run'[t].verdict = run[t].verdict
<1> DEFINE w == [run[t] EXCEPT !.pc = pc, !.smoked = x]
<1>0. 0 \in 0..3
  OBVIOUS
<1>1. run[t] \in Runs
  BY DEF TypeOK
<1>2. w \in Runs
  BY <1>0, <1>1, RunUpdates DEF TypeOK
<1>3. run' = [run EXCEPT ![t] = w]
  BY DEF Goto, Next1
<1>4. Moved(t) /\ run'[t] = w
  BY <1>2, <1>3, RunMoves
<1>5. /\ w.pc = pc /\ w.n = run[t].n
      /\ w.prev = run[t].prev /\ w.orig = run[t].orig
      /\ w.before = run[t].before /\ w.held = run[t].held
      /\ w.committed = run[t].committed /\ w.published = run[t].published
      /\ w.written = run[t].written /\ w.errors = run[t].errors
      /\ w.stranded = run[t].stranded /\ w.verdict = run[t].verdict
      /\ w.smoked = x
  BY <1>1 DEF Runs
<1> HIDE DEF w
<1> QED
  BY <1>4, <1>5 DEF Kept, SameLocals, SameFlags, SameEnd, SameClaim

LEMMA ErrorsFacts ==
  ASSUME TypeOK, NEW t \in Transactions, NEW pc \in Steps, NEW x \in BOOLEAN,
         run' = [run EXCEPT ![t].pc = pc, ![t].errors = x]
  PROVE  Moved(t) /\ run'[t].pc = pc /\ run'[t].errors = x /\ run'[t].n = run[t].n /\ SameLocals(t) /\ SameClaim(t) /\ SameFlags(t)
         /\ run'[t].stranded = run[t].stranded
<1> DEFINE w == [run[t] EXCEPT !.pc = pc, !.errors = x]
<1>0. 0 \in 0..3
  OBVIOUS
<1>1. run[t] \in Runs
  BY DEF TypeOK
<1>2. w \in Runs
  BY <1>0, <1>1, RunUpdates DEF TypeOK
<1>3. run' = [run EXCEPT ![t] = w]
  BY DEF Goto, Next1
<1>4. Moved(t) /\ run'[t] = w
  BY <1>2, <1>3, RunMoves
<1>5. /\ w.pc = pc /\ w.n = run[t].n
      /\ w.prev = run[t].prev /\ w.orig = run[t].orig
      /\ w.before = run[t].before /\ w.held = run[t].held
      /\ w.committed = run[t].committed /\ w.published = run[t].published
      /\ w.written = run[t].written /\ w.errors = x
      /\ w.stranded = run[t].stranded /\ w.verdict = run[t].verdict
      /\ w.smoked = run[t].smoked
  BY <1>1 DEF Runs
<1> HIDE DEF w
<1> QED
  BY <1>4, <1>5 DEF Kept, SameLocals, SameFlags, SameEnd, SameClaim

LEMMA VerdictFacts ==
  ASSUME TypeOK, NEW t \in Transactions, NEW pc \in Steps, NEW x \in Outcomes,
         run' = [run EXCEPT ![t].pc = pc, ![t].verdict = x]
  PROVE  Moved(t) /\ run'[t].pc = pc /\ run'[t].verdict = x /\ run'[t].n = run[t].n /\ SameLocals(t) /\ SameEnd(t) /\ SameFlags(t)
         /\ run'[t].smoked = run[t].smoked
<1> DEFINE w == [run[t] EXCEPT !.pc = pc, !.verdict = x]
<1>0. 0 \in 0..3
  OBVIOUS
<1>1. run[t] \in Runs
  BY DEF TypeOK
<1>2. w \in Runs
  BY <1>0, <1>1, RunUpdates DEF TypeOK
<1>3. run' = [run EXCEPT ![t] = w]
  BY DEF Goto, Next1
<1>4. Moved(t) /\ run'[t] = w
  BY <1>2, <1>3, RunMoves
<1>5. /\ w.pc = pc /\ w.n = run[t].n
      /\ w.prev = run[t].prev /\ w.orig = run[t].orig
      /\ w.before = run[t].before /\ w.held = run[t].held
      /\ w.committed = run[t].committed /\ w.published = run[t].published
      /\ w.written = run[t].written /\ w.errors = run[t].errors
      /\ w.stranded = run[t].stranded /\ w.verdict = x
      /\ w.smoked = run[t].smoked
  BY <1>1 DEF Runs
<1> HIDE DEF w
<1> QED
  BY <1>4, <1>5 DEF Kept, SameLocals, SameFlags, SameEnd, SameClaim

LEMMA PrevFacts ==
  ASSUME TypeOK, NEW t \in Transactions, NEW pc \in Steps, NEW x \in {"none", "prev"},
         run' = [run EXCEPT ![t].pc = pc, ![t].prev = x]
  PROVE  Moved(t) /\ run'[t].pc = pc /\ run'[t].prev = x /\ run'[t].n = run[t].n /\ SameFlags(t) /\ SameEnd(t) /\ SameClaim(t)
<1> DEFINE w == [run[t] EXCEPT !.pc = pc, !.prev = x]
<1>0. 0 \in 0..3
  OBVIOUS
<1>1. run[t] \in Runs
  BY DEF TypeOK
<1>2. w \in Runs
  BY <1>0, <1>1, RunUpdates DEF TypeOK
<1>3. run' = [run EXCEPT ![t] = w]
  BY DEF Goto, Next1
<1>4. Moved(t) /\ run'[t] = w
  BY <1>2, <1>3, RunMoves
<1>5. /\ w.pc = pc /\ w.n = run[t].n
      /\ w.prev = x /\ w.orig = run[t].orig
      /\ w.before = run[t].before /\ w.held = run[t].held
      /\ w.committed = run[t].committed /\ w.published = run[t].published
      /\ w.written = run[t].written /\ w.errors = run[t].errors
      /\ w.stranded = run[t].stranded /\ w.verdict = run[t].verdict
      /\ w.smoked = run[t].smoked
  BY <1>1 DEF Runs
<1> HIDE DEF w
<1> QED
  BY <1>4, <1>5 DEF Kept, SameLocals, SameFlags, SameEnd, SameClaim

LEMMA BeforeFacts ==
  ASSUME TypeOK, NEW t \in Transactions, NEW pc \in Steps, NEW x \in Dashboards,
         run' = [run EXCEPT ![t].pc = pc, ![t].before = x]
  PROVE  Moved(t) /\ run'[t].pc = pc /\ run'[t].before = x /\ run'[t].n = run[t].n /\ SameFlags(t) /\ SameEnd(t) /\ SameClaim(t)
         /\ run'[t].prev = run[t].prev /\ run'[t].orig = run[t].orig /\ run'[t].held = run[t].held
<1> DEFINE w == [run[t] EXCEPT !.pc = pc, !.before = x]
<1>0. 0 \in 0..3
  OBVIOUS
<1>1. run[t] \in Runs
  BY DEF TypeOK
<1>2. w \in Runs
  BY <1>0, <1>1, RunUpdates DEF TypeOK
<1>3. run' = [run EXCEPT ![t] = w]
  BY DEF Goto, Next1
<1>4. Moved(t) /\ run'[t] = w
  BY <1>2, <1>3, RunMoves
<1>5. /\ w.pc = pc /\ w.n = run[t].n
      /\ w.prev = run[t].prev /\ w.orig = run[t].orig
      /\ w.before = x /\ w.held = run[t].held
      /\ w.committed = run[t].committed /\ w.published = run[t].published
      /\ w.written = run[t].written /\ w.errors = run[t].errors
      /\ w.stranded = run[t].stranded /\ w.verdict = run[t].verdict
      /\ w.smoked = run[t].smoked
  BY <1>1 DEF Runs
<1> HIDE DEF w
<1> QED
  BY <1>4, <1>5 DEF Kept, SameLocals, SameFlags, SameEnd, SameClaim

LEMMA LockFacts ==
  ASSUME TypeOK, NEW t \in Transactions, NEW pc \in Steps,
         run' = [run EXCEPT ![t].pc = pc, ![t].orig = config, ![t].before = dash, ![t].held = state]
  PROVE  Moved(t) /\ run'[t].pc = pc /\ SameFlags(t) /\ SameEnd(t) /\ SameClaim(t)
         /\ run'[t].prev = run[t].prev /\ run'[t].orig = config /\ run'[t].before = dash /\ run'[t].held = state
<1> DEFINE w == [run[t] EXCEPT !.pc = pc, !.orig = config, !.before = dash, !.held = state]
<1>0. 0 \in 0..3
  OBVIOUS
<1>1. run[t] \in Runs
  BY DEF TypeOK
<1>2. w \in Runs
  BY <1>0, <1>1, RunUpdates DEF TypeOK
<1>3. run' = [run EXCEPT ![t] = w]
  BY DEF Goto, Next1
<1>4. Moved(t) /\ run'[t] = w
  BY <1>2, <1>3, RunMoves
<1>5. /\ w.pc = pc /\ w.n = run[t].n
      /\ w.prev = run[t].prev /\ w.orig = config
      /\ w.before = dash /\ w.held = state
      /\ w.committed = run[t].committed /\ w.published = run[t].published
      /\ w.written = run[t].written /\ w.errors = run[t].errors
      /\ w.stranded = run[t].stranded /\ w.verdict = run[t].verdict
      /\ w.smoked = run[t].smoked
  BY <1>1 DEF Runs
<1> HIDE DEF w
<1> QED
  BY <1>4, <1>5 DEF Kept, SameLocals, SameFlags, SameEnd, SameClaim

LEMMA StrandFacts ==
  ASSUME TypeOK, NEW t \in Transactions, NEW pc \in Steps, NEW x \in BOOLEAN,
         run' = [run EXCEPT ![t].pc = pc, ![t].n = 0, ![t].stranded = x]
  PROVE  Moved(t) /\ run'[t].pc = pc /\ run'[t].n = 0 /\ run'[t].stranded = x
         /\ SameLocals(t) /\ SameFlags(t) /\ SameClaim(t) /\ run'[t].errors = run[t].errors
<1> DEFINE w == [run[t] EXCEPT !.pc = pc, !.n = 0, !.stranded = x]
<1>0. 0 \in 0..3
  OBVIOUS
<1>1. run[t] \in Runs
  BY DEF TypeOK
<1>2. w \in Runs
  BY <1>0, <1>1, RunUpdates DEF TypeOK
<1>3. run' = [run EXCEPT ![t] = w]
  BY DEF Goto, Next1
<1>4. Moved(t) /\ run'[t] = w
  BY <1>2, <1>3, RunMoves
<1>5. /\ w.pc = pc /\ w.n = 0
      /\ w.prev = run[t].prev /\ w.orig = run[t].orig
      /\ w.before = run[t].before /\ w.held = run[t].held
      /\ w.committed = run[t].committed /\ w.published = run[t].published
      /\ w.written = run[t].written /\ w.errors = run[t].errors
      /\ w.stranded = x /\ w.verdict = run[t].verdict
      /\ w.smoked = run[t].smoked
  BY <1>1 DEF Runs
<1> HIDE DEF w
<1> QED
  BY <1>4, <1>5 DEF Kept, SameLocals, SameFlags, SameEnd, SameClaim

LEMMA SkipFacts ==
  ASSUME TypeOK, NEW t \in Transactions, NEW pc \in Steps,
         run' = [run EXCEPT ![t].errors = TRUE, ![t].n = 0, ![t].pc = pc]
  PROVE  Moved(t) /\ run'[t].pc = pc /\ run'[t].n = 0 /\ run'[t].errors = TRUE
         /\ SameLocals(t) /\ SameFlags(t) /\ SameClaim(t) /\ run'[t].stranded = run[t].stranded
<1> DEFINE w == [run[t] EXCEPT !.errors = TRUE, !.n = 0, !.pc = pc]
<1>0. 0 \in 0..3
  OBVIOUS
<1>1. run[t] \in Runs
  BY DEF TypeOK
<1>2. w \in Runs
  BY <1>0, <1>1, RunUpdates DEF TypeOK
<1>3. run' = [run EXCEPT ![t] = w]
  BY DEF Goto, Next1
<1>4. Moved(t) /\ run'[t] = w
  BY <1>2, <1>3, RunMoves
<1>5. /\ w.pc = pc /\ w.n = 0
      /\ w.prev = run[t].prev /\ w.orig = run[t].orig
      /\ w.before = run[t].before /\ w.held = run[t].held
      /\ w.committed = run[t].committed /\ w.published = run[t].published
      /\ w.written = run[t].written /\ w.errors = TRUE
      /\ w.stranded = run[t].stranded /\ w.verdict = run[t].verdict
      /\ w.smoked = run[t].smoked
  BY <1>1 DEF Runs
<1> HIDE DEF w
<1> QED
  BY <1>4, <1>5 DEF Kept, SameLocals, SameFlags, SameEnd, SameClaim

-----------------------------------------------------------------------------
(* Steps *)

USE DEF Live, Body, Repair, Handler, Early, Late, Public, Fresh, Quiet


LEMMA Alone ==
  ASSUME IInv, NEW t \in Transactions, owner \in {t, None}
  PROVE  \A u \in Transactions \ {t} : ~Live(u)
BY ConstantsAssumption DEF IInv, OwnerInv

(* A step of t, while no other transaction is live, keeps the invariant if *)
(* it keeps t's part of it and what a PASS promises.                       *)
LEMMA OwnStep ==
  ASSUME IInv, TypeOK', NEW t \in Transactions, Moved(t), mode' = mode,
         \A u \in Transactions \ {t} : ~Live(u),
         Live(t)' => owner' = t,
         state' \in {state, t, "none", "prev"},
         Stage(t)', Claim(t)', ConfigInv',
         \A v \in Transactions : run'[v].verdict = "PASS" =>
            Accepted(v)' /\ (Live(t)' => Blocked(t)')
  PROVE  IInv'
<1>1. \A u \in Transactions \ {t} : ~Live(u)'
  BY DEF Moved, Others, Live
<1>2. OwnerInv'
  BY <1>1 DEF OwnerInv
<1>3. PassInv'
  BY <1>1 DEF PassInv
<1>4. ASSUME NEW u \in Transactions \ {t}
      PROVE  Stage(u)' /\ Claim(u)'
  <2>1. run'[u] = run[u] /\ ~Live(u) /\ ~Live(u)' /\ Stage(u) /\ Claim(u)
    BY <1>1 DEF Moved, Others, IInv
  <2>2. Stage(u)'
    BY <2>1 DEF Stage, StartInv, EarlyInv, SettleInv, LateInv, FoldInv, UndoInv, HandlerInv, RestoreInv,
      EndInv, IndexInv, Base
  <2>3. u \notin {t, "none", "prev"}
    BY ConstantsAssumption
  <2> QED
    BY <2>1, <2>2, <2>3 DEF Claim
<1> QED
  BY <1>2, <1>3, <1>4 DEF IInv

(* A live transaction that is not blocked has seen no PASS. *)
LEMMA NoPass ==
  ASSUME IInv, NEW t \in Transactions, Live(t), ~Blocked(t),
         Moved(t), run'[t].verdict = run[t].verdict
  PROVE  \A v \in Transactions : run[v].verdict # "PASS" /\ run'[v].verdict # "PASS"
<1>1. \A v \in Transactions : run[v].verdict # "PASS"
  BY DEF IInv, PassInv
<1> QED
  BY <1>1 DEF Moved, Others

(* The fields of a run. *)
LEMMA RunTyped ==
  ASSUME TypeOK, NEW t \in Transactions
  PROVE  /\ run[t].prev \in {"none", "prev"} /\ run[t].orig \in {"shadow", "active"}
         /\ run[t].n \in 0..3 /\ run[t].before \in Dashboards /\ run[t].held \in States
         /\ run[t].verdict \in Outcomes /\ run[t].pc \in Steps
         /\ run[t].committed \in BOOLEAN /\ run[t].published \in BOOLEAN
         /\ run[t].written \in BOOLEAN /\ run[t].errors \in BOOLEAN
         /\ run[t].stranded \in BOOLEAN /\ run[t].smoked \in BOOLEAN
BY DEF TypeOK, Runs

(* Dashboards *)

LEMMA WrittenTyped ==
  ASSUME NEW d \in Dashboards, NEW k \in 0..3, NEW v \in {"old", "new"}
  PROVE  Written(d, k, v) \in Dashboards
BY DEF Dashboards, Written

LEMMA SameDashboard ==
  ASSUME NEW d \in Dashboards, NEW e \in Dashboards,
         d["rank"] = e["rank"], d["sidecar"] = e["sidecar"], d["manifest"] = e["manifest"]
  PROVE  d = e
BY DEF Dashboards

LEMMA PutTyped ==
  ASSUME NEW d \in Dashboards, NEW n \in {0, 1, 2}, NEW v \in {"none", "old", "new"}
  PROVE  /\ [d EXCEPT ![File[n + 1]] = v] \in Dashboards
         /\ File[n + 1] \in {"rank", "sidecar", "manifest"}
         /\ n = 0 => File[n + 1] = "rank"
         /\ n = 1 => File[n + 1] = "sidecar"
         /\ n = 2 => File[n + 1] = "manifest"
<1>1. CASE n = 0
  BY <1>1 DEF Dashboards, File
<1>2. CASE n = 1
  BY <1>2 DEF Dashboards, File
<1>3. CASE n = 2
  BY <1>3 DEF Dashboards, File
<1> QED
  BY <1>1, <1>2, <1>3

(* One file more is that of the snapshot, and after the last all are. *)
LEMMA OneFileBack ==
  ASSUME TypeOK, NEW t \in Transactions, run[t].n \in {0, 1, 2}, Back(t), RestoreFile(t)
  PROVE  /\ dash' \in Dashboards
         /\ dash'["rank"] = snap["rank"]
         /\ run[t].n \in {1, 2} => dash'["sidecar"] = snap["sidecar"]
         /\ run[t].n = 2 => dash' = snap
<1> DEFINE f == File[run[t].n + 1]
<1>1. dash \in Dashboards /\ snap \in Dashboards
  BY DEF TypeOK
<1>2. f \in {"rank", "sidecar", "manifest"} /\ snap[f] \in {"none", "old", "new"}
  BY <1>1, PutTyped DEF Dashboards
<1>3. dash' = [dash EXCEPT ![f] = snap[f]]
  BY DEF RestoreFile
<1>4. dash' \in Dashboards
  BY <1>1, <1>2, <1>3, PutTyped
<1>5. /\ run[t].n = 0 => f = "rank"
      /\ run[t].n = 1 => f = "sidecar"
      /\ run[t].n = 2 => f = "manifest"
  BY <1>1, <1>2, PutTyped
<1> HIDE DEF f
<1>6. /\ dash'["rank"] = snap["rank"]
      /\ run[t].n \in {1, 2} => dash'["sidecar"] = snap["sidecar"]
      /\ run[t].n = 2 => dash'["manifest"] = snap["manifest"]
  BY <1>1, <1>3, <1>5 DEF Back, Dashboards
<1> QED
  BY <1>1, <1>4, <1>6, SameDashboard

(* A failed transaction is reported undone or not undone, never as a PASS. *)
LEMMA VerdictTyped ==
  ASSUME NEW r \in Runs
  PROVE  Verdict(r) \in Undone \cup {"FAIL_ROLLBACK_INCOMPLETE"}
BY DEF Verdict, Undone

LEMMA RecheckStep ==
  ASSUME IInv, NEW t \in Transactions, Recheck(t)
  PROVE  IInv'
<1>1. TypeOK /\ Stage(t) /\ Claim(t) /\ ConfigInv /\ PassInv
  BY DEF IInv
<1>2. run[t].pc = "locked" /\ Live(t)
  BY DEF Recheck, At
<1>3. StartInv(t) /\ EarlyInv(t)
  BY <1>1 DEF Stage
<1>4. owner = t /\ \A u \in Transactions \ {t} : ~Live(u)
  BY <1>2, Alone DEF IInv, OwnerInv
<1>5. Moved(t) /\ Kept(t) /\ run'[t].pc = IF ExpectedConfig THEN "refresh" ELSE "config"
  BY <1>1, <1>2, GotoFacts DEF Recheck, Steps, ExpectedConfig
<1>6. TypeOK'
  BY <1>1, <1>2, <1>5, ConstantsAssumption DEF TypeOK, Moved, Recheck, files
<1>7. Stage(t)'
  <2>1. StartInv(t)'
    BY <1>1, <1>2, <1>3, <1>5
    DEF StartInv, EarlyInv, Untouched, Base, Expected, Kept, SameLocals, SameFlags, SameEnd,
        SameClaim, Recheck, files, ExpectedConfig
  <2>2. EarlyInv(t)'
    BY <1>1, <1>2, <1>3, <1>5
    DEF StartInv, EarlyInv, Untouched, Base, Expected, ConfigInv, Kept, SameLocals, SameFlags,
        SameEnd, SameClaim, Recheck, files, ExpectedConfig
  <2>3. FoldInv(t)'
    BY <1>1, <1>2, <1>3, <1>5
    DEF StartInv, EarlyInv, FoldInv, Untouched, Base, Expected, Kept, SameLocals, SameFlags,
        SameEnd, SameClaim, Recheck, files, ExpectedConfig
  <2>4. HandlerInv(t)'
    BY <1>1, <1>2, <1>3, <1>5
    DEF StartInv, EarlyInv, HandlerInv, Untouched, Base, Expected, Kept, SameLocals, SameFlags,
        SameEnd, SameClaim, Recheck, files, ExpectedConfig
  <2>5. SettleInv(t)' /\ LateInv(t)' /\ UndoInv(t)' /\ RestoreInv(t)' /\ EndInv(t)' /\ IndexInv(t)'
    BY <1>5 DEF SettleInv, LateInv, UndoInv, RestoreInv, EndInv, IndexInv
  <2> QED
    BY <2>1, <2>2, <2>3, <2>4, <2>5 DEF Stage
<1>8. Claim(t)'
  BY <1>1, <1>2, <1>3, <1>5, ConstantsAssumption
  DEF Claim, StartInv, EarlyInv, Kept, SameLocals, SameFlags, SameEnd, SameClaim, Recheck, files
<1>9. ConfigInv'
  BY <1>1, <1>2, <1>3, <1>5 DEF ConfigInv, StartInv, EarlyInv, Expected, Recheck, files
<1>10. ASSUME NEW v \in Transactions, run'[v].verdict = "PASS"
       PROVE  Accepted(v)' /\ (Live(t)' => Blocked(t)')
  <2>1. run[v].verdict = "PASS"
    BY <1>5, <1>10 DEF Moved, Others, Kept, SameClaim
  <2>2. Accepted(v) /\ Blocked(t)
    BY <1>1, <1>2, <2>1 DEF PassInv
  <2>3. Accepted(v)'
    BY <1>1, <1>2, <1>3, <1>5, <2>2 DEF Accepted, Blocked, StartInv, EarlyInv, Recheck, files
  <2>4. Live(t)' => Blocked(t)'
    BY <1>1, <1>2, <1>3, <1>5, <2>2, ConstantsAssumption
    DEF Accepted, Blocked, TypeOK, Kept, SameFlags, StartInv, EarlyInv, Recheck, files,
        ExpectedConfig
  <2> QED
    BY <2>3, <2>4
<1> QED
  BY <1>4, <1>5, <1>6, <1>7, <1>8, <1>9, <1>10, OwnStep DEF Recheck, files

LEMMA PrepareStep ==
  ASSUME IInv, NEW t \in Transactions, Prepare(t)
  PROVE  IInv'
<1>1. TypeOK /\ Stage(t) /\ Claim(t) /\ ConfigInv /\ PassInv
  BY DEF IInv
<1>2. run[t].pc = "prepare" /\ Live(t)
  BY DEF Prepare, At
<1>3. StartInv(t) /\ EarlyInv(t)
  BY <1>1 DEF Stage
<1>4. owner = t /\ \A u \in Transactions \ {t} : ~Live(u)
  BY <1>2, Alone DEF IInv, OwnerInv
<1>5. /\ Moved(t) /\ Kept(t) /\ run'[t].pc \in {"backup", "config"}
      /\ run'[t].pc = "backup" \/ cand' # cand => MayPrepare /\ cand' = t
  BY <1>1, <1>2, GotoFacts DEF Prepare, Steps
<1>6. TypeOK'
  BY <1>1, <1>2, <1>5, ConstantsAssumption DEF TypeOK, Moved, Prepare
<1>7. Stage(t)'
  <2>1. StartInv(t)'
    BY <1>1, <1>2, <1>3, <1>5
    DEF StartInv, EarlyInv, Untouched, Base, Expected, Kept, SameLocals, SameFlags, SameEnd,
        SameClaim, Prepare, MayPrepare, ExpectedConfig
  <2>2. EarlyInv(t)'
    BY <1>1, <1>2, <1>3, <1>5
    DEF StartInv, EarlyInv, Untouched, Base, Expected, ConfigInv, Kept, SameLocals, SameFlags,
        SameEnd, SameClaim, Prepare, MayPrepare, ExpectedConfig
  <2>3. FoldInv(t)'
    BY <1>1, <1>2, <1>3, <1>5
    DEF StartInv, EarlyInv, FoldInv, Untouched, Base, Expected, Kept, SameLocals, SameFlags,
        SameEnd, SameClaim, Prepare, MayPrepare, ExpectedConfig
  <2>4. HandlerInv(t)'
    BY <1>1, <1>2, <1>3, <1>5
    DEF StartInv, EarlyInv, HandlerInv, Untouched, Base, Expected, Kept, SameLocals, SameFlags,
        SameEnd, SameClaim, Prepare, MayPrepare, ExpectedConfig
  <2>5. SettleInv(t)' /\ LateInv(t)' /\ UndoInv(t)' /\ RestoreInv(t)' /\ EndInv(t)' /\ IndexInv(t)'
    BY <1>5 DEF SettleInv, LateInv, UndoInv, RestoreInv, EndInv, IndexInv
  <2> QED
    BY <2>1, <2>2, <2>3, <2>4, <2>5 DEF Stage
<1>8. Claim(t)'
  BY <1>1, <1>2, <1>3, <1>5, ConstantsAssumption
  DEF Claim, StartInv, EarlyInv, Kept, SameLocals, SameFlags, SameEnd, SameClaim, Prepare
<1>9. ConfigInv'
  BY <1>1, <1>2, <1>3, <1>5 DEF ConfigInv, StartInv, EarlyInv, Expected, Prepare
<1>10. ASSUME NEW v \in Transactions, run'[v].verdict = "PASS"
       PROVE  Accepted(v)' /\ (Live(t)' => Blocked(t)')
  <2>1. run[v].verdict = "PASS"
    BY <1>5, <1>10 DEF Moved, Others, Kept, SameClaim
  <2>2. Accepted(v) /\ Blocked(t)
    BY <1>1, <1>2, <2>1 DEF PassInv
  <2>3. Accepted(v)'
    BY <1>1, <1>2, <1>3, <1>5, <2>2, ConstantsAssumption
    DEF Accepted, Blocked, StartInv, EarlyInv, Prepare, MayPrepare, ExpectedConfig, TypeOK
  <2>4. Live(t)' => Blocked(t)'
    BY <1>1, <1>2, <1>3, <1>5, <2>2, ConstantsAssumption
    DEF Accepted, Blocked, TypeOK, Kept, SameFlags, StartInv, EarlyInv, Prepare, MayPrepare,
        ExpectedConfig
  <2> QED
    BY <2>3, <2>4
<1> QED
  BY <1>4, <1>5, <1>6, <1>7, <1>8, <1>9, <1>10, OwnStep DEF Prepare

LEMMA BackupStep ==
  ASSUME IInv, NEW t \in Transactions, Backup(t)
  PROVE  IInv'
<1>1. TypeOK /\ Stage(t) /\ Claim(t) /\ ConfigInv /\ PassInv
  BY DEF IInv
<1>2. run[t].pc = "backup" /\ Live(t)
  BY DEF Backup, At
<1>3. StartInv(t) /\ EarlyInv(t)
  BY <1>1 DEF Stage
<1>4. owner = t /\ \A u \in Transactions \ {t} : ~Live(u)
  BY <1>2, Alone DEF IInv, OwnerInv
<1>5. Moved(t) /\ Kept(t) /\ run'[t].pc = IF mode = "INITIAL" THEN "commit" ELSE "capture"
  BY <1>1, <1>2, GotoFacts DEF Backup, Steps
<1>6. TypeOK'
  BY <1>1, <1>2, <1>5, ConstantsAssumption, RunTyped DEF TypeOK, Moved, Backup
<1>7. Stage(t)'
  <2>1. StartInv(t)'
    BY <1>1, <1>2, <1>3, <1>5
    DEF StartInv, EarlyInv, Untouched, Base, Expected, Kept, SameLocals, SameFlags, SameEnd,
        SameClaim, Backup
  <2>2. EarlyInv(t)'
    BY <1>1, <1>2, <1>3, <1>5
    DEF StartInv, EarlyInv, Untouched, Base, Expected, ConfigInv, Kept, SameLocals, SameFlags,
        SameEnd, SameClaim, Backup
  <2>3. LateInv(t)'
    BY <1>1, <1>2, <1>3, <1>5
    DEF StartInv, EarlyInv, LateInv, Untouched, Base, Expected, ConfigInv, Kept, SameLocals,
        SameFlags, SameEnd, SameClaim, Backup
  <2>4. SettleInv(t)' /\ FoldInv(t)' /\ UndoInv(t)' /\ HandlerInv(t)' /\ RestoreInv(t)' /\ EndInv(t)' /\ IndexInv(t)'
    BY <1>5 DEF SettleInv, FoldInv, UndoInv, HandlerInv, RestoreInv, EndInv, IndexInv
  <2> QED
    BY <2>1, <2>2, <2>3, <2>4 DEF Stage
<1>8. Claim(t)'
  BY <1>1, <1>2, <1>3, <1>5, ConstantsAssumption
  DEF Claim, StartInv, EarlyInv, Kept, SameLocals, SameFlags, SameEnd, SameClaim, Backup
<1>9. ConfigInv'
  BY <1>1, <1>2, <1>3, <1>5 DEF ConfigInv, StartInv, EarlyInv, Expected, Backup
<1>10. \A v \in Transactions : run'[v].verdict = "PASS" =>
         Accepted(v)' /\ (Live(t)' => Blocked(t)')
  BY <1>1, <1>2, <1>3, <1>5, NoPass DEF Blocked, StartInv, EarlyInv, Kept, SameClaim, Backup
<1> QED
  BY <1>4, <1>5, <1>6, <1>7, <1>8, <1>9, <1>10, OwnStep DEF Backup

LEMMA CommitStep ==
  ASSUME IInv, NEW t \in Transactions, Commit(t)
  PROVE  IInv'
<1>1. TypeOK /\ Stage(t) /\ Claim(t) /\ ConfigInv /\ PassInv
  BY DEF IInv
<1>2. run[t].pc = "commit" /\ Live(t)
  BY DEF Commit, At
<1>3. StartInv(t) /\ EarlyInv(t)
  BY <1>1 DEF Stage
<1>4. owner = t /\ \A u \in Transactions \ {t} : ~Live(u)
  BY <1>2, Alone DEF IInv, OwnerInv
<1>5. Moved(t) /\ Kept(t) /\ run'[t].pc = IF config = "shadow" THEN "settle" ELSE "config"
  BY <1>1, <1>2, GotoFacts DEF Commit, Steps
<1>6. TypeOK'
  BY <1>1, <1>2, <1>5, ConstantsAssumption DEF TypeOK, Moved, Commit
<1>7. Stage(t)'
  <2>1. StartInv(t)'
    BY <1>1, <1>2, <1>3, <1>5
    DEF StartInv, EarlyInv, Untouched, Base, Expected, Kept, SameLocals, SameFlags, SameEnd,
        SameClaim, Commit
  <2>2. SettleInv(t)'
    BY <1>1, <1>2, <1>3, <1>5
    DEF StartInv, EarlyInv, SettleInv, Untouched, Base, Expected, Kept, SameLocals, SameFlags,
        SameEnd, SameClaim, Commit
  <2>3. FoldInv(t)'
    BY <1>1, <1>2, <1>3, <1>5
    DEF StartInv, EarlyInv, FoldInv, Untouched, Base, Expected, Kept, SameLocals, SameFlags,
        SameEnd, SameClaim, Commit
  <2>4. HandlerInv(t)'
    BY <1>1, <1>2, <1>3, <1>5
    DEF StartInv, EarlyInv, HandlerInv, Untouched, Base, Expected, Kept, SameLocals, SameFlags,
        SameEnd, SameClaim, Commit
  <2>5. EarlyInv(t)' /\ LateInv(t)' /\ UndoInv(t)' /\ RestoreInv(t)' /\ EndInv(t)' /\ IndexInv(t)'
    BY <1>5 DEF EarlyInv, LateInv, UndoInv, RestoreInv, EndInv, IndexInv
  <2> QED
    BY <2>1, <2>2, <2>3, <2>4, <2>5 DEF Stage
<1>8. Claim(t)'
  BY <1>1, <1>2, <1>3, <1>5, ConstantsAssumption
  DEF Claim, StartInv, EarlyInv, Kept, SameLocals, SameFlags, SameEnd, SameClaim, Commit
<1>9. ConfigInv'
  BY <1>1, <1>2, <1>3, <1>5 DEF ConfigInv, StartInv, EarlyInv, Expected, Commit
<1>10. \A v \in Transactions : run'[v].verdict = "PASS" =>
         Accepted(v)' /\ (Live(t)' => Blocked(t)')
  BY <1>1, <1>2, <1>3, <1>5, NoPass DEF Blocked, StartInv, EarlyInv, Kept, SameClaim, Commit
<1> QED
  BY <1>4, <1>5, <1>6, <1>7, <1>8, <1>9, <1>10, OwnStep DEF Commit

LEMMA SettleStep ==
  ASSUME IInv, NEW t \in Transactions, Settle(t)
  PROVE  IInv'
<1>1. TypeOK /\ Stage(t) /\ Claim(t) /\ ConfigInv /\ PassInv
  BY DEF IInv
<1>2. run[t].pc = "settle" /\ Live(t)
  BY DEF Settle, At
<1>3. StartInv(t) /\ SettleInv(t)
  BY <1>1 DEF Stage
<1>4. owner = t /\ \A u \in Transactions \ {t} : ~Live(u)
  BY <1>2, Alone DEF IInv, OwnerInv
<1>5. /\ Moved(t) /\ SameLocals(t) /\ SameEnd(t) /\ SameClaim(t)
      /\ run'[t].pc = "capture" /\ run'[t].committed /\ ~run'[t].published /\ ~run'[t].written
  BY <1>1, <1>2, <1>3, CommittedFacts DEF Settle, Steps, SettleInv
<1>6. TypeOK'
  BY <1>1, <1>2, <1>5, ConstantsAssumption DEF TypeOK, Moved, Settle, files
<1>7. Stage(t)'
  <2>1. StartInv(t)'
    BY <1>1, <1>2, <1>3, <1>5
    DEF StartInv, SettleInv, Untouched, Base, SameLocals, SameEnd, SameClaim, Settle, files
  <2>2. LateInv(t)'
    BY <1>1, <1>2, <1>3, <1>5
    DEF StartInv, SettleInv, LateInv, Untouched, Base, Expected, ConfigInv, SameLocals, SameEnd,
        SameClaim, Settle, files
  <2>3. EarlyInv(t)' /\ SettleInv(t)' /\ FoldInv(t)' /\ UndoInv(t)' /\ HandlerInv(t)' /\ RestoreInv(t)' /\ EndInv(t)' /\ IndexInv(t)'
    BY <1>5 DEF EarlyInv, SettleInv, FoldInv, UndoInv, HandlerInv, RestoreInv, EndInv, IndexInv
  <2> QED
    BY <2>1, <2>2, <2>3 DEF Stage
<1>8. Claim(t)'
  BY <1>1, <1>2, <1>3, <1>5, ConstantsAssumption
  DEF Claim, StartInv, SettleInv, SameLocals, SameEnd, SameClaim, Settle, files
<1>9. ConfigInv'
  BY <1>1, <1>2, <1>3, <1>5 DEF ConfigInv, StartInv, SettleInv, Settle, files
<1>10. \A v \in Transactions : run'[v].verdict = "PASS" =>
         Accepted(v)' /\ (Live(t)' => Blocked(t)')
  BY <1>1, <1>2, <1>3, <1>5, NoPass DEF Blocked, StartInv, SettleInv, SameClaim, Settle, files
<1> QED
  BY <1>4, <1>5, <1>6, <1>7, <1>8, <1>9, <1>10, OwnStep DEF Settle, files

LEMMA CaptureStep ==
  ASSUME IInv, NEW t \in Transactions, Capture(t)
  PROVE  IInv'
<1>1. TypeOK /\ Stage(t) /\ Claim(t) /\ ConfigInv /\ PassInv
  BY DEF IInv
<1>2. run[t].pc = "capture" /\ Live(t)
  BY DEF Capture, At
<1>3. StartInv(t) /\ LateInv(t)
  BY <1>1 DEF Stage
<1>4. owner = t /\ \A u \in Transactions \ {t} : ~Live(u)
  BY <1>2, Alone DEF IInv, OwnerInv
<1>5. Moved(t) /\ Kept(t) /\ run'[t].pc = (IF config = "active" THEN "publish" ELSE "config") /\ run'[t].n = 0
  BY <1>1, <1>2, GotoFacts DEF Capture, Steps
<1>6. TypeOK'
  BY <1>1, <1>2, <1>5, ConstantsAssumption DEF TypeOK, Moved, Capture
<1>7. Stage(t)'
  <2>1. StartInv(t)'
    BY <1>1, <1>2, <1>3, <1>5
    DEF StartInv, LateInv, Base, Expected, Kept, SameLocals, SameFlags, SameEnd, SameClaim,
        Capture
  <2>2. LateInv(t)'
    BY <1>1, <1>2, <1>3, <1>5
    DEF StartInv, LateInv, Base, Expected, ConfigInv, Kept, SameLocals, SameFlags, SameEnd,
        SameClaim, Capture
  <2>3. FoldInv(t)'
    BY <1>1, <1>2, <1>3, <1>5
    DEF StartInv, LateInv, FoldInv, Base, Expected, Kept, SameLocals, SameFlags, SameEnd,
        SameClaim, Capture
  <2>4. HandlerInv(t)'
    BY <1>1, <1>2, <1>3, <1>5
    DEF StartInv, LateInv, HandlerInv, Base, Expected, Kept, SameLocals, SameFlags, SameEnd,
        SameClaim, Capture
  <2>5. IndexInv(t)'
    BY <1>1, <1>2, <1>3, <1>5
    DEF StartInv, LateInv, IndexInv, Base, Expected, Kept, SameLocals, SameFlags, SameEnd,
        SameClaim, Capture
  <2>6. EarlyInv(t)' /\ SettleInv(t)' /\ UndoInv(t)' /\ RestoreInv(t)' /\ EndInv(t)'
    BY <1>5 DEF EarlyInv, SettleInv, UndoInv, RestoreInv, EndInv
  <2> QED
    BY <2>1, <2>2, <2>3, <2>4, <2>5, <2>6 DEF Stage
<1>8. Claim(t)'
  BY <1>1, <1>2, <1>3, <1>5, ConstantsAssumption
  DEF Claim, StartInv, LateInv, Kept, SameLocals, SameFlags, SameEnd, SameClaim, Capture
<1>9. ConfigInv'
  BY <1>1, <1>2, <1>3, <1>5 DEF ConfigInv, StartInv, LateInv, Expected, Capture
<1>10. \A v \in Transactions : run'[v].verdict = "PASS" =>
         Accepted(v)' /\ (Live(t)' => Blocked(t)')
  BY <1>1, <1>2, <1>3, <1>5, NoPass DEF Blocked, StartInv, LateInv, Kept, SameClaim, Capture
<1> QED
  BY <1>4, <1>5, <1>6, <1>7, <1>8, <1>9, <1>10, OwnStep DEF Capture

LEMMA AdapterCheckStep ==
  ASSUME IInv, NEW t \in Transactions, AdapterCheck(t)
  PROVE  IInv'
<1>1. TypeOK /\ Stage(t) /\ Claim(t) /\ ConfigInv /\ PassInv
  BY DEF IInv
<1>2. run[t].pc = "adapter" /\ Live(t)
  BY DEF AdapterCheck, At
<1>3. StartInv(t) /\ LateInv(t)
  BY <1>1 DEF Stage
<1>4. owner = t /\ \A u \in Transactions \ {t} : ~Live(u)
  BY <1>2, Alone DEF IInv, OwnerInv
<1>5. Moved(t) /\ Kept(t) /\ run'[t].pc \in {"record", "undo"} /\ run'[t].n = 0
  BY <1>1, <1>2, GotoFacts DEF AdapterCheck, Steps
<1>6. TypeOK'
  BY <1>1, <1>2, <1>5, ConstantsAssumption DEF TypeOK, Moved, AdapterCheck, files
<1>7. Stage(t)'
  <2>1. StartInv(t)'
    BY <1>1, <1>2, <1>3, <1>5
    DEF StartInv, LateInv, Base, Expected, Kept, SameLocals, SameFlags, SameEnd, SameClaim,
        AdapterCheck, files
  <2>2. LateInv(t)'
    BY <1>1, <1>2, <1>3, <1>5
    DEF StartInv, LateInv, Base, Expected, ConfigInv, Kept, SameLocals, SameFlags, SameEnd,
        SameClaim, AdapterCheck, files
  <2>3. FoldInv(t)'
    BY <1>1, <1>2, <1>3, <1>5
    DEF StartInv, LateInv, FoldInv, Base, Expected, Kept, SameLocals, SameFlags, SameEnd,
        SameClaim, AdapterCheck, files
  <2>4. UndoInv(t)'
    BY <1>1, <1>2, <1>3, <1>5
    DEF StartInv, LateInv, UndoInv, Base, Expected, Back, Kept, SameLocals, SameFlags, SameEnd,
        SameClaim, AdapterCheck, files
  <2>5. IndexInv(t)'
    BY <1>1, <1>2, <1>3, <1>5
    DEF StartInv, LateInv, IndexInv, Base, Expected, Kept, SameLocals, SameFlags, SameEnd,
        SameClaim, AdapterCheck, files
  <2>6. EarlyInv(t)' /\ SettleInv(t)' /\ HandlerInv(t)' /\ RestoreInv(t)' /\ EndInv(t)'
    BY <1>5 DEF EarlyInv, SettleInv, HandlerInv, RestoreInv, EndInv
  <2> QED
    BY <2>1, <2>2, <2>3, <2>4, <2>5, <2>6 DEF Stage
<1>8. Claim(t)'
  BY <1>1, <1>2, <1>3, <1>5, ConstantsAssumption
  DEF Claim, StartInv, LateInv, Kept, SameLocals, SameFlags, SameEnd, SameClaim, AdapterCheck,
      files
<1>9. ConfigInv'
  BY <1>1, <1>2, <1>3, <1>5 DEF ConfigInv, StartInv, LateInv, Expected, AdapterCheck, files
<1>10. \A v \in Transactions : run'[v].verdict = "PASS" =>
         Accepted(v)' /\ (Live(t)' => Blocked(t)')
  BY <1>1, <1>2, <1>3, <1>5, NoPass
  DEF Blocked, StartInv, LateInv, Kept, SameClaim, AdapterCheck, files
<1> QED
  BY <1>4, <1>5, <1>6, <1>7, <1>8, <1>9, <1>10, OwnStep DEF AdapterCheck, files

LEMMA RecordStep ==
  ASSUME IInv, NEW t \in Transactions, Record(t)
  PROVE  IInv'
<1>1. TypeOK /\ Stage(t) /\ Claim(t) /\ ConfigInv /\ PassInv
  BY DEF IInv
<1>2. run[t].pc = "record" /\ Live(t)
  BY DEF Record, At
<1>3. StartInv(t) /\ LateInv(t)
  BY <1>1 DEF Stage
<1>4. owner = t /\ \A u \in Transactions \ {t} : ~Live(u)
  BY <1>2, Alone DEF IInv, OwnerInv
<1>5. /\ Moved(t) /\ SameLocals(t) /\ SameEnd(t) /\ SameClaim(t)
      /\ run'[t].pc = "smoke" /\ run'[t].published
      /\ run'[t].committed = run[t].committed /\ run'[t].written = run[t].written
  BY <1>1, <1>2, PublishedFacts DEF Record, Steps
<1>6. TypeOK'
  BY <1>1, <1>2, <1>5, ConstantsAssumption DEF TypeOK, Moved, Record
<1>7. Stage(t)'
  <2>1. StartInv(t)'
    BY <1>1, <1>2, <1>3, <1>5
    DEF StartInv, LateInv, Base, Expected, SameLocals, SameEnd, SameClaim, Record
  <2>2. LateInv(t)'
    BY <1>1, <1>2, <1>3, <1>5
    DEF StartInv, LateInv, Base, Expected, ConfigInv, SameLocals, SameEnd, SameClaim, Record
  <2>3. EarlyInv(t)' /\ SettleInv(t)' /\ FoldInv(t)' /\ UndoInv(t)' /\ HandlerInv(t)' /\ RestoreInv(t)' /\ EndInv(t)' /\ IndexInv(t)'
    BY <1>5 DEF EarlyInv, SettleInv, FoldInv, UndoInv, HandlerInv, RestoreInv, EndInv, IndexInv
  <2> QED
    BY <2>1, <2>2, <2>3 DEF Stage
<1>8. Claim(t)'
  BY <1>1, <1>2, <1>3, <1>5, ConstantsAssumption
  DEF Claim, StartInv, LateInv, SameLocals, SameEnd, SameClaim, Record
<1>9. ConfigInv'
  BY <1>1, <1>2, <1>3, <1>5 DEF ConfigInv, StartInv, LateInv, Expected, Record
<1>10. \A v \in Transactions : run'[v].verdict = "PASS" =>
         Accepted(v)' /\ (Live(t)' => Blocked(t)')
  BY <1>1, <1>2, <1>3, <1>5, NoPass DEF Blocked, StartInv, LateInv, SameClaim, Record
<1> QED
  BY <1>4, <1>5, <1>6, <1>7, <1>8, <1>9, <1>10, OwnStep DEF Record

LEMMA ValidateStep ==
  ASSUME IInv, NEW t \in Transactions, Validate(t)
  PROVE  IInv'
<1>1. TypeOK /\ Stage(t) /\ Claim(t) /\ ConfigInv /\ PassInv
  BY DEF IInv
<1>2. run[t].pc = "validate" /\ Live(t)
  BY DEF Validate, At
<1>3. StartInv(t) /\ LateInv(t)
  BY <1>1 DEF Stage
<1>4. owner = t /\ \A u \in Transactions \ {t} : ~Live(u)
  BY <1>2, Alone DEF IInv, OwnerInv
<1>5. Moved(t) /\ Kept(t) /\ run'[t].pc = "activate"
  BY <1>1, <1>2, GotoFacts DEF Validate, Steps
<1>6. TypeOK'
  BY <1>1, <1>2, <1>5, ConstantsAssumption DEF TypeOK, Moved, Validate
<1>7. Stage(t)'
  <2>1. StartInv(t)'
    BY <1>1, <1>2, <1>3, <1>5
    DEF StartInv, LateInv, Base, Expected, Kept, SameLocals, SameFlags, SameEnd, SameClaim,
        Validate
  <2>2. LateInv(t)'
    BY <1>1, <1>2, <1>3, <1>5
    DEF StartInv, LateInv, Base, Expected, ConfigInv, Kept, SameLocals, SameFlags, SameEnd,
        SameClaim, Validate
  <2>3. EarlyInv(t)' /\ SettleInv(t)' /\ FoldInv(t)' /\ UndoInv(t)' /\ HandlerInv(t)' /\ RestoreInv(t)' /\ EndInv(t)' /\ IndexInv(t)'
    BY <1>5 DEF EarlyInv, SettleInv, FoldInv, UndoInv, HandlerInv, RestoreInv, EndInv, IndexInv
  <2> QED
    BY <2>1, <2>2, <2>3 DEF Stage
<1>8. Claim(t)'
  BY <1>1, <1>2, <1>3, <1>5, ConstantsAssumption
  DEF Claim, StartInv, LateInv, Kept, SameLocals, SameFlags, SameEnd, SameClaim, Validate
<1>9. ConfigInv'
  BY <1>1, <1>2, <1>3, <1>5 DEF ConfigInv, StartInv, LateInv, Expected, Validate
<1>10. \A v \in Transactions : run'[v].verdict = "PASS" =>
         Accepted(v)' /\ (Live(t)' => Blocked(t)')
  BY <1>1, <1>2, <1>3, <1>5, NoPass DEF Blocked, StartInv, LateInv, Kept, SameClaim, Validate
<1> QED
  BY <1>4, <1>5, <1>6, <1>7, <1>8, <1>9, <1>10, OwnStep DEF Validate

LEMMA ActivateStep ==
  ASSUME IInv, NEW t \in Transactions, Activate(t)
  PROVE  IInv'
<1>1. TypeOK /\ Stage(t) /\ Claim(t) /\ ConfigInv /\ PassInv
  BY DEF IInv
<1>2. run[t].pc = "activate" /\ Live(t)
  BY DEF Activate, At
<1>3. StartInv(t) /\ LateInv(t)
  BY <1>1 DEF Stage
<1>4. owner = t /\ \A u \in Transactions \ {t} : ~Live(u)
  BY <1>2, Alone DEF IInv, OwnerInv
<1>5. /\ Moved(t) /\ SameLocals(t) /\ SameEnd(t) /\ SameClaim(t)
      /\ run'[t].pc = "report" /\ run'[t].written
      /\ run'[t].committed = run[t].committed /\ run'[t].published = run[t].published
  BY <1>1, <1>2, WrittenFacts DEF Activate, Steps
<1>6. TypeOK'
  BY <1>1, <1>2, <1>5, ConstantsAssumption DEF TypeOK, Moved, Activate, States
<1>7. Stage(t)'
  <2>1. StartInv(t)'
    BY <1>1, <1>2, <1>3, <1>5
    DEF StartInv, LateInv, Base, Expected, SameLocals, SameEnd, SameClaim, Activate
  <2>2. LateInv(t)'
    BY <1>1, <1>2, <1>3, <1>5
    DEF StartInv, LateInv, Base, Expected, ConfigInv, SameLocals, SameEnd, SameClaim, Activate
  <2>3. EarlyInv(t)' /\ SettleInv(t)' /\ FoldInv(t)' /\ UndoInv(t)' /\ HandlerInv(t)' /\ RestoreInv(t)' /\ EndInv(t)' /\ IndexInv(t)'
    BY <1>5 DEF EarlyInv, SettleInv, FoldInv, UndoInv, HandlerInv, RestoreInv, EndInv, IndexInv
  <2> QED
    BY <2>1, <2>2, <2>3 DEF Stage
<1>8. Claim(t)'
  BY <1>1, <1>2, <1>3, <1>5, ConstantsAssumption
  DEF Claim, StartInv, LateInv, SameLocals, SameEnd, SameClaim, Activate, Undone
<1>9. ConfigInv'
  BY <1>1, <1>2, <1>3, <1>5 DEF ConfigInv, StartInv, LateInv, Expected, Activate
<1>10. \A v \in Transactions : run'[v].verdict = "PASS" =>
         Accepted(v)' /\ (Live(t)' => Blocked(t)')
  BY <1>1, <1>2, <1>3, <1>5, NoPass DEF Blocked, StartInv, LateInv, SameClaim, Activate
<1> QED
  BY <1>4, <1>5, <1>6, <1>7, <1>8, <1>9, <1>10, OwnStep DEF Activate

LEMMA UncommitStep ==
  ASSUME IInv, NEW t \in Transactions, Uncommit(t)
  PROVE  IInv'
<1>1. TypeOK /\ Stage(t) /\ Claim(t) /\ ConfigInv /\ PassInv
  BY DEF IInv
<1>2. run[t].pc = "uncommit" /\ Live(t)
  BY DEF Uncommit, At
<1>3. StartInv(t) /\ SettleInv(t) /\ FoldInv(t)
  BY <1>1 DEF Stage
<1>4. owner = t /\ \A u \in Transactions \ {t} : ~Live(u)
  BY <1>2, Alone DEF IInv, OwnerInv
<1>5. Moved(t) /\ Kept(t) /\ run'[t].pc = "config"
  BY <1>1, <1>2, GotoFacts DEF Uncommit, Steps
<1>6. TypeOK'
  BY <1>1, <1>2, <1>5, ConstantsAssumption, RunTyped DEF TypeOK, Moved, Uncommit
<1>7. Stage(t)'
  <2>1. StartInv(t)'
    BY <1>1, <1>2, <1>3, <1>5
    DEF StartInv, SettleInv, FoldInv, Untouched, Base, Kept, SameLocals, SameFlags, SameEnd,
        SameClaim, Uncommit
  <2>2. FoldInv(t)'
    BY <1>1, <1>2, <1>3, <1>5
    DEF StartInv, SettleInv, FoldInv, Untouched, Base, Kept, SameLocals, SameFlags, SameEnd,
        SameClaim, Uncommit
  <2>3. HandlerInv(t)'
    BY <1>1, <1>2, <1>3, <1>5
    DEF StartInv, SettleInv, FoldInv, HandlerInv, Untouched, Base, Kept, SameLocals, SameFlags,
        SameEnd, SameClaim, Uncommit
  <2>4. EarlyInv(t)' /\ SettleInv(t)' /\ LateInv(t)' /\ UndoInv(t)' /\ RestoreInv(t)' /\ EndInv(t)' /\ IndexInv(t)'
    BY <1>5 DEF EarlyInv, SettleInv, LateInv, UndoInv, RestoreInv, EndInv, IndexInv
  <2> QED
    BY <2>1, <2>2, <2>3, <2>4 DEF Stage
<1>8. Claim(t)'
  BY <1>1, <1>2, <1>3, <1>5, ConstantsAssumption
  DEF Claim, StartInv, SettleInv, FoldInv, Kept, SameLocals, SameFlags, SameEnd, SameClaim,
      Uncommit
<1>9. ConfigInv'
  BY <1>1, <1>2, <1>3, <1>5 DEF ConfigInv, StartInv, SettleInv, FoldInv, Uncommit
<1>10. \A v \in Transactions : run'[v].verdict = "PASS" =>
         Accepted(v)' /\ (Live(t)' => Blocked(t)')
  BY <1>1, <1>2, <1>3, <1>5, NoPass
  DEF Blocked, StartInv, SettleInv, FoldInv, Kept, SameClaim, Uncommit
<1> QED
  BY <1>4, <1>5, <1>6, <1>7, <1>8, <1>9, <1>10, OwnStep DEF Uncommit

LEMMA RollBackConfigStep ==
  ASSUME IInv, NEW t \in Transactions, RollBackConfig(t)
  PROVE  IInv'
<1>1. TypeOK /\ Stage(t) /\ Claim(t) /\ ConfigInv /\ PassInv
  BY DEF IInv
<1>2. run[t].pc = "config" /\ Live(t)
  BY DEF RollBackConfig, At
<1>3. StartInv(t) /\ FoldInv(t) /\ HandlerInv(t)
  BY <1>1 DEF Stage
<1>4. owner = t /\ \A u \in Transactions \ {t} : ~Live(u)
  BY <1>2, Alone DEF IInv, OwnerInv
<1>5. Moved(t) /\ Kept(t) /\ run'[t].pc = (IF run[t].published THEN "restore" ELSE "unstate") /\ run'[t].n = 0
  BY <1>1, <1>2, GotoFacts DEF RollBackConfig, Steps
<1>6. TypeOK'
  BY <1>1, <1>2, <1>5, ConstantsAssumption, RunTyped DEF TypeOK, Moved, RollBackConfig
<1>7. Stage(t)'
  <2>1. StartInv(t)'
    BY <1>1, <1>2, <1>3, <1>5
    DEF StartInv, FoldInv, HandlerInv, Base, Kept, SameLocals, SameFlags, SameEnd, SameClaim,
        RollBackConfig
  <2>2. FoldInv(t)'
    BY <1>1, <1>2, <1>3, <1>5
    DEF StartInv, FoldInv, HandlerInv, Base, Kept, SameLocals, SameFlags, SameEnd, SameClaim,
        RollBackConfig
  <2>3. RestoreInv(t)'
    BY <1>1, <1>2, <1>3, <1>5
    DEF StartInv, FoldInv, HandlerInv, RestoreInv, Base, Back, Kept, SameLocals, SameFlags,
        SameEnd, SameClaim, RollBackConfig
  <2>4. EndInv(t)'
    BY <1>1, <1>2, <1>3, <1>5
    DEF StartInv, FoldInv, HandlerInv, EndInv, Base, Kept, SameLocals, SameFlags, SameEnd,
        SameClaim, RollBackConfig
  <2>5. IndexInv(t)'
    BY <1>1, <1>2, <1>3, <1>5
    DEF StartInv, FoldInv, HandlerInv, IndexInv, Base, Kept, SameLocals, SameFlags, SameEnd,
        SameClaim, RollBackConfig
  <2>6. EarlyInv(t)' /\ SettleInv(t)' /\ LateInv(t)' /\ UndoInv(t)' /\ HandlerInv(t)'
    BY <1>5 DEF EarlyInv, SettleInv, LateInv, UndoInv, HandlerInv
  <2> QED
    BY <2>1, <2>2, <2>3, <2>4, <2>5, <2>6 DEF Stage
<1>8. Claim(t)'
  BY <1>1, <1>2, <1>3, <1>5, ConstantsAssumption
  DEF Claim, StartInv, FoldInv, HandlerInv, Kept, SameLocals, SameFlags, SameEnd, SameClaim,
      RollBackConfig
<1>9. ConfigInv'
  BY <1>1, <1>2, <1>3, <1>5 DEF ConfigInv, StartInv, FoldInv, HandlerInv, RollBackConfig
<1>10. ASSUME NEW v \in Transactions, run'[v].verdict = "PASS"
       PROVE  Accepted(v)' /\ (Live(t)' => Blocked(t)')
  <2>1. run[v].verdict = "PASS"
    BY <1>5, <1>10 DEF Moved, Others, Kept, SameClaim
  <2>2. Accepted(v) /\ Blocked(t)
    BY <1>1, <1>2, <2>1 DEF PassInv
  <2>3. Accepted(v)'
    BY <1>1, <1>2, <1>3, <1>5, <2>2
    DEF Accepted, Blocked, StartInv, FoldInv, HandlerInv, RollBackConfig
  <2>4. Live(t)' => Blocked(t)'
    BY <1>1, <1>2, <1>3, <1>5, <2>2, ConstantsAssumption
    DEF Accepted, Blocked, TypeOK, Kept, SameFlags, StartInv, FoldInv, HandlerInv,
        RollBackConfig
  <2> QED
    BY <2>3, <2>4
<1> QED
  BY <1>4, <1>5, <1>6, <1>7, <1>8, <1>9, <1>10, OwnStep DEF RollBackConfig

LEMMA RollBackStateStep ==
  ASSUME IInv, NEW t \in Transactions, RollBackState(t)
  PROVE  IInv'
<1>1. TypeOK /\ Stage(t) /\ Claim(t) /\ ConfigInv /\ PassInv
  BY DEF IInv
<1>2. run[t].pc = "unstate" /\ Live(t)
  BY DEF RollBackState, At
<1>3. StartInv(t) /\ FoldInv(t) /\ EndInv(t)
  BY <1>1 DEF Stage
<1>4. owner = t /\ \A u \in Transactions \ {t} : ~Live(u)
  BY <1>2, Alone DEF IInv, OwnerInv
<1>5. Moved(t) /\ Kept(t) /\ run'[t].pc = "seal"
  BY <1>1, <1>2, GotoFacts DEF RollBackState, Steps
<1>6. TypeOK'
  BY <1>1, <1>2, <1>5, ConstantsAssumption, RunTyped DEF TypeOK, Moved, RollBackState, States
<1>7. Stage(t)'
  <2>1. StartInv(t)'
    BY <1>1, <1>2, <1>3, <1>5, ConstantsAssumption
    DEF StartInv, FoldInv, EndInv, Base, Kept, SameLocals, SameFlags, SameEnd, SameClaim,
        RollBackState, Claim
  <2>2. FoldInv(t)'
    BY <1>1, <1>2, <1>3, <1>5, ConstantsAssumption
    DEF StartInv, FoldInv, EndInv, Base, Kept, SameLocals, SameFlags, SameEnd, SameClaim,
        RollBackState, Claim
  <2>3. EndInv(t)'
    BY <1>1, <1>2, <1>3, <1>5, ConstantsAssumption
    DEF StartInv, FoldInv, EndInv, Base, Kept, SameLocals, SameFlags, SameEnd, SameClaim,
        RollBackState, Claim
  <2>4. EarlyInv(t)' /\ SettleInv(t)' /\ LateInv(t)' /\ UndoInv(t)' /\ HandlerInv(t)' /\ RestoreInv(t)' /\ IndexInv(t)'
    BY <1>5 DEF EarlyInv, SettleInv, LateInv, UndoInv, HandlerInv, RestoreInv, IndexInv
  <2> QED
    BY <2>1, <2>2, <2>3, <2>4 DEF Stage
<1>8. Claim(t)'
  BY <1>1, <1>2, <1>3, <1>5, ConstantsAssumption
  DEF Claim, StartInv, FoldInv, EndInv, Kept, SameLocals, SameFlags, SameEnd, SameClaim,
      RollBackState, Base
<1>9. ConfigInv'
  BY <1>1, <1>2, <1>3, <1>5 DEF ConfigInv, StartInv, FoldInv, EndInv, RollBackState
<1>10. ASSUME NEW v \in Transactions, run'[v].verdict = "PASS"
       PROVE  Accepted(v)' /\ (Live(t)' => Blocked(t)')
  <2>1. run[v].verdict = "PASS"
    BY <1>5, <1>10 DEF Moved, Others, Kept, SameClaim
  <2>2. Accepted(v) /\ Blocked(t)
    BY <1>1, <1>2, <2>1 DEF PassInv
  <2>3. Accepted(v)'
    BY <1>1, <1>2, <1>3, <1>5, <2>2
    DEF Accepted, Blocked, StartInv, FoldInv, EndInv, RollBackState
  <2>4. Live(t)' => Blocked(t)'
    BY <1>1, <1>2, <1>3, <1>5, <2>2, ConstantsAssumption
    DEF Accepted, Blocked, TypeOK, Kept, SameFlags, StartInv, FoldInv, EndInv, RollBackState,
        Claim
  <2> QED
    BY <2>3, <2>4
<1> QED
  BY <1>4, <1>5, <1>6, <1>7, <1>8, <1>9, <1>10, <1>2, <1>3, OwnStep
  DEF RollBackState, StartInv, Base

LEMMA RefreshStep ==
  ASSUME IInv, NEW t \in Transactions, Refresh(t)
  PROVE  IInv'
<1>1. TypeOK /\ Stage(t) /\ Claim(t) /\ ConfigInv /\ PassInv
  BY DEF IInv
<1>2. run[t].pc = "refresh" /\ Live(t)
  BY DEF Refresh, At
<1>3. StartInv(t) /\ EarlyInv(t)
  BY <1>1 DEF Stage
<1>4. owner = t /\ \A u \in Transactions \ {t} : ~Live(u)
  BY <1>2, Alone DEF IInv, OwnerInv
<1>5. /\ Moved(t) /\ SameFlags(t) /\ SameEnd(t) /\ SameClaim(t)
      /\ run'[t].prev = run[t].prev /\ run'[t].orig = run[t].orig /\ run'[t].held = run[t].held
      /\ run'[t].pc \in {"prepare", "config"}
      /\ dash' \in Dashboards /\ run'[t].before = dash'
      /\ run'[t].pc = "prepare" => mode = "INITIAL" \/ UNCHANGED dash
  <2>1. CASE \E pc \in {"prepare", "config"} : Goto(t, pc) /\ UNCHANGED dash
    BY <1>1, <1>2, <1>3, <2>1, GotoFacts
    DEF TypeOK, Steps, EarlyInv, Untouched, Kept, SameLocals
  <2>2. ASSUME mode = "INITIAL", NEW k \in 0..3, dash' = Written(dash, k, "old"),
               NEW pc \in {"prepare", "config"},
               run' = [run EXCEPT ![t].pc = pc, ![t].before = Written(dash, k, "old")]
        PROVE  /\ Moved(t) /\ SameFlags(t) /\ SameEnd(t) /\ SameClaim(t)
               /\ run'[t].prev = run[t].prev /\ run'[t].orig = run[t].orig
               /\ run'[t].held = run[t].held /\ run'[t].pc = pc
               /\ dash' \in Dashboards /\ run'[t].before = dash'
    <3>1. Written(dash, k, "old") \in Dashboards
      BY <1>1, WrittenTyped DEF TypeOK
    <3>2. pc \in Steps
      BY DEF Steps
    <3> QED
      BY <1>1, <2>2, <3>1, <3>2, BeforeFacts
  <2>3. CASE mode = "INITIAL"
    BY <2>1, <2>2, <2>3 DEF Refresh
  <2>4. CASE mode # "INITIAL"
    BY <2>1, <2>4 DEF Refresh
  <2> QED
    BY <2>3, <2>4
<1>6. TypeOK'
  BY <1>1, <1>2, <1>5, ConstantsAssumption DEF TypeOK, Moved, Refresh
<1>7. Stage(t)'
  <2>1. StartInv(t)'
    BY <1>1, <1>2, <1>3, <1>5
    DEF StartInv, EarlyInv, Untouched, Base, Expected, SameFlags, SameEnd, SameClaim, Refresh
  <2>2. EarlyInv(t)'
    BY <1>1, <1>2, <1>3, <1>5
    DEF StartInv, EarlyInv, Untouched, Base, Expected, ConfigInv, SameFlags, SameEnd, SameClaim,
        Refresh
  <2>3. FoldInv(t)'
    BY <1>1, <1>2, <1>3, <1>5
    DEF StartInv, EarlyInv, FoldInv, Untouched, Base, Expected, SameFlags, SameEnd, SameClaim,
        Refresh
  <2>4. HandlerInv(t)'
    BY <1>1, <1>2, <1>3, <1>5
    DEF StartInv, EarlyInv, HandlerInv, Untouched, Base, Expected, SameFlags, SameEnd,
        SameClaim, Refresh
  <2>5. SettleInv(t)' /\ LateInv(t)' /\ UndoInv(t)' /\ RestoreInv(t)' /\ EndInv(t)' /\ IndexInv(t)'
    BY <1>5 DEF SettleInv, LateInv, UndoInv, RestoreInv, EndInv, IndexInv
  <2> QED
    BY <2>1, <2>2, <2>3, <2>4, <2>5 DEF Stage
<1>8. Claim(t)'
  BY <1>1, <1>2, <1>3, <1>5, ConstantsAssumption
  DEF Claim, StartInv, EarlyInv, SameFlags, SameEnd, SameClaim, Refresh
<1>9. ConfigInv'
  BY <1>1, <1>2, <1>3, <1>5 DEF ConfigInv, StartInv, EarlyInv, Expected, Refresh
<1>10. ASSUME NEW v \in Transactions, run'[v].verdict = "PASS"
       PROVE  Accepted(v)' /\ (Live(t)' => Blocked(t)')
  <2>1. run[v].verdict = "PASS"
    BY <1>5, <1>10 DEF Moved, Others, SameClaim
  <2>2. Accepted(v) /\ Blocked(t)
    BY <1>1, <1>2, <2>1 DEF PassInv
  <2>3. Accepted(v)'
    BY <1>1, <1>2, <1>3, <1>5, <2>2 DEF Accepted, Blocked, StartInv, EarlyInv, Refresh
  <2>4. Live(t)' => Blocked(t)'
    BY <1>1, <1>2, <1>3, <1>5, <2>2, ConstantsAssumption
    DEF Accepted, Blocked, TypeOK, SameFlags, StartInv, EarlyInv, Refresh
  <2> QED
    BY <2>3, <2>4
<1> QED
  BY <1>4, <1>5, <1>6, <1>7, <1>8, <1>9, <1>10, OwnStep DEF Refresh

LEMMA PublishStep ==
  ASSUME IInv, NEW t \in Transactions, Publish(t)
  PROVE  IInv'
<1>1. TypeOK /\ Stage(t) /\ Claim(t) /\ ConfigInv /\ PassInv
  BY DEF IInv
<1>2. run[t].pc = "publish" /\ Live(t)
  BY DEF Publish, At
<1>3. StartInv(t) /\ LateInv(t) /\ IndexInv(t)
  BY <1>1 DEF Stage
<1>4. owner = t /\ \A u \in Transactions \ {t} : ~Live(u)
  BY <1>2, Alone DEF IInv, OwnerInv
<1>5. /\ Moved(t) /\ Kept(t) /\ dash' \in Dashboards
      /\ run'[t].pc \in {"publish", "adapter"} /\ run'[t].n \in {0, 1, 2}
  <2>1. dash \in Dashboards /\ run[t].n \in {0, 1, 2}
    BY <1>1, <1>2, <1>3 DEF TypeOK, IndexInv
  <2>2. dash' \in Dashboards
    BY <2>1, PutTyped DEF Publish
  <2>3. CASE run[t].n = 2
    BY <1>1, <2>2, <2>3, GotoFacts DEF Publish, Steps
  <2>4. CASE run[t].n # 2
    BY <1>1, <2>1, <2>2, <2>4, NextFacts DEF Publish, Steps
  <2> QED
    BY <2>3, <2>4
<1>6. TypeOK'
  BY <1>1, <1>2, <1>5, ConstantsAssumption DEF TypeOK, Moved, Publish
<1>7. Stage(t)'
  <2>1. StartInv(t)'
    BY <1>1, <1>2, <1>3, <1>5
    DEF StartInv, LateInv, IndexInv, Base, Expected, Kept, SameLocals, SameFlags, SameEnd,
        SameClaim, Publish
  <2>2. LateInv(t)'
    BY <1>1, <1>2, <1>3, <1>5
    DEF StartInv, LateInv, IndexInv, Base, Expected, ConfigInv, Kept, SameLocals, SameFlags,
        SameEnd, SameClaim, Publish
  <2>3. IndexInv(t)'
    BY <1>1, <1>2, <1>3, <1>5
    DEF StartInv, LateInv, IndexInv, Base, Expected, Kept, SameLocals, SameFlags, SameEnd,
        SameClaim, Publish
  <2>4. EarlyInv(t)' /\ SettleInv(t)' /\ FoldInv(t)' /\ UndoInv(t)' /\ HandlerInv(t)' /\ RestoreInv(t)' /\ EndInv(t)'
    BY <1>5 DEF EarlyInv, SettleInv, FoldInv, UndoInv, HandlerInv, RestoreInv, EndInv
  <2> QED
    BY <2>1, <2>2, <2>3, <2>4 DEF Stage
<1>8. Claim(t)'
  BY <1>1, <1>2, <1>3, <1>5, ConstantsAssumption
  DEF Claim, StartInv, LateInv, Kept, SameLocals, SameFlags, SameEnd, SameClaim, Publish
<1>9. ConfigInv'
  BY <1>1, <1>2, <1>3, <1>5 DEF ConfigInv, StartInv, LateInv, Expected, Publish
<1>10. \A v \in Transactions : run'[v].verdict = "PASS" =>
         Accepted(v)' /\ (Live(t)' => Blocked(t)')
  BY <1>1, <1>2, <1>3, <1>5, NoPass DEF Blocked, StartInv, LateInv, Kept, SameClaim, Publish
<1> QED
  BY <1>4, <1>5, <1>6, <1>7, <1>8, <1>9, <1>10, OwnStep DEF Publish

LEMMA SmokeStep ==
  ASSUME IInv, NEW t \in Transactions, Smoke(t)
  PROVE  IInv'
<1>1. TypeOK /\ Stage(t) /\ Claim(t) /\ ConfigInv /\ PassInv
  BY DEF IInv
<1>2. run[t].pc = "smoke" /\ Live(t)
  BY DEF Smoke, At
<1>3. StartInv(t) /\ LateInv(t)
  BY <1>1 DEF Stage
<1>4. owner = t /\ \A u \in Transactions \ {t} : ~Live(u)
  BY <1>2, Alone DEF IInv, OwnerInv
<1>5. /\ Moved(t) /\ SameLocals(t) /\ SameFlags(t) /\ SameEnd(t)
      /\ run'[t].verdict = run[t].verdict
      /\ run'[t].pc = IF run'[t].smoked THEN "validate" ELSE "config"
  <2>1. PICK ok \in BOOLEAN :
          run' = [run EXCEPT ![t].pc = IF ok THEN "validate" ELSE "config", ![t].smoked = ok]
    BY DEF Smoke
  <2> DEFINE pc == IF ok THEN "validate" ELSE "config"
  <2>2. pc \in Steps
    BY DEF Steps
  <2>3. pc = IF ok THEN "validate" ELSE "config"
    OBVIOUS
  <2>4. run' = [run EXCEPT ![t].pc = pc, ![t].smoked = ok]
    BY <2>1
  <2> HIDE DEF pc
  <2>5. /\ Moved(t) /\ SameLocals(t) /\ SameFlags(t) /\ SameEnd(t)
        /\ run'[t].verdict = run[t].verdict
        /\ run'[t].pc = pc /\ run'[t].smoked = ok
    BY <1>1, <2>2, <2>4, SmokedFacts
  <2>6. CASE ok
    BY <2>3, <2>5, <2>6
  <2>7. CASE ~ok
    BY <2>3, <2>5, <2>7
  <2> QED
    BY <2>5, <2>6, <2>7
<1>6. TypeOK'
  BY <1>1, <1>2, <1>5, ConstantsAssumption DEF TypeOK, Moved, Smoke, files
<1>7. Stage(t)'
  <2>1. StartInv(t)'
    BY <1>1, <1>2, <1>3, <1>5
    DEF StartInv, LateInv, Base, Expected, SameLocals, SameFlags, SameEnd, Smoke, files
  <2>2. LateInv(t)'
    BY <1>1, <1>2, <1>3, <1>5
    DEF StartInv, LateInv, Base, Expected, ConfigInv, SameLocals, SameFlags, SameEnd, Smoke,
        files
  <2>3. FoldInv(t)'
    BY <1>1, <1>2, <1>3, <1>5
    DEF StartInv, LateInv, FoldInv, Base, Expected, SameLocals, SameFlags, SameEnd, Smoke, files
  <2>4. HandlerInv(t)'
    BY <1>1, <1>2, <1>3, <1>5
    DEF StartInv, LateInv, HandlerInv, Base, Expected, SameLocals, SameFlags, SameEnd, Smoke,
        files
  <2>5. EarlyInv(t)' /\ SettleInv(t)' /\ UndoInv(t)' /\ RestoreInv(t)' /\ EndInv(t)' /\ IndexInv(t)'
    BY <1>5 DEF EarlyInv, SettleInv, UndoInv, RestoreInv, EndInv, IndexInv
  <2> QED
    BY <2>1, <2>2, <2>3, <2>4, <2>5 DEF Stage
<1>8. Claim(t)'
  BY <1>1, <1>2, <1>3, <1>5, ConstantsAssumption
  DEF Claim, StartInv, LateInv, SameLocals, SameFlags, SameEnd, Smoke, files
<1>9. ConfigInv'
  BY <1>1, <1>2, <1>3, <1>5 DEF ConfigInv, StartInv, LateInv, Expected, Smoke, files
<1>10. \A v \in Transactions : run'[v].verdict = "PASS" =>
         Accepted(v)' /\ (Live(t)' => Blocked(t)')
  BY <1>1, <1>2, <1>3, <1>5, NoPass DEF Blocked, StartInv, LateInv, Smoke, files
<1> QED
  BY <1>4, <1>5, <1>6, <1>7, <1>8, <1>9, <1>10, OwnStep DEF Smoke, files

LEMMA ReportStep ==
  ASSUME IInv, NEW t \in Transactions, Report(t)
  PROVE  IInv'
<1>1. TypeOK /\ Stage(t) /\ Claim(t) /\ ConfigInv /\ PassInv
  BY DEF IInv
<1>2. run[t].pc = "report" /\ Live(t)
  BY DEF Report, At
<1>3. StartInv(t) /\ LateInv(t)
  BY <1>1 DEF Stage
<1>4. owner = t /\ \A u \in Transactions \ {t} : ~Live(u)
  BY <1>2, Alone DEF IInv, OwnerInv
<1>5. /\ Moved(t) /\ SameLocals(t) /\ SameFlags(t) /\ SameEnd(t)
      /\ run'[t].smoked = run[t].smoked
      /\ run'[t].pc = "ended" /\ run'[t].verdict = "PASS"
  BY <1>1, <1>2, VerdictFacts DEF Report, Steps, Outcomes, Verdicts
<1>6. TypeOK'
  BY <1>1, <1>2, <1>5, ConstantsAssumption DEF TypeOK, Moved, Report, Verdicts
<1>7. Stage(t)'
  <2>1. StartInv(t)'
    BY <1>1, <1>2, <1>3, <1>5
    DEF StartInv, LateInv, Base, Expected, SameLocals, SameFlags, SameEnd, Report
  <2>2. EarlyInv(t)' /\ SettleInv(t)' /\ LateInv(t)' /\ FoldInv(t)' /\ UndoInv(t)' /\ HandlerInv(t)' /\ RestoreInv(t)' /\ EndInv(t)' /\ IndexInv(t)'
    BY <1>5
    DEF EarlyInv, SettleInv, LateInv, FoldInv, UndoInv, HandlerInv, RestoreInv, EndInv, IndexInv
  <2> QED
    BY <2>1, <2>2 DEF Stage
<1>8. Claim(t)'
  BY <1>1, <1>2, <1>3, <1>5, ConstantsAssumption
  DEF Claim, StartInv, LateInv, SameLocals, SameFlags, SameEnd, Report, Undone
<1>9. ConfigInv'
  BY <1>1, <1>2, <1>3, <1>5 DEF ConfigInv, StartInv, LateInv, Expected, Report
<1>10. \A v \in Transactions : run'[v].verdict = "PASS" =>
         Accepted(v)' /\ (Live(t)' => Blocked(t)')
  <2>1. \A v \in Transactions \ {t} : run'[v].verdict # "PASS"
    BY <1>1, <1>2, <1>3, <1>5 DEF PassInv, Blocked, LateInv, Moved, Others
  <2>2. Accepted(t)'
    BY <1>2, <1>3, <1>5 DEF Accepted, LateInv, Report
  <2> QED
    BY <1>5, <2>1, <2>2
<1> QED
  BY <1>4, <1>5, <1>6, <1>7, <1>8, <1>9, <1>10, OwnStep DEF Report

LEMMA UndoStep ==
  ASSUME IInv, NEW t \in Transactions, Undo(t)
  PROVE  IInv'
<1>1. TypeOK /\ Stage(t) /\ Claim(t) /\ ConfigInv /\ PassInv
  BY DEF IInv
<1>2. run[t].pc = "undo" /\ Live(t)
  BY DEF Undo, At
<1>3. StartInv(t) /\ FoldInv(t) /\ UndoInv(t) /\ IndexInv(t)
  BY <1>1 DEF Stage
<1>4. owner = t /\ \A u \in Transactions \ {t} : ~Live(u)
  BY <1>2, Alone DEF IInv, OwnerInv
<1>5. /\ Moved(t) /\ Kept(t) /\ dash' \in Dashboards
      /\ run'[t].pc = (IF run[t].n = 2 THEN "config" ELSE "undo")
      /\ run'[t].n = IF run[t].n = 2 THEN 0 ELSE run[t].n + 1
      /\ dash'["rank"] = snap["rank"]
      /\ run[t].n \in {1, 2} => dash'["sidecar"] = snap["sidecar"]
      /\ run[t].n = 2 => dash' = snap
  BY <1>1, <1>2, <1>3, GotoFacts, NextFacts, OneFileBack DEF Undo, Steps, IndexInv, UndoInv
<1>6. TypeOK'
  BY <1>1, <1>2, <1>5, ConstantsAssumption DEF TypeOK, Moved, Undo, RestoreFile
<1>7. Stage(t)'
  <2>1. StartInv(t)'
    BY <1>1, <1>2, <1>3, <1>5
    DEF StartInv, FoldInv, UndoInv, IndexInv, Base, Back, Kept, SameLocals, SameFlags, SameEnd,
        SameClaim, Undo, RestoreFile
  <2>2. FoldInv(t)'
    BY <1>1, <1>2, <1>3, <1>5
    DEF StartInv, FoldInv, UndoInv, IndexInv, Base, Back, Kept, SameLocals, SameFlags, SameEnd,
        SameClaim, Undo, RestoreFile
  <2>3. UndoInv(t)'
    BY <1>1, <1>2, <1>3, <1>5
    DEF StartInv, FoldInv, UndoInv, IndexInv, Base, Back, Kept, SameLocals, SameFlags, SameEnd,
        SameClaim, Undo, RestoreFile
  <2>4. HandlerInv(t)'
    BY <1>1, <1>2, <1>3, <1>5
    DEF StartInv, FoldInv, UndoInv, IndexInv, HandlerInv, Base, Back, Kept, SameLocals,
        SameFlags, SameEnd, SameClaim, Undo, RestoreFile
  <2>5. IndexInv(t)'
    BY <1>1, <1>2, <1>3, <1>5
    DEF StartInv, FoldInv, UndoInv, IndexInv, Base, Back, Kept, SameLocals, SameFlags, SameEnd,
        SameClaim, Undo, RestoreFile
  <2>6. EarlyInv(t)' /\ SettleInv(t)' /\ LateInv(t)' /\ RestoreInv(t)' /\ EndInv(t)'
    BY <1>5 DEF EarlyInv, SettleInv, LateInv, RestoreInv, EndInv
  <2> QED
    BY <2>1, <2>2, <2>3, <2>4, <2>5, <2>6 DEF Stage
<1>8. Claim(t)'
  BY <1>1, <1>2, <1>3, <1>5, ConstantsAssumption
  DEF Claim, StartInv, FoldInv, UndoInv, Kept, SameLocals, SameFlags, SameEnd, SameClaim, Undo,
      RestoreFile
<1>9. ConfigInv'
  BY <1>1, <1>2, <1>3, <1>5 DEF ConfigInv, StartInv, FoldInv, UndoInv, Undo, RestoreFile
<1>10. \A v \in Transactions : run'[v].verdict = "PASS" =>
         Accepted(v)' /\ (Live(t)' => Blocked(t)')
  BY <1>1, <1>2, <1>3, <1>5, NoPass
  DEF Blocked, StartInv, FoldInv, UndoInv, Kept, SameClaim, Undo, RestoreFile
<1> QED
  BY <1>4, <1>5, <1>6, <1>7, <1>8, <1>9, <1>10, OwnStep DEF Undo, RestoreFile

LEMMA RestoreStep ==
  ASSUME IInv, NEW t \in Transactions, Restore(t)
  PROVE  IInv'
<1>1. TypeOK /\ Stage(t) /\ Claim(t) /\ ConfigInv /\ PassInv
  BY DEF IInv
<1>2. run[t].pc = "restore" /\ Live(t)
  BY DEF Restore, At
<1>3. StartInv(t) /\ FoldInv(t) /\ RestoreInv(t) /\ IndexInv(t)
  BY <1>1 DEF Stage
<1>4. owner = t /\ \A u \in Transactions \ {t} : ~Live(u)
  BY <1>2, Alone DEF IInv, OwnerInv
<1>5. /\ Moved(t) /\ Kept(t) /\ dash' \in Dashboards
      /\ run'[t].pc = (IF run[t].n = 2 THEN "check" ELSE "restore")
      /\ run'[t].n = IF run[t].n = 2 THEN 0 ELSE run[t].n + 1
      /\ dash'["rank"] = snap["rank"]
      /\ run[t].n \in {1, 2} => dash'["sidecar"] = snap["sidecar"]
      /\ run[t].n = 2 => dash' = snap
  BY <1>1, <1>2, <1>3, GotoFacts, NextFacts, OneFileBack
  DEF Restore, Steps, IndexInv, RestoreInv
<1>6. TypeOK'
  BY <1>1, <1>2, <1>5, ConstantsAssumption DEF TypeOK, Moved, Restore, RestoreFile
<1>7. Stage(t)'
  <2>1. StartInv(t)'
    BY <1>1, <1>2, <1>3, <1>5
    DEF StartInv, FoldInv, RestoreInv, IndexInv, Base, Back, Kept, SameLocals, SameFlags,
        SameEnd, SameClaim, Restore, RestoreFile
  <2>2. FoldInv(t)'
    BY <1>1, <1>2, <1>3, <1>5
    DEF StartInv, FoldInv, RestoreInv, IndexInv, Base, Back, Kept, SameLocals, SameFlags,
        SameEnd, SameClaim, Restore, RestoreFile
  <2>3. RestoreInv(t)'
    BY <1>1, <1>2, <1>3, <1>5
    DEF StartInv, FoldInv, RestoreInv, IndexInv, Base, Back, Kept, SameLocals, SameFlags,
        SameEnd, SameClaim, Restore, RestoreFile
  <2>4. IndexInv(t)'
    BY <1>1, <1>2, <1>3, <1>5
    DEF StartInv, FoldInv, RestoreInv, IndexInv, Base, Back, Kept, SameLocals, SameFlags,
        SameEnd, SameClaim, Restore, RestoreFile
  <2>5. EarlyInv(t)' /\ SettleInv(t)' /\ LateInv(t)' /\ UndoInv(t)' /\ HandlerInv(t)' /\ EndInv(t)'
    BY <1>5 DEF EarlyInv, SettleInv, LateInv, UndoInv, HandlerInv, EndInv
  <2> QED
    BY <2>1, <2>2, <2>3, <2>4, <2>5 DEF Stage
<1>8. Claim(t)'
  BY <1>1, <1>2, <1>3, <1>5, ConstantsAssumption
  DEF Claim, StartInv, FoldInv, RestoreInv, Kept, SameLocals, SameFlags, SameEnd, SameClaim,
      Restore, RestoreFile
<1>9. ConfigInv'
  BY <1>1, <1>2, <1>3, <1>5 DEF ConfigInv, StartInv, FoldInv, RestoreInv, Restore, RestoreFile
<1>10. \A v \in Transactions : run'[v].verdict = "PASS" =>
         Accepted(v)' /\ (Live(t)' => Blocked(t)')
  BY <1>1, <1>2, <1>3, <1>5, NoPass
  DEF Blocked, StartInv, FoldInv, RestoreInv, Kept, SameClaim, Restore, RestoreFile
<1> QED
  BY <1>4, <1>5, <1>6, <1>7, <1>8, <1>9, <1>10, OwnStep DEF Restore, RestoreFile

LEMMA CheckRestoredStep ==
  ASSUME IInv, NEW t \in Transactions, CheckRestored(t)
  PROVE  IInv'
<1>1. TypeOK /\ Stage(t) /\ Claim(t) /\ ConfigInv /\ PassInv
  BY DEF IInv
<1>2. run[t].pc = "check" /\ Live(t)
  BY DEF CheckRestored, At
<1>3. StartInv(t) /\ FoldInv(t) /\ RestoreInv(t)
  BY <1>1 DEF Stage
<1>4. owner = t /\ \A u \in Transactions \ {t} : ~Live(u)
  BY <1>2, Alone DEF IInv, OwnerInv
<1>5. /\ Moved(t) /\ SameLocals(t) /\ SameFlags(t) /\ SameClaim(t)
      /\ run'[t].stranded = run[t].stranded /\ run'[t].pc = "unstate"
      /\ run'[t].errors = run[t].errors \/ run'[t].errors
  <2>1. CASE Goto(t, "unstate")
    BY <1>1, <2>1, GotoFacts DEF Steps, Kept, SameEnd
  <2>2. CASE run' = [run EXCEPT ![t].pc = "unstate", ![t].errors = TRUE]
    BY <1>1, <2>2, ErrorsFacts DEF Steps
  <2> QED
    BY <2>1, <2>2 DEF CheckRestored
<1>6. TypeOK'
  BY <1>1, <1>2, <1>5, ConstantsAssumption DEF TypeOK, Moved, CheckRestored
<1>7. Stage(t)'
  <2>1. StartInv(t)'
    BY <1>1, <1>2, <1>3, <1>5
    DEF StartInv, FoldInv, RestoreInv, Base, Back, SameLocals, SameFlags, SameClaim,
        CheckRestored
  <2>2. FoldInv(t)'
    BY <1>1, <1>2, <1>3, <1>5
    DEF StartInv, FoldInv, RestoreInv, Base, Back, SameLocals, SameFlags, SameClaim,
        CheckRestored
  <2>3. EndInv(t)'
    BY <1>1, <1>2, <1>3, <1>5
    DEF StartInv, FoldInv, RestoreInv, EndInv, Base, Back, SameLocals, SameFlags, SameClaim,
        CheckRestored
  <2>4. EarlyInv(t)' /\ SettleInv(t)' /\ LateInv(t)' /\ UndoInv(t)' /\ HandlerInv(t)' /\ RestoreInv(t)' /\ IndexInv(t)'
    BY <1>5 DEF EarlyInv, SettleInv, LateInv, UndoInv, HandlerInv, RestoreInv, IndexInv
  <2> QED
    BY <2>1, <2>2, <2>3, <2>4 DEF Stage
<1>8. Claim(t)'
  BY <1>1, <1>2, <1>3, <1>5, ConstantsAssumption
  DEF Claim, StartInv, FoldInv, RestoreInv, SameLocals, SameFlags, SameClaim, CheckRestored
<1>9. ConfigInv'
  BY <1>1, <1>2, <1>3, <1>5 DEF ConfigInv, StartInv, FoldInv, RestoreInv, CheckRestored
<1>10. \A v \in Transactions : run'[v].verdict = "PASS" =>
         Accepted(v)' /\ (Live(t)' => Blocked(t)')
  BY <1>1, <1>2, <1>3, <1>5, NoPass
  DEF Blocked, StartInv, FoldInv, RestoreInv, SameClaim, CheckRestored
<1> QED
  BY <1>4, <1>5, <1>6, <1>7, <1>8, <1>9, <1>10, OwnStep DEF CheckRestored

LEMMA SealFailureStep ==
  ASSUME IInv, NEW t \in Transactions, SealFailure(t)
  PROVE  IInv'
<1>1. TypeOK /\ Stage(t) /\ Claim(t) /\ ConfigInv /\ PassInv
  BY DEF IInv
<1>2. run[t].pc = "seal" /\ Live(t)
  BY DEF SealFailure, At
<1>3. StartInv(t) /\ FoldInv(t) /\ EndInv(t)
  BY <1>1 DEF Stage
<1>4. owner = t /\ \A u \in Transactions \ {t} : ~Live(u)
  BY <1>2, Alone DEF IInv, OwnerInv
<1>5. /\ Moved(t) /\ SameLocals(t) /\ SameFlags(t) /\ SameEnd(t)
      /\ run'[t].smoked = run[t].smoked /\ run'[t].pc = "ended"
      /\ run'[t].verdict \in {run[t].verdict, Verdict(run[t])}
      /\ Verdict(run[t]) \in Undone \cup {"FAIL_ROLLBACK_INCOMPLETE"}
  <2>3. Verdict(run[t]) \in Undone \cup {"FAIL_ROLLBACK_INCOMPLETE"}
    BY <1>1, VerdictTyped DEF TypeOK
  <2>1. CASE Goto(t, "ended")
    BY <1>1, <2>1, <2>3, GotoFacts DEF Steps, Kept, SameClaim
  <2>2. CASE run' = [run EXCEPT ![t].pc = "ended", ![t].verdict = Verdict(run[t])]
    <3> DEFINE x == Verdict(run[t])
    <3>1. x \in Outcomes /\ "ended" \in Steps
      BY <2>3 DEF Steps, Outcomes, Verdicts, Undone
    <3>2. x \in {run[t].verdict, Verdict(run[t])} /\ x \in Undone \cup {"FAIL_ROLLBACK_INCOMPLETE"}
      BY <2>3
    <3>3. run' = [run EXCEPT ![t].pc = "ended", ![t].verdict = x]
      BY <2>2
    <3> HIDE DEF x
    <3>4. /\ Moved(t) /\ run'[t].pc = "ended" /\ run'[t].verdict = x /\ SameLocals(t)
          /\ SameFlags(t) /\ SameEnd(t) /\ run'[t].smoked = run[t].smoked
      BY <1>1, <3>1, <3>3, VerdictFacts
    <3> QED
      BY <2>3, <3>2, <3>4
  <2> QED
    BY <2>1, <2>2 DEF SealFailure
<1>6. TypeOK'
  BY <1>1, <1>2, <1>5, ConstantsAssumption, VerdictTyped
  DEF TypeOK, Moved, SealFailure, Verdicts, Undone, Fault
<1>7. Stage(t)'
  <2>1. StartInv(t)'
    BY <1>1, <1>2, <1>3, <1>5
    DEF StartInv, FoldInv, EndInv, Base, SameLocals, SameFlags, SameEnd, SealFailure
  <2>2. EarlyInv(t)' /\ SettleInv(t)' /\ LateInv(t)' /\ FoldInv(t)' /\ UndoInv(t)' /\ HandlerInv(t)' /\ RestoreInv(t)' /\ EndInv(t)' /\ IndexInv(t)'
    BY <1>5
    DEF EarlyInv, SettleInv, LateInv, FoldInv, UndoInv, HandlerInv, RestoreInv, EndInv, IndexInv
  <2> QED
    BY <2>1, <2>2 DEF Stage
<1>8. Claim(t)'
  BY <1>1, <1>2, <1>3, <1>5, ConstantsAssumption
  DEF Claim, StartInv, FoldInv, EndInv, SameLocals, SameFlags, SameEnd, SealFailure, Verdict,
      Undone
<1>9. ConfigInv'
  BY <1>1, <1>2, <1>3, <1>5 DEF ConfigInv, StartInv, FoldInv, EndInv, SealFailure
<1>10. ASSUME NEW v \in Transactions, run'[v].verdict = "PASS"
       PROVE  Accepted(v)' /\ (Live(t)' => Blocked(t)')
  <2>1. run[v].verdict = "PASS"
    BY <1>5, <1>10 DEF Moved, Others, Undone
  <2>2. Accepted(v) /\ Blocked(t)
    BY <1>1, <1>2, <2>1 DEF PassInv
  <2>3. Accepted(v)'
    BY <1>1, <1>2, <1>3, <1>5, <2>2
    DEF Accepted, Blocked, StartInv, FoldInv, EndInv, SealFailure
  <2>4. Live(t)' => Blocked(t)'
    BY <1>1, <1>2, <1>3, <1>5, <2>2, ConstantsAssumption
    DEF Accepted, Blocked, TypeOK, SameFlags, StartInv, FoldInv, EndInv, SealFailure
  <2> QED
    BY <2>3, <2>4
<1> QED
  BY <1>4, <1>5, <1>6, <1>7, <1>8, <1>9, <1>10, OwnStep DEF SealFailure

LEMMA RepairFailsStep ==
  ASSUME IInv, NEW t \in Transactions, RepairFails(t)
  PROVE  IInv'
<1>1. TypeOK /\ Stage(t) /\ Claim(t) /\ ConfigInv /\ PassInv
  BY DEF IInv
<1>2. run[t].pc \in {"uncommit", "undo"} /\ Live(t)
  BY DEF RepairFails, At
<1>3. StartInv(t) /\ SettleInv(t) /\ FoldInv(t) /\ UndoInv(t) /\ IndexInv(t)
  BY <1>1 DEF Stage
<1>4. owner = t /\ \A u \in Transactions \ {t} : ~Live(u)
  BY <1>2, Alone DEF IInv, OwnerInv
<1>5. /\ Moved(t) /\ SameLocals(t) /\ SameFlags(t) /\ SameClaim(t)
      /\ run'[t].pc = "config" /\ run'[t].n = 0 /\ run'[t].stranded
      /\ run'[t].errors = run[t].errors
  BY <1>1, <1>2, StrandFacts DEF RepairFails, Steps
<1>6. TypeOK'
  BY <1>1, <1>2, <1>5, ConstantsAssumption DEF TypeOK, Moved, RepairFails, Fault, files
<1>7. Stage(t)'
  <2>1. StartInv(t)'
    BY <1>1, <1>2, <1>3, <1>5
    DEF StartInv, SettleInv, FoldInv, UndoInv, IndexInv, Untouched, Base, Back, SameLocals,
        SameFlags, SameClaim, RepairFails, Fault, files
  <2>2. FoldInv(t)'
    BY <1>1, <1>2, <1>3, <1>5
    DEF StartInv, SettleInv, FoldInv, UndoInv, IndexInv, Untouched, Base, Back, SameLocals,
        SameFlags, SameClaim, RepairFails, Fault, files
  <2>3. HandlerInv(t)'
    BY <1>1, <1>2, <1>3, <1>5
    DEF StartInv, SettleInv, FoldInv, UndoInv, IndexInv, HandlerInv, Untouched, Base, Back,
        SameLocals, SameFlags, SameClaim, RepairFails, Fault, files
  <2>4. EarlyInv(t)' /\ SettleInv(t)' /\ LateInv(t)' /\ UndoInv(t)' /\ RestoreInv(t)' /\ EndInv(t)' /\ IndexInv(t)'
    BY <1>5 DEF EarlyInv, SettleInv, LateInv, UndoInv, RestoreInv, EndInv, IndexInv
  <2> QED
    BY <2>1, <2>2, <2>3, <2>4 DEF Stage
<1>8. Claim(t)'
  BY <1>1, <1>2, <1>3, <1>5, ConstantsAssumption
  DEF Claim, StartInv, SettleInv, FoldInv, UndoInv, SameLocals, SameFlags, SameClaim,
      RepairFails, Fault, files
<1>9. ConfigInv'
  BY <1>1, <1>2, <1>3, <1>5
  DEF ConfigInv, StartInv, SettleInv, FoldInv, UndoInv, RepairFails, Fault, files
<1>10. \A v \in Transactions : run'[v].verdict = "PASS" =>
         Accepted(v)' /\ (Live(t)' => Blocked(t)')
  BY <1>1, <1>2, <1>3, <1>5, NoPass
  DEF Blocked, StartInv, SettleInv, FoldInv, UndoInv, SameClaim, RepairFails, Fault, files
<1> QED
  BY <1>4, <1>5, <1>6, <1>7, <1>8, <1>9, <1>10, OwnStep DEF RepairFails, Fault, files

LEMMA KillStep ==
  ASSUME IInv, NEW t \in Transactions, Kill(t)
  PROVE  IInv'
<1>1. TypeOK /\ Stage(t) /\ Claim(t) /\ ConfigInv /\ PassInv
  BY DEF IInv
<1>2. run[t].pc \in {"locked", "refresh", "prepare", "backup", "commit", "settle", "capture", "publish", "adapter", "record", "smoke", "validate", "activate", "report", "uncommit", "undo", "config", "restore", "check", "unstate", "seal"} /\ Live(t)
  BY DEF Kill, At
<1>3. StartInv(t) /\ EarlyInv(t) /\ SettleInv(t) /\ LateInv(t) /\ FoldInv(t) /\ UndoInv(t) /\ HandlerInv(t) /\ RestoreInv(t) /\ EndInv(t) /\ IndexInv(t)
  BY <1>1 DEF Stage
<1>4. owner = t /\ \A u \in Transactions \ {t} : ~Live(u)
  BY <1>2, Alone DEF IInv, OwnerInv
<1>5. Moved(t) /\ Kept(t) /\ run'[t].pc = "dead"
  BY <1>1, PcFacts DEF Kill, Steps
<1>6. TypeOK'
  BY <1>1, <1>2, <1>5, ConstantsAssumption DEF TypeOK, Moved, Kill, Fault, files
<1>7. Stage(t)'
  <2>1. StartInv(t)'
    BY <1>1, <1>2, <1>3, <1>5
    DEF StartInv, EarlyInv, SettleInv, LateInv, FoldInv, UndoInv, HandlerInv, RestoreInv,
        EndInv, IndexInv, Untouched, Base, Expected, Back, Kept, SameLocals, SameFlags, SameEnd,
        SameClaim, Kill, Fault, files
  <2>2. EarlyInv(t)' /\ SettleInv(t)' /\ LateInv(t)' /\ FoldInv(t)' /\ UndoInv(t)' /\ HandlerInv(t)' /\ RestoreInv(t)' /\ EndInv(t)' /\ IndexInv(t)'
    BY <1>5
    DEF EarlyInv, SettleInv, LateInv, FoldInv, UndoInv, HandlerInv, RestoreInv, EndInv, IndexInv
  <2> QED
    BY <2>1, <2>2 DEF Stage
<1>8. Claim(t)'
  BY <1>1, <1>2, <1>3, <1>5, ConstantsAssumption
  DEF Claim, StartInv, EarlyInv, SettleInv, LateInv, FoldInv, UndoInv, HandlerInv, RestoreInv,
      EndInv, Kept, SameLocals, SameFlags, SameEnd, SameClaim, Kill, Fault, files
<1>9. ConfigInv'
  BY <1>1, <1>2, <1>3, <1>5
  DEF ConfigInv, StartInv, EarlyInv, SettleInv, LateInv, FoldInv, UndoInv, HandlerInv,
      RestoreInv, EndInv, Expected, Kill, Fault, files
<1>10. ASSUME NEW v \in Transactions, run'[v].verdict = "PASS"
       PROVE  Accepted(v)' /\ (Live(t)' => Blocked(t)')
  <2>1. run[v].verdict = "PASS"
    BY <1>5, <1>10 DEF Moved, Others, Kept, SameClaim
  <2>2. Accepted(v) /\ Blocked(t)
    BY <1>1, <1>2, <2>1 DEF PassInv
  <2>3. Accepted(v)'
    BY <1>1, <1>2, <1>3, <1>5, <2>2
    DEF Accepted, Blocked, StartInv, EarlyInv, SettleInv, LateInv, FoldInv, UndoInv, HandlerInv,
        RestoreInv, EndInv, IndexInv, Kill, Fault, files
  <2>4. Live(t)' => Blocked(t)'
    BY <1>1, <1>2, <1>3, <1>5, <2>2, ConstantsAssumption
    DEF Accepted, Blocked, TypeOK, Kept, SameFlags, StartInv, EarlyInv, SettleInv, LateInv,
        FoldInv, UndoInv, HandlerInv, RestoreInv, EndInv, IndexInv, Kill, Fault, files
  <2> QED
    BY <2>3, <2>4
<1> QED
  BY <1>4, <1>5, <1>6, <1>7, <1>8, <1>9, <1>10, OwnStep DEF Kill, Fault, files

LEMMA RollbackFailsStep ==
  ASSUME IInv, NEW t \in Transactions, RollbackFails(t)
  PROVE  IInv'
<1>1. TypeOK /\ Stage(t) /\ Claim(t) /\ ConfigInv /\ PassInv
  BY DEF IInv
<1>2. run[t].pc \in {"config", "restore", "check", "unstate", "seal"} /\ Live(t)
  BY DEF RollbackFails, At
<1>3. StartInv(t) /\ FoldInv(t) /\ HandlerInv(t) /\ RestoreInv(t) /\ EndInv(t) /\ IndexInv(t)
  BY <1>1 DEF Stage
<1>4. owner = t /\ \A u \in Transactions \ {t} : ~Live(u)
  BY <1>2, Alone DEF IInv, OwnerInv
<1>5. /\ Moved(t) /\ SameLocals(t) /\ SameFlags(t) /\ SameClaim(t)
      /\ run'[t].n = 0 /\ run'[t].errors /\ run'[t].stranded = run[t].stranded
      /\ run'[t].pc = CASE At(t, "unstate") -> "seal"
                        [] At(t, "config") /\ run[t].published -> "restore"
                        [] OTHER -> "unstate"
  <2> DEFINE pc == CASE At(t, "unstate") -> "seal"
                     [] At(t, "config") /\ run[t].published -> "restore"
                     [] OTHER -> "unstate"
  <2>1. pc \in Steps
    BY DEF Steps
  <2>2. run' = [run EXCEPT ![t].errors = TRUE, ![t].n = 0, ![t].pc = pc]
    BY DEF RollbackFails
  <2>3. pc = CASE At(t, "unstate") -> "seal"
              [] At(t, "config") /\ run[t].published -> "restore"
              [] OTHER -> "unstate"
    OBVIOUS
  <2> HIDE DEF pc
  <2> QED
    BY <1>1, <2>1, <2>2, <2>3, SkipFacts
<1>6. TypeOK'
  BY <1>1, <1>2, <1>5, ConstantsAssumption DEF TypeOK, Moved, RollbackFails, Fault, files
<1>7. Stage(t)'
  <2>1. StartInv(t)'
    BY <1>1, <1>2, <1>3, <1>5
    DEF StartInv, FoldInv, HandlerInv, RestoreInv, EndInv, IndexInv, Base, Back, SameLocals,
        SameFlags, SameClaim, RollbackFails, Fault, files, At
  <2>2. FoldInv(t)'
    BY <1>1, <1>2, <1>3, <1>5
    DEF StartInv, FoldInv, HandlerInv, RestoreInv, EndInv, IndexInv, Base, Back, SameLocals,
        SameFlags, SameClaim, RollbackFails, Fault, files, At
  <2>3. RestoreInv(t)'
    BY <1>1, <1>2, <1>3, <1>5
    DEF StartInv, FoldInv, HandlerInv, RestoreInv, EndInv, IndexInv, Base, Back, SameLocals,
        SameFlags, SameClaim, RollbackFails, Fault, files, At
  <2>4. EndInv(t)'
    BY <1>1, <1>2, <1>3, <1>5
    DEF StartInv, FoldInv, HandlerInv, RestoreInv, EndInv, IndexInv, Base, Back, SameLocals,
        SameFlags, SameClaim, RollbackFails, Fault, files, At
  <2>5. IndexInv(t)'
    BY <1>1, <1>2, <1>3, <1>5
    DEF StartInv, FoldInv, HandlerInv, RestoreInv, EndInv, IndexInv, Base, Back, SameLocals,
        SameFlags, SameClaim, RollbackFails, Fault, files, At
  <2>6. EarlyInv(t)' /\ SettleInv(t)' /\ LateInv(t)' /\ UndoInv(t)' /\ HandlerInv(t)'
    BY <1>5 DEF EarlyInv, SettleInv, LateInv, UndoInv, HandlerInv
  <2> QED
    BY <2>1, <2>2, <2>3, <2>4, <2>5, <2>6 DEF Stage
<1>8. Claim(t)'
  BY <1>1, <1>2, <1>3, <1>5, ConstantsAssumption
  DEF Claim, StartInv, FoldInv, HandlerInv, RestoreInv, EndInv, SameLocals, SameFlags,
      SameClaim, RollbackFails, Fault, files
<1>9. ConfigInv'
  BY <1>1, <1>2, <1>3, <1>5
  DEF ConfigInv, StartInv, FoldInv, HandlerInv, RestoreInv, EndInv, RollbackFails, Fault, files
<1>10. \A v \in Transactions : run'[v].verdict = "PASS" =>
         Accepted(v)' /\ (Live(t)' => Blocked(t)')
  BY <1>1, <1>2, <1>3, <1>5, NoPass
  DEF Blocked, StartInv, FoldInv, HandlerInv, RestoreInv, EndInv, SameClaim, RollbackFails,
      Fault, files
<1> QED
  BY <1>4, <1>5, <1>6, <1>7, <1>8, <1>9, <1>10, OwnStep DEF RollbackFails, Fault, files

LEMMA RaiseStep ==
  ASSUME IInv, NEW t \in Transactions, Raise(t)
  PROVE  IInv'
<1>1. TypeOK /\ Stage(t) /\ Claim(t) /\ ConfigInv /\ PassInv
  BY DEF IInv
<1>2. run[t].pc \in {"locked", "refresh", "prepare", "backup", "commit", "settle", "capture", "publish", "adapter", "record", "smoke", "validate", "activate", "report"} /\ Live(t)
  BY DEF Raise, At
<1>3. StartInv(t) /\ EarlyInv(t) /\ SettleInv(t) /\ LateInv(t) /\ IndexInv(t)
  BY <1>1 DEF Stage
<1>4. owner = t /\ \A u \in Transactions \ {t} : ~Live(u)
  BY <1>2, Alone DEF IInv, OwnerInv
<1>5. /\ Moved(t) /\ SameLocals(t) /\ SameFlags(t) /\ SameClaim(t)
      /\ run'[t].pc \in {"uncommit", "undo", "config"}
      /\ run'[t].pc = "uncommit" <=> run[t].pc = "settle"
      /\ run'[t].pc = "undo" <=> run[t].pc \in {"publish", "adapter"}
      /\ run'[t].n = 0 /\ run'[t].errors = run[t].errors
      /\ run'[t].stranded = (run[t].stranded \/ run[t].pc = "record")
  <2>1. /\ Catch(run[t].pc) \in Steps
        /\ (run[t].stranded \/ run[t].pc = "record") \in BOOLEAN
    BY DEF Catch, Steps
  <2>2. run' = [run EXCEPT ![t].pc = Catch(run[t].pc), ![t].n = 0,
                           ![t].stranded = (run[t].stranded \/ run[t].pc = "record")]
    BY <1>1 DEF Raise, At, TypeOK
  <2>3. /\ Catch(run[t].pc) \in {"uncommit", "undo", "config"}
        /\ Catch(run[t].pc) = "uncommit" <=> run[t].pc = "settle"
        /\ Catch(run[t].pc) = "undo" <=> run[t].pc \in {"publish", "adapter"}
    BY DEF Catch
  <2> QED
    BY <1>1, <2>1, <2>2, <2>3, StrandFacts
<1>6. TypeOK'
  BY <1>1, <1>2, <1>5, ConstantsAssumption DEF TypeOK, Moved, Raise, Fault, files
<1>Found. run[t].pc \in {"publish", "adapter"} =>
        /\ ~run[t].published /\ ~run[t].errors /\ ~run[t].stranded /\ snap = run[t].before
        /\ ~run[t].committed => config = run[t].orig
  BY <1>1, <1>3 DEF LateInv, Expected, TypeOK
<1>Files. config' = config /\ dash' = dash /\ snap' = snap
  BY DEF Raise, files
<1>Strand. run[t].pc \in {"publish", "adapter"} => ~run'[t].stranded
  BY <1>Found, <1>5
<1>Index. Back(t)'
  BY <1>5 DEF Back
<1>7. Stage(t)'
  <2>1. StartInv(t)'
    BY <1>1, <1>2, <1>3, <1>5
    DEF StartInv, EarlyInv, SettleInv, LateInv, IndexInv, Untouched, Base, Expected, SameLocals,
        SameFlags, SameClaim, Raise, Fault, files
  <2>2. SettleInv(t)'
    BY <1>1, <1>2, <1>3, <1>5
    DEF StartInv, EarlyInv, SettleInv, LateInv, IndexInv, Untouched, Base, Expected, SameLocals,
        SameFlags, SameClaim, Raise, Fault, files
  <2>3. FoldInv(t)'
    BY <1>1, <1>2, <1>3, <1>5
    DEF StartInv, EarlyInv, SettleInv, LateInv, IndexInv, FoldInv, Untouched, Base, Expected,
        SameLocals, SameFlags, SameClaim, Raise, Fault, files
  <2>4. UndoInv(t)'
    BY <1>Found, <1>Files, <1>Strand, <1>Index, <1>5 DEF UndoInv, SameLocals, SameFlags
  <2>5. HandlerInv(t)'
    BY <1>1, <1>2, <1>3, <1>5
    DEF StartInv, EarlyInv, SettleInv, LateInv, IndexInv, HandlerInv, Untouched, Base, Expected,
        SameLocals, SameFlags, SameClaim, Raise, Fault, files
  <2>6. IndexInv(t)'
    BY <1>1, <1>2, <1>3, <1>5
    DEF StartInv, EarlyInv, SettleInv, LateInv, IndexInv, Untouched, Base, Expected, SameLocals,
        SameFlags, SameClaim, Raise, Fault, files
  <2>7. EarlyInv(t)' /\ LateInv(t)' /\ RestoreInv(t)' /\ EndInv(t)'
    BY <1>5 DEF EarlyInv, LateInv, RestoreInv, EndInv
  <2> QED
    BY <2>1, <2>2, <2>3, <2>4, <2>5, <2>6, <2>7 DEF Stage
<1>8. Claim(t)'
  BY <1>1, <1>2, <1>3, <1>5, ConstantsAssumption
  DEF Claim, StartInv, EarlyInv, SettleInv, LateInv, SameLocals, SameFlags, SameClaim, Raise,
      Fault, files
<1>9. ConfigInv'
  BY <1>1, <1>2, <1>3, <1>5
  DEF ConfigInv, StartInv, EarlyInv, SettleInv, LateInv, Expected, Raise, Fault, files
<1>10. ASSUME NEW v \in Transactions, run'[v].verdict = "PASS"
       PROVE  Accepted(v)' /\ (Live(t)' => Blocked(t)')
  <2>1. run[v].verdict = "PASS"
    BY <1>5, <1>10 DEF Moved, Others, SameClaim
  <2>2. Accepted(v) /\ Blocked(t)
    BY <1>1, <1>2, <2>1 DEF PassInv
  <2>3. Accepted(v)'
    BY <1>1, <1>2, <1>3, <1>5, <2>2
    DEF Accepted, Blocked, StartInv, EarlyInv, SettleInv, LateInv, IndexInv, Raise, Fault, files
  <2>4. Live(t)' => Blocked(t)'
    BY <1>1, <1>2, <1>3, <1>5, <2>2, ConstantsAssumption
    DEF Accepted, Blocked, TypeOK, SameFlags, StartInv, EarlyInv, SettleInv, LateInv, IndexInv,
        Raise, Fault, files
  <2> QED
    BY <2>3, <2>4
<1> QED
  BY <1>4, <1>5, <1>6, <1>7, <1>8, <1>9, <1>10, OwnStep DEF Raise, Fault, files

(* A step of a transaction before it is live. *)
LEMMA QuietStep ==
  ASSUME IInv, TypeOK', NEW t \in Transactions, Moved(t), ~Live(t), ~Live(t)',
         UNCHANGED <<mode, config, backup, dash, cand, snap, record, state, owner>>,
         Stage(t)', Claim(t)', run'[t].verdict = run[t].verdict
  PROVE  IInv'
<1>1. ASSUME NEW u \in Transactions
      PROVE  (Live(u)' => Live(u)) /\ run'[u].verdict = run[u].verdict /\ (Live(u) => run'[u] = run[u])
  BY DEF Moved, Others
<1>2. OwnerInv' /\ ConfigInv'
  BY <1>1 DEF IInv, OwnerInv, ConfigInv
<1>3. PassInv'
  BY <1>1 DEF IInv, PassInv, Accepted, Blocked
<1>4. ASSUME NEW u \in Transactions \ {t}
      PROVE  Stage(u)' /\ Claim(u)'
  <2>1. run'[u] = run[u] /\ Stage(u) /\ Claim(u)
    BY DEF Moved, Others, IInv
  <2>2. Claim(u)'
    BY <2>1 DEF Claim
  <2>3. StartInv(u)' /\ EarlyInv(u)' /\ SettleInv(u)' /\ LateInv(u)' /\ FoldInv(u)'
    BY <2>1 DEF Stage, StartInv, EarlyInv, SettleInv, LateInv, FoldInv, Untouched, Base, Expected
  <2>4. UndoInv(u)' /\ HandlerInv(u)' /\ RestoreInv(u)' /\ EndInv(u)' /\ IndexInv(u)'
    BY <2>1 DEF Stage, UndoInv, HandlerInv, RestoreInv, EndInv, IndexInv, Back
  <2> QED
    BY <2>2, <2>3, <2>4 DEF Stage
<1> QED
  BY <1>2, <1>3, <1>4 DEF IInv

LEMMA RefusedStep ==
  ASSUME IInv, NEW t \in Transactions, run[t].pc \in {"idle", "waiting"},
         Goto(t, "refused"), UNCHANGED <<mode, apart, files, owner, faults>>
  PROVE  IInv'
<1>1. TypeOK /\ Claim(t)
  BY DEF IInv
<1>2. Moved(t) /\ Kept(t) /\ run'[t].pc = "refused"
  BY <1>1, GotoFacts DEF Steps
<1>3. TypeOK'
  BY <1>1, <1>2 DEF TypeOK, Moved, files
<1>4. Stage(t)'
  BY <1>2 DEF Stage, StartInv, EarlyInv, SettleInv, LateInv, FoldInv, UndoInv, HandlerInv,
     RestoreInv, EndInv, IndexInv
<1>5. Claim(t)'
  BY <1>1, <1>2 DEF Claim, Kept, SameClaim, files
<1> QED
  BY <1>2, <1>3, <1>4, <1>5, QuietStep DEF Kept, SameClaim, files

LEMMA StartStep ==
  ASSUME IInv, NEW t \in Transactions, Start(t)
  PROVE  IInv'
<1>1. TypeOK /\ Stage(t) /\ Claim(t) /\ run[t].pc = "idle"
  BY DEF IInv, Start, At
<1>2. CASE ~(ApprovedState /\ ExpectedConfig)
  BY <1>1, <1>2, RefusedStep DEF Start
<1>3. CASE ApprovedState /\ ExpectedConfig
  <2>1. state \in {"none", "prev"} /\ state = Base
    BY <1>1, <1>3 DEF ApprovedState, Base
  <2>2. run' = [run EXCEPT ![t].pc = "waiting", ![t].prev = state]
    BY <1>3 DEF Start
  <2>3. /\ Moved(t) /\ run'[t].pc = "waiting" /\ run'[t].prev = state
        /\ SameFlags(t) /\ SameEnd(t) /\ SameClaim(t)
    BY <1>1, <2>1, <2>2, PrevFacts DEF Steps
  <2>4. UNCHANGED <<mode, apart, config, backup, dash, cand, snap, record, state, result, owner, faults>>
    BY DEF Start, files
  <2>5. TypeOK'
    BY <1>1, <2>3, <2>4 DEF TypeOK, Moved
  <2>6. StartInv(t)'
    BY <1>1, <2>1, <2>3, <2>4 DEF Stage, StartInv, Base, SameFlags, SameEnd, SameClaim
  <2>7. Stage(t)'
    BY <2>3, <2>6 DEF Stage, EarlyInv, SettleInv, LateInv, FoldInv, UndoInv, HandlerInv,
       RestoreInv, EndInv, IndexInv
  <2>8. Claim(t)'
    BY <1>1, <2>3, <2>4 DEF Claim, SameClaim
  <2> QED
    BY <1>1, <2>3, <2>4, <2>5, <2>7, <2>8, QuietStep DEF SameClaim
<1> QED
  BY <1>2, <1>3

LEMMA LockStep ==
  ASSUME IInv, NEW t \in Transactions, Lock(t)
  PROVE  IInv'
<1>1. TypeOK /\ Stage(t) /\ Claim(t) /\ ConfigInv /\ PassInv /\ run[t].pc = "waiting"
  BY DEF IInv, Lock, At
<1>2. CASE owner # None
  BY <1>1, <1>2, RefusedStep DEF Lock, files
<1>3. CASE owner = None
  <2>1. /\ Moved(t) /\ SameFlags(t) /\ SameEnd(t) /\ SameClaim(t)
        /\ run'[t].pc = "locked" /\ run'[t].prev = run[t].prev /\ run'[t].orig = config
        /\ run'[t].before = dash /\ run'[t].held = state
    BY <1>1, <1>3, LockFacts DEF Lock, Steps
  <2>2. /\ owner' = t
        /\ UNCHANGED <<mode, apart, config, backup, dash, cand, snap, record, state, result, faults>>
    BY <1>3 DEF Lock, files
  <2>3. TypeOK'
    BY <1>1, <2>1, <2>2 DEF TypeOK, Moved
  <2>4. StartInv(t)' /\ EarlyInv(t)'
    BY <1>1, <2>1, <2>2 DEF Stage, StartInv, EarlyInv, Base, Untouched, SameFlags, SameEnd
  <2>5. Stage(t)'
    BY <2>1, <2>4 DEF Stage, SettleInv, LateInv, FoldInv, UndoInv, HandlerInv, RestoreInv,
       EndInv, IndexInv
  <2>6. ~(state = t)
    BY <1>1 DEF Claim, Stage, StartInv
  <2>7. Claim(t)' /\ ConfigInv'
    BY <1>1, <2>1, <2>2, <2>6 DEF Claim, ConfigInv, SameClaim
  <2>8. ASSUME NEW v \in Transactions, run'[v].verdict = "PASS"
        PROVE  Accepted(v)' /\ Blocked(t)'
    <3>1. run[v].verdict = "PASS"
      BY <2>1, <2>8 DEF Moved, Others, SameClaim
    <3>2. Accepted(v)'
      BY <1>1, <2>2, <3>1 DEF PassInv, Accepted
    <3>3. Blocked(t)'
      BY <1>1, <2>1 DEF Stage, StartInv, Blocked, SameFlags
    <3> QED
      BY <3>2, <3>3
  <2>9. \A u \in Transactions \ {t} : ~Live(u)
    BY <1>3, Alone
  <2> QED
    BY <2>1, <2>2, <2>3, <2>5, <2>7, <2>8, <2>9, OwnStep
<1> QED
  BY <1>2, <1>3

(* Other programs act while no transaction is live. *)
LEMMA OtherStep ==
  ASSUME IInv, TypeOK', \A t \in Transactions : ~Live(t),
         UNCHANGED <<mode, config, backup, cand, record, state, run>>
  PROVE  IInv'
<1>1. OwnerInv' /\ ConfigInv' /\ PassInv'
  BY DEF IInv, OwnerInv, ConfigInv, PassInv, Accepted
<1>2. ASSUME NEW t \in Transactions
      PROVE  Stage(t)' /\ Claim(t)'
  <2>1. Stage(t) /\ Claim(t) /\ ~Live(t)
    BY DEF IInv
  <2> QED
    BY <2>1 DEF Claim, Stage, StartInv, EarlyInv, SettleInv, LateInv, FoldInv, UndoInv,
       HandlerInv, RestoreInv, EndInv, IndexInv, Base
<1> QED
  BY <1>1, <1>2 DEF IInv

LEMMA RecoverStep ==
  ASSUME IInv, Recover
  PROVE  IInv'
<1>1. \A t \in Transactions : ~Live(t)
  BY DEF IInv, OwnerInv, Recover, At
<1>2. TypeOK'
  BY DEF IInv, TypeOK, Recover, files
<1> QED
  BY <1>1, <1>2, OtherStep DEF Recover, files

LEMMA ScoreStep ==
  ASSUME IInv, Score
  PROVE  IInv'
<1>1. \A t \in Transactions : ~Live(t)
  BY ConstantsAssumption DEF IInv, OwnerInv, Score
<1>2. PICK k \in 1..3 :
        /\ dash' = Written(dash, k, IF state \in Transactions THEN "new" ELSE "old")
        /\ IF k = 3 THEN UNCHANGED faults ELSE Fault
  BY DEF Score
<1>3. dash' \in Dashboards
  BY <1>2, WrittenTyped DEF IInv, TypeOK
<1>4. faults' \in 0..MaxFaults
  BY <1>2, ConstantsAssumption DEF IInv, TypeOK, Fault
<1>5. TypeOK'
  BY <1>3, <1>4 DEF IInv, TypeOK, Score
<1> QED
  BY <1>1, <1>5, OtherStep DEF Score

-----------------------------------------------------------------------------
(* Theorems *)

LEMMA InitInv == Init => IInv
<1> SUFFICES ASSUME Init PROVE IInv
  OBVIOUS
<1>1. Blank \in Dashboards
  BY DEF Blank, Dashboards
<1>2. dash \in Dashboards
  BY <1>1, WrittenTyped DEF Init
<1>3. 0 \in 0..3 /\ 0 \in 0..MaxFaults
  BY ConstantsAssumption
<1>4. ASSUME NEW t \in Transactions
      PROVE  /\ run[t] \in Runs /\ run[t].pc = "idle" /\ run[t].verdict = "none" /\ Fresh(run[t])
             /\ ~run[t].smoked
  BY <1>1, <1>3 DEF Init, Runs, Steps, Outcomes, States
<1>5. run \in [Transactions -> Runs]
  BY <1>4 DEF Init
<1>6. TypeOK
  BY <1>1, <1>2, <1>3, <1>5 DEF Init, TypeOK, States
<1>7. OwnerInv /\ ConfigInv /\ PassInv
  BY <1>4 DEF Init, OwnerInv, ConfigInv, PassInv
<1>8. ASSUME NEW t \in Transactions
      PROVE  Stage(t) /\ Claim(t)
  BY <1>4, ConstantsAssumption
  DEF Init, Claim, Stage, StartInv, EarlyInv, SettleInv, LateInv, FoldInv, UndoInv, HandlerInv,
      RestoreInv, EndInv, IndexInv
<1> QED
  BY <1>6, <1>7, <1>8 DEF IInv

LEMMA StutterInv == IInv /\ UNCHANGED vars => IInv'
BY DEF vars, files, IInv, TypeOK, OwnerInv, ConfigInv, PassInv, Accepted, Blocked, Claim, Stage,
   StartInv, EarlyInv, SettleInv, LateInv, FoldInv, UndoInv, HandlerInv, RestoreInv, EndInv,
   IndexInv, Untouched, Base, Expected, Back

LEMMA NextInv == IInv /\ [Next]_vars => IInv'
<1> SUFFICES ASSUME IInv, [Next]_vars PROVE IInv'
  OBVIOUS
<1>1. CASE UNCHANGED vars
  BY <1>1, StutterInv
<1>2. ASSUME NEW t \in Transactions,
             \/ Start(t) \/ Lock(t) \/ Recheck(t) \/ Refresh(t) \/ Prepare(t) \/ Backup(t)
             \/ Commit(t) \/ Settle(t) \/ Capture(t) \/ Publish(t) \/ AdapterCheck(t)
      PROVE  IInv'
  BY <1>2, StartStep, LockStep, RecheckStep, RefreshStep, PrepareStep, BackupStep, CommitStep,
     SettleStep, CaptureStep, PublishStep, AdapterCheckStep
<1>3. ASSUME NEW t \in Transactions,
             \/ Record(t) \/ Smoke(t) \/ Validate(t) \/ Activate(t) \/ Report(t)
      PROVE  IInv'
  BY <1>3, RecordStep, SmokeStep, ValidateStep, ActivateStep, ReportStep
<1>4. ASSUME NEW t \in Transactions,
             \/ Raise(t) \/ Uncommit(t) \/ Undo(t) \/ RepairFails(t) \/ RollBackConfig(t)
             \/ Restore(t) \/ CheckRestored(t) \/ RollBackState(t) \/ RollbackFails(t)
             \/ SealFailure(t) \/ Kill(t)
      PROVE  IInv'
  BY <1>4, RaiseStep, UncommitStep, UndoStep, RepairFailsStep, RollBackConfigStep, RestoreStep,
     CheckRestoredStep, RollBackStateStep, RollbackFailsStep, SealFailureStep, KillStep
<1>5. CASE Recover \/ Score
  BY <1>5, RecoverStep, ScoreStep
<1> QED
  BY <1>1, <1>2, <1>3, <1>4, <1>5 DEF Next

(* The inductive invariant: at most one live transaction, the one in the *)
(* lock; what each of its steps knows of the files, of its flags and of    *)
(* what it found; and what a reported PASS promises.                       *)
THEOREM Invariance == Spec => []IInv
BY InitInv, NextInv, PTL DEF Spec

(* Every variable keeps its type, verdicts and dashboards among them. *)
THEOREM TypeCorrect == Spec => []TypeOK
<1>1. IInv => TypeOK
  BY DEF IInv
<1> QED
  BY <1>1, Invariance, PTL

(* The scorer applies a model only if its transaction's portfolio smoke    *)
(* passed and the transaction was not reported undone, and it always       *)
(* applies the model of a transaction that reported PASS.                  *)
THEOREM ReadersAgree == Spec => []ReaderAgrees
<1>1. IInv => ReaderAgrees
  BY DEF IInv, PassInv, Claim, Accepted, ReaderAgrees
<1> QED
  BY <1>1, Invariance, PTL

(* Whoever died, the original of a changed config is in the backup. *)
THEOREM ConfigsAreRecoverable == Spec => []ConfigIsRecoverable
<1>1. IInv => ConfigIsRecoverable
  BY DEF IInv, ConfigInv, ConfigIsRecoverable
<1> QED
  BY <1>1, Invariance, PTL

LEMMA VerdictStays ==
  ASSUME TypeOK, NEW t \in Transactions, NEW u \in Transactions,
         \/ Start(t) \/ Lock(t) \/ Recheck(t) \/ Refresh(t) \/ Prepare(t) \/ Backup(t)
         \/ Commit(t) \/ Settle(t) \/ Capture(t) \/ Publish(t) \/ AdapterCheck(t)
         \/ Record(t) \/ Smoke(t) \/ Validate(t) \/ Activate(t)
         \/ Raise(t) \/ Uncommit(t) \/ Undo(t) \/ RepairFails(t) \/ RollBackConfig(t)
         \/ Restore(t) \/ CheckRestored(t) \/ RollBackState(t) \/ RollbackFails(t) \/ Kill(t)
  PROVE  run'[u].verdict = run[u].verdict
<1>1. run \in [Transactions -> Runs]
  BY DEF TypeOK
<1>2. CASE Start(t)
  BY <1>1, <1>2 DEF Runs, Goto, Next1, Start
<1>3. CASE Lock(t)
  BY <1>1, <1>3 DEF Runs, Goto, Next1, Lock
<1>4. CASE Recheck(t)
  BY <1>1, <1>4 DEF Runs, Goto, Next1, Recheck
<1>5. CASE Refresh(t)
  BY <1>1, <1>5 DEF Runs, Goto, Next1, Refresh
<1>6. CASE Prepare(t)
  BY <1>1, <1>6 DEF Runs, Goto, Next1, Prepare
<1>7. CASE Backup(t)
  BY <1>1, <1>7 DEF Runs, Goto, Next1, Backup
<1>8. CASE Commit(t)
  BY <1>1, <1>8 DEF Runs, Goto, Next1, Commit
<1>9. CASE Settle(t)
  BY <1>1, <1>9 DEF Runs, Goto, Next1, Settle
<1>10. CASE Capture(t)
  BY <1>1, <1>10 DEF Runs, Goto, Next1, Capture
<1>11. CASE Publish(t)
  BY <1>1, <1>11 DEF Runs, Goto, Next1, Publish
<1>12. CASE AdapterCheck(t)
  BY <1>1, <1>12 DEF Runs, Goto, Next1, AdapterCheck
<1>13. CASE Record(t)
  BY <1>1, <1>13 DEF Runs, Goto, Next1, Record
<1>14. CASE Smoke(t)
  <2>1. PICK ok \in BOOLEAN :
          run' = [run EXCEPT ![t].pc = IF ok THEN "validate" ELSE "config", ![t].smoked = ok]
    BY <1>14 DEF Smoke
  <2> DEFINE pc == IF ok THEN "validate" ELSE "config"
  <2>2. run' = [run EXCEPT ![t].pc = pc, ![t].smoked = ok]
    BY <2>1
  <2> HIDE DEF pc
  <2> QED
    BY <1>1, <2>2 DEF Runs
<1>15. CASE Validate(t)
  BY <1>1, <1>15 DEF Runs, Goto, Next1, Validate
<1>16. CASE Activate(t)
  BY <1>1, <1>16 DEF Runs, Goto, Next1, Activate
<1>17. CASE \/ Raise(t) \/ Uncommit(t) \/ Undo(t) \/ RepairFails(t) \/ RollBackConfig(t)
           \/ Restore(t) \/ CheckRestored(t) \/ RollBackState(t) \/ RollbackFails(t) \/ Kill(t)
  BY <1>1, <1>17 DEF Runs, Goto, Next1, Raise, Uncommit, Undo, RepairFails, RollBackConfig,
     Restore, CheckRestored, RollBackState, RollbackFails, Kill
<1> QED
  BY <1>2, <1>3, <1>4, <1>5, <1>6, <1>7, <1>8, <1>9, <1>10, <1>11, <1>12, <1>13, <1>14, <1>15, <1>16, <1>17

(* Only SealFailure reports an undone activation, on what EndInv says. *)
LEMMA VerdictStep ==
  ASSUME IInv, [Next]_vars, NEW u \in Transactions,
         run[u].verdict = "none", run'[u].verdict \in Undone, ~run[u].stranded
  PROVE  Restored(u)
<1>1. run'[u].verdict # run[u].verdict
  BY DEF Undone
<1>2. TypeOK /\ Stage(u)
  BY DEF IInv
<1>3. \E t \in Transactions : Report(t) \/ SealFailure(t)
  <2>1. run' # run
    BY <1>1
  <2>2. ~(Recover \/ Score \/ UNCHANGED vars)
    BY <2>1 DEF Recover, Score, vars
  <2> QED
    BY <1>1, <1>2, <2>2, VerdictStays DEF Next
<1>4. PICK t \in Transactions : Report(t) \/ SealFailure(t)
  BY <1>3
<1>5. u = t
  BY <1>1, <1>2, <1>4 DEF TypeOK, Report, SealFailure, Goto
<1>6. run[t] \in Runs /\ run \in [Transactions -> Runs]
  BY <1>2 DEF TypeOK
<1>7. ~Report(t)
  BY <1>5, <1>6 DEF Report, Runs, Undone
<1>8. run[t].pc = "seal" /\ run'[t].verdict \in {run[t].verdict, Verdict(run[t])}
  BY <1>4, <1>6, <1>7 DEF SealFailure, At, Goto, Runs
<1>9. Verdict(run[t]) \in Undone
  BY <1>1, <1>5, <1>8
<1>10. ~run[t].errors
  BY <1>2, <1>5, <1>8, <1>9 DEF Stage, EndInv, Verdict, Undone
<1> QED
  BY <1>2, <1>5, <1>8, <1>10 DEF Stage, EndInv, Restored

(* A reported undo restored config, dashboard and activation state. *)
THEOREM VerdictsAreTrue == Spec => VerdictIsTrue
<1>1. IInv /\ [Next]_vars =>
        [\A t \in Transactions :
           run[t].verdict = "none" /\ run'[t].verdict \in Undone /\ ~run[t].stranded
             => Restored(t)]_vars
  BY VerdictStep
<1> QED
  BY <1>1, Invariance, PTL DEF VerdictIsTrue, Spec

=============================================================================
