------------------------ MODULE ProviderDispatchProofs ------------------------
(***************************************************************************)
(* Safety of provider ingestion for any dispatchers, phases, attempts,     *)
(* manual captures, migrations and faults, and the margin that the         *)
(* staleness limit needs over the child's timeout.                         *)
(***************************************************************************)
EXTENDS ProviderDispatch, TLAPS, FiniteSetTheorems, WellFoundedInduction

(* Who captures for the store, and who has a row to settle. *)
Writing(c) == child[c].st \in {"reading", "inserting", "sealing"}
WriterInv == \A c \in Writers : Writing(c) => writer = c

(* An attempt belongs to the dispatcher that recorded it, and a cycle has  *)
(* no child before its attempt is launched.                                *)
AttemptInv ==
    /\ \A c \in Scheduled : row[c].state = "none" => child[c].st = "none"
    /\ \A d \in Dispatchers : disp[d].st = "record" => disp[d].cycle \in Scheduled
    /\ \A d \in Dispatchers : disp[d].st \in Owning =>
          disp[d].cycle \in Scheduled /\ row[disp[d].cycle].state # "none"
    /\ \A d, e \in Dispatchers :
          d # e /\ disp[d].st \in Owning /\ disp[e].st \in Owning => disp[d].cycle # disp[e].cycle
    /\ \A d \in Dispatchers : disp[d].st = "launch" => child[disp[d].cycle].st = "none"

(* A writer that is about to append has read the head that is there. *)
HeadInv == \A c \in Writers : child[c].st = "inserting" => child[c].prev = AcceptedHead

(* What a capture has stored by the time it seals, ends, and is reported. *)
StoredInv ==
    /\ \A c \in Writers : child[c].st = "sealing" =>
          \E i \in DOMAIN runs : runs[i].cycle = c /\ runs[i].status = child[c].status
    /\ \A c \in Writers : child[c].st = "ok" => Captured(c)
    /\ \A d \in Dispatchers : (disp[d].st = "seal" /\ disp[d].rc = 0) => Captured(disp[d].cycle)

-----------------------------------------------------------------------------
(* The newest run of a set is one of them. *)
LEMMA LatestIn ==
  ASSUME NEW n \in Nat, NEW S \in SUBSET (1 .. n)
  PROVE  LatestOf(S) \in 0 .. n
<1>1. CASE S = {}
  BY <1>1 DEF LatestOf
<1>2. CASE S # {}
  <2> DEFINE T == {k \in Nat : n - k \in S}
             R == OpToRel(<, Nat)
  <2>1. T \subseteq Nat /\ T # {}
    <3>1. PICK x \in S : x \in 1 .. n
      BY <1>2
    <3>2. n - x \in Nat /\ n - (n - x) = x
      BY <3>1
    <3>3. n - x \in T
      BY <3>1, <3>2
    <3> QED
      BY <3>3
  <2>2. IsWellFoundedOn(R, Nat)
    BY NatLessThanWellFounded
  <2>3. R = {pair \in Nat \X Nat : pair[1] < pair[2]}
    BY Zenon DEF R, OpToRel
  <2>4. \A x, y \in Nat : x < y => <<x, y>> \in R
    BY <2>3
  <2> HIDE DEF R
  <2>5. PICK m \in T : \A k \in T : ~(<<k, m>> \in R)
    BY <2>1, <2>2, WFMin
  <2> HIDE DEF T
  <2>6. ASSUME NEW k \in T PROVE m <= k
    <3> SUFFICES ASSUME k < m PROVE FALSE
      BY <2>1
    <3>1. <<k, m>> \in R
      BY <2>1, <2>4
    <3> QED
      BY <3>1, <2>5
  <2> USE DEF T
  <2>7. n - m \in S
    BY <2>5
  <2>8. ASSUME NEW y \in S PROVE n - m >= y
    <3>1. y \in 1 .. n /\ n - y \in Nat /\ n - (n - y) = y
      OBVIOUS
    <3>2. n - y \in T
      BY <3>1
    <3>3. m <= n - y
      <4> HIDE DEF T
      <4> QED
        BY <2>6, <3>2
    <3>4. m \in Nat
      BY <2>5
    <3> QED
      BY <3>1, <3>3, <3>4
  <2>9. \E x \in S : \A y \in S : x >= y
    BY <2>7, <2>8
  <2>10. Max(S) \in S
    BY <2>9, Zenon DEF Max
  <2>11. LatestOf(S) \in S
    BY <1>2, <2>10 DEF LatestOf
  <2>12. LatestOf(S) \in 1 .. n
    BY <2>11
  <2>13. 1 .. n \subseteq 0 .. n
    OBVIOUS
  <2> QED
    BY <2>12, <2>13
<1> QED
  BY <1>1, <1>2

(* Attempts are numbered within MaxAttempts. *)
LEMMA NextAttempt ==
  ASSUME NEW p \in Phases, HasAttemptsLeft(p)
  PROVE  <<p, Cardinality(Tried(p)) + 1>> \in Scheduled
<1>1. IsFiniteSet({p} \X (1 .. MaxAttempts))
  <2>1. IsFiniteSet({p})
    BY FS_Singleton
  <2>2. 1 \in Int /\ MaxAttempts \in Int
    BY ConstantsAssumption
  <2>3. IsFiniteSet(1 .. MaxAttempts)
    BY <2>2, FS_Interval
  <2> QED
    BY <2>1, <2>3, FS_Product
<1>2. Tried(p) \in SUBSET ({p} \X (1 .. MaxAttempts))
  BY DEF Tried, CyclesOf, Scheduled
<1>3. Cardinality(Tried(p)) \in Nat
  BY <1>1, <1>2, FS_Subset, FS_CardinalityType
<1> QED
  BY <1>3, ConstantsAssumption DEF HasAttemptsLeft, Scheduled

-----------------------------------------------------------------------------
(* What actions write is in range. *)
DispSts == {"idle", "off", "sweep", "look", "choose", "record", "report"} \cup Owning
ChildSts == {"none", "waiting", "pulling", "reading", "inserting", "sealing", "ok", "failed"}

LEMMA OffType == Off \in DispStates /\ Idle \in DispStates
BY ConstantsAssumption DEF Off, Idle, DispStates, Owning

LEMMA ChildType ==
  ASSUME NEW w \in ChildStates, NEW st \in ChildSts
  PROVE  [w EXCEPT !.st = st] \in ChildStates /\ [Quiet EXCEPT !.st = st] \in ChildStates
BY DEF ChildStates, ChildSts, Quiet

LEMMA RowType ==
  ASSUME NEW w \in Attempts, NEW st \in {"none", "STARTED", "PASS", "FAIL", "INTERRUPTED"},
         NEW t \in 0 .. LastTick
  PROVE  [w EXCEPT !.state = st] \in Attempts /\ [state |-> st, at |-> t] \in Attempts
BY DEF Attempts

LEMMA DispTimes ==
  ASSUME TypeOK, NEW d \in Dispatchers
  PROVE  /\ disp[d] \in DispStates
         /\ disp[d].now \in 0 .. LastTick /\ disp[d].since \in 0 .. LastTick /\ disp[d].rc \in {0, 1}
         /\ disp[d].cycle \in Scheduled \cup {NoCycle} /\ disp[d].st \in DispSts
BY DEF TypeOK, DispStates, DispSts

LEMMA HeadType == TypeOK => AcceptedHead \in Nat
<1> SUFFICES ASSUME TypeOK PROVE AcceptedHead \in Nat
  OBVIOUS
<1>1. Len(runs) \in Nat /\ DOMAIN runs = 1 .. Len(runs)
  BY DEF TypeOK
<1>2. AcceptedHead \in 0 .. Len(runs)
  BY <1>1, LatestIn DEF AcceptedHead
<1> QED
  BY <1>1, <1>2

(* Changing one entry keeps the type of a function. *)
LEMMA DispEdit ==
  ASSUME TypeOK, NEW d \in Dispatchers, NEW w \in DispStates
  PROVE  [disp EXCEPT ![d] = w] \in [Dispatchers -> DispStates]
BY DEF TypeOK

LEMMA ChildEdit ==
  ASSUME TypeOK, NEW c, NEW w \in ChildStates
  PROVE  [child EXCEPT ![c] = w] \in [Writers -> ChildStates]
BY DEF TypeOK

LEMMA RowEdit ==
  ASSUME TypeOK, NEW c, NEW w \in Attempts
  PROVE  [row EXCEPT ![c] = w] \in [Scheduled -> Attempts]
BY DEF TypeOK

(* Locks go from and to writers, and processes that end are typed. *)
LEMMA DiesType ==
  ASSUME TypeOK, NEW S, Dies(S)
  PROVE  /\ child' \in [Writers -> ChildStates]
         /\ capLock' \in Captures \cup {NoLock} /\ writer' \in Writers \cup {NoLock}
<1>1. [Quiet EXCEPT !.st = "failed"] \in ChildStates
  BY DEF ChildStates, Quiet
<1> QED
  BY <1>1 DEF TypeOK, Dies, Freed

(* What the steps of a dispatcher make of it is in range. *)
LEMMA DispMoves ==
  ASSUME TypeOK, NEW d \in Dispatchers
  PROVE  /\ Off \in DispStates
         /\ [Off EXCEPT !.st = "sweep", !.now = clock, !.since = clock] \in DispStates
         /\ \A st \in DispSts : [disp[d] EXCEPT !.st = st] \in DispStates
         /\ \A S \in SUBSET Scheduled : [disp[d] EXCEPT !.st = "choose", !.seen = S] \in DispStates
         /\ \A rc \in {0, 1} : [disp[d] EXCEPT !.st = "report", !.seen = {}, !.rc = rc] \in DispStates
         /\ \A c \in Scheduled : [disp[d] EXCEPT !.st = "record", !.seen = {}, !.cycle = c] \in DispStates
         /\ \A st \in {"waiting", "seal"} : [disp[d] EXCEPT !.st = st, !.since = clock] \in DispStates
         /\ \A rc \in {0, 1} : [disp[d] EXCEPT !.st = "seal", !.since = clock, !.rc = rc] \in DispStates
         /\ \A rc \in {0, 1} : [Off EXCEPT !.st = "report", !.now = disp[d].now,
                                           !.since = disp[d].since, !.rc = rc] \in DispStates
<1> USE ConstantsAssumption
<1>1. disp[d] \in DispStates /\ clock \in 0 .. LastTick
  BY DEF TypeOK
<1>2. Off \in DispStates
  BY OffType
<1>3. disp[d].now \in 0 .. LastTick /\ disp[d].since \in 0 .. LastTick
  BY DispTimes
<1>4. [Off EXCEPT !.st = "sweep", !.now = clock, !.since = clock] \in DispStates
  BY <1>1, <1>2 DEF DispStates
<1>5. \A st \in DispSts : [disp[d] EXCEPT !.st = st] \in DispStates
  BY <1>1 DEF DispStates, DispSts
<1>6. \A S \in SUBSET Scheduled : [disp[d] EXCEPT !.st = "choose", !.seen = S] \in DispStates
  BY <1>1 DEF DispStates
<1>7. \A rc \in {0, 1} : [disp[d] EXCEPT !.st = "report", !.seen = {}, !.rc = rc] \in DispStates
  BY <1>1 DEF DispStates
<1>8. \A c \in Scheduled : [disp[d] EXCEPT !.st = "record", !.seen = {}, !.cycle = c] \in DispStates
  BY <1>1 DEF DispStates
<1>9. \A st \in {"waiting", "seal"} : [disp[d] EXCEPT !.st = st, !.since = clock] \in DispStates
  BY <1>1 DEF DispStates, Owning
<1>10. \A rc \in {0, 1} : [disp[d] EXCEPT !.st = "seal", !.since = clock, !.rc = rc] \in DispStates
  BY <1>1 DEF DispStates, Owning
<1>11. \A rc \in {0, 1} : [Off EXCEPT !.st = "report", !.now = disp[d].now,
                                      !.since = disp[d].since, !.rc = rc] \in DispStates
  BY <1>2, <1>3 DEF DispStates
<1> QED
  BY <1>2, <1>4, <1>5, <1>6, <1>7, <1>8, <1>9, <1>10, <1>11

(* Every action keeps the types. *)
LEMMA TypeStep == TypeOK /\ [Next]_vars => TypeOK'
<1> SUFFICES ASSUME TypeOK, [Next]_vars PROVE TypeOK'
  OBVIOUS
<1> USE ConstantsAssumption
<1>d. ASSUME NEW d \in Dispatchers, NEW w \in DispStates, disp' = [disp EXCEPT ![d] = w]
      PROVE  disp' \in [Dispatchers -> DispStates]
  BY <1>d, DispEdit
<1>c. ASSUME NEW c, NEW w \in ChildStates, child' = [child EXCEPT ![c] = w]
      PROVE  child' \in [Writers -> ChildStates]
  BY <1>c, ChildEdit
<1>r. ASSUME NEW c, NEW w \in Attempts, row' = [row EXCEPT ![c] = w]
      PROVE  row' \in [Scheduled -> Attempts]
  BY <1>r, RowEdit
<1>s. ASSUME NEW c \in Writers, NEW st \in ChildSts
      PROVE  /\ child[c] \in ChildStates /\ [child[c] EXCEPT !.st = st] \in ChildStates
             /\ [Quiet EXCEPT !.st = st] \in ChildStates
  <2>1. child[c] \in ChildStates
    BY DEF TypeOK
  <2> QED
    BY <2>1, ChildType
<1>f. faults \in 0 .. MaxFaults /\ (Fault => faults' \in 0 .. MaxFaults)
  BY DEF Fault, TypeOK
<1>1. ASSUME NEW d \in Dispatchers, Start(d) PROVE TypeOK'
  <2>1. disp' = [disp EXCEPT ![d] = [Off EXCEPT !.st = "sweep", !.now = clock, !.since = clock]]
    BY <1>1 DEF Start
  <2>2. [Off EXCEPT !.st = "sweep", !.now = clock, !.since = clock] \in DispStates
    BY DispMoves
  <2>3. UNCHANGED <<clock, row, child, lockVars, runs, vouched, faults>>
    BY <1>1 DEF Start
  <2> QED
    BY <2>1, <2>2, <2>3, <1>d DEF TypeOK, lockVars
<1>2. ASSUME NEW d \in Dispatchers, Sweep(d) PROVE TypeOK'
  <2>1. disp' = [disp EXCEPT ![d] = [disp[d] EXCEPT !.st = "look"]]
    BY <1>2 DEF Sweep, Goto
  <2>2. [disp[d] EXCEPT !.st = "look"] \in DispStates
    BY DispMoves DEF DispSts
  <2>3. row' \in [Scheduled -> Attempts]
    <3>1. \A c \in Scheduled : row[c] \in Attempts /\ [row[c] EXCEPT !.state = "INTERRUPTED"] \in Attempts
      BY DEF TypeOK, Attempts
    <3> QED
      BY <3>1, <1>2 DEF Sweep
  <2>4. UNCHANGED <<clock, child, lockVars, runs, vouched, faults>>
    BY <1>2 DEF Sweep
  <2> QED
    BY <2>1, <2>2, <2>3, <2>4, <1>d DEF TypeOK, lockVars
<1>3. ASSUME NEW d \in Dispatchers, Look(d) PROVE TypeOK'
  <2>1. \/ disp' = [disp EXCEPT ![d] = [disp[d] EXCEPT !.st = "choose", !.seen = {c \in Scheduled : Captured(c)}]]
        \/ disp' = [disp EXCEPT ![d] = [disp[d] EXCEPT !.st = "report"]]
    BY <1>3 DEF Look
  <2>2. /\ [disp[d] EXCEPT !.st = "choose", !.seen = {c \in Scheduled : Captured(c)}] \in DispStates
        /\ [disp[d] EXCEPT !.st = "report"] \in DispStates
    BY DispMoves DEF DispSts
  <2>3. UNCHANGED <<clock, row, child, lockVars, runs, vouched, faults>>
    BY <1>3 DEF Look
  <2> QED
    BY <2>1, <2>2, <2>3, <1>d DEF TypeOK, lockVars
<1>4. ASSUME NEW d \in Dispatchers, Choose(d) PROVE TypeOK'
  <2>1. \/ \E rc \in {0, 1} : disp' = [disp EXCEPT ![d] = [disp[d] EXCEPT !.st = "report", !.seen = {}, !.rc = rc]]
        \/ \E p \in Phases : /\ HasAttemptsLeft(p)
                             /\ disp' = [disp EXCEPT ![d] = [disp[d] EXCEPT !.st = "record", !.seen = {},
                                                            !.cycle = <<p, Cardinality(Tried(p)) + 1>>]]
    <3> DEFINE passed(p) == \E c \in CyclesOf(p) : row[c].state = "PASS" /\ c \in disp[d].seen
               open == {p \in Phases : IsDue(p, disp[d].now) /\ ~passed(p)}
               able == {p \in open : HasAttemptsLeft(p)}
    <3> HIDE DEF passed
    <3>1. CASE able = {}
      <4>1. disp' = [disp EXCEPT ![d] = [disp[d] EXCEPT !.st = "report", !.seen = {},
                                                      !.rc = IF open = {} THEN 0 ELSE 1]]
        BY <1>4, <3>1 DEF Choose, passed
      <4> QED
        BY <4>1
    <3>2. CASE able # {}
      BY <1>4, <3>2 DEF Choose, passed
    <3> QED
      BY <3>1, <3>2
  <2>2. \A rc \in {0, 1} : [disp[d] EXCEPT !.st = "report", !.seen = {}, !.rc = rc] \in DispStates
    BY DispMoves
  <2>3. ASSUME NEW p \in Phases, HasAttemptsLeft(p)
        PROVE  [disp[d] EXCEPT !.st = "record", !.seen = {}, !.cycle = <<p, Cardinality(Tried(p)) + 1>>] \in DispStates
    BY <2>3, NextAttempt, DispMoves
  <2>4. UNCHANGED <<clock, row, child, lockVars, runs, vouched, faults>>
    BY <1>4 DEF Choose
  <2>5. disp' \in [Dispatchers -> DispStates]
    BY <2>1, <2>2, <2>3, <1>d
  <2> QED
    BY <2>4, <2>5 DEF TypeOK, lockVars
<1>5. ASSUME NEW d \in Dispatchers, Record(d) PROVE TypeOK'
  <2>1. /\ row' = [row EXCEPT ![disp[d].cycle] = [state |-> "STARTED", at |-> disp[d].now]] \/ row' = row
        /\ disp' = [disp EXCEPT ![d] = [disp[d] EXCEPT !.st = "launch"]] \/ disp' = [disp EXCEPT ![d] = Off]
    BY <1>5 DEF Record, Goto, Leave
  <2>2. [disp[d] EXCEPT !.st = "launch"] \in DispStates /\ Off \in DispStates
    BY DispMoves DEF DispSts, Owning
  <2>3. [state |-> "STARTED", at |-> disp[d].now] \in Attempts
    BY DispTimes DEF Attempts
  <2>4. UNCHANGED <<clock, child, lockVars, runs, vouched, faults>>
    BY <1>5 DEF Record
  <2>5. row' \in [Scheduled -> Attempts]
    BY <2>1, <2>3, <1>r DEF TypeOK
  <2> QED
    BY <2>1, <2>2, <2>4, <2>5, <1>d DEF TypeOK, lockVars
<1>6. ASSUME NEW d \in Dispatchers, NEW st \in {"PASS", "FAIL"}, Finalize(disp[d].cycle, st)
      PROVE  row' \in [Scheduled -> Attempts]
  <2>1. CASE disp[d].cycle \in Scheduled
    <3>1. [row[disp[d].cycle] EXCEPT !.state = st] \in Attempts
      BY <2>1 DEF TypeOK, Attempts
    <3>2. row' = row \/ row' = [row EXCEPT ![disp[d].cycle] = [row[disp[d].cycle] EXCEPT !.state = st]]
      BY <1>6 DEF Finalize
    <3> QED
      BY <3>1, <3>2, <1>r DEF TypeOK
  <2>2. CASE disp[d].cycle \notin Scheduled
    BY <1>6, <2>2 DEF Finalize, TypeOK
  <2> QED
    BY <2>1, <2>2
<1>7. ASSUME NEW d \in Dispatchers, Abort(d) PROVE TypeOK'
  <2>1. disp' = [disp EXCEPT ![d] = Off] /\ Finalize(disp[d].cycle, "FAIL")
    BY <1>7 DEF Abort, Leave
  <2>2. Off \in DispStates
    BY OffType
  <2>3. UNCHANGED <<clock, child, lockVars, runs, vouched, faults>>
    BY <1>7 DEF Abort
  <2>4. row' \in [Scheduled -> Attempts]
    BY <2>1, <1>6
  <2> QED
    BY <2>1, <2>2, <2>3, <2>4, <1>d DEF TypeOK, lockVars
<1>8. ASSUME NEW d \in Dispatchers, Launch(d) PROVE TypeOK'
  <2>1. /\ child' = [child EXCEPT ![disp[d].cycle] = [Quiet EXCEPT !.st = "waiting"]] \/ child' = child
        /\ \/ disp' = [disp EXCEPT ![d] = [disp[d] EXCEPT !.st = "waiting", !.since = clock]]
           \/ disp' = [disp EXCEPT ![d] = [disp[d] EXCEPT !.st = "abort"]]
           \/ disp' = [disp EXCEPT ![d] = [disp[d] EXCEPT !.st = "seal", !.since = clock, !.rc = 1]]
    BY <1>8 DEF Launch, Goto, Ends
  <2>2. /\ [disp[d] EXCEPT !.st = "waiting", !.since = clock] \in DispStates
        /\ [disp[d] EXCEPT !.st = "abort"] \in DispStates
        /\ [disp[d] EXCEPT !.st = "seal", !.since = clock, !.rc = 1] \in DispStates
    BY DispMoves DEF DispSts, Owning
  <2>3. [Quiet EXCEPT !.st = "waiting"] \in ChildStates
    BY DEF ChildStates, Quiet
  <2>4. child' \in [Writers -> ChildStates]
    BY <2>1, <2>3, <1>c DEF TypeOK
  <2>5. disp' \in [Dispatchers -> DispStates]
    BY <2>1, <2>2, <1>d
  <2>6. faults' \in 0 .. MaxFaults
    BY <1>8, <1>f DEF Launch
  <2>7. UNCHANGED <<clock, row, lockVars, runs, vouched>>
    BY <1>8 DEF Launch
  <2> QED
    BY <2>4, <2>5, <2>6, <2>7 DEF TypeOK, lockVars
<1>9. ASSUME NEW d \in Dispatchers, ChildEnded(d) PROVE TypeOK'
  <2>1. \E rc \in {0, 1} : disp' = [disp EXCEPT ![d] = [disp[d] EXCEPT !.st = "seal", !.since = clock, !.rc = rc]]
    BY <1>9 DEF ChildEnded, Ends
  <2>2. \A rc \in {0, 1} : [disp[d] EXCEPT !.st = "seal", !.since = clock, !.rc = rc] \in DispStates
    BY DispMoves
  <2>3. UNCHANGED <<clock, row, child, lockVars, runs, vouched, faults>>
    BY <1>9 DEF ChildEnded
  <2> QED
    BY <2>1, <2>2, <2>3, <1>d DEF TypeOK, lockVars
<1>10. ASSUME NEW d \in Dispatchers, TimeOut(d) PROVE TypeOK'
  <2>1. Dies({disp[d].cycle}) /\ disp' = [disp EXCEPT ![d] = [disp[d] EXCEPT !.st = "seal", !.since = clock, !.rc = 1]]
    BY <1>10 DEF TimeOut, Ends
  <2>2. [disp[d] EXCEPT !.st = "seal", !.since = clock, !.rc = 1] \in DispStates
    BY DispMoves
  <2>3. UNCHANGED <<clock, row, runs, vouched, faults>>
    BY <1>10 DEF TimeOut
  <2> QED
    BY <2>1, <2>2, <2>3, <1>d, DiesType DEF TypeOK
<1>11. ASSUME NEW d \in Dispatchers, Seal(d) PROVE TypeOK'
  <2>1. /\ Finalize(disp[d].cycle, "PASS") \/ Finalize(disp[d].cycle, "FAIL")
        /\ \/ \E rc \in {0, 1} : disp' = [disp EXCEPT ![d] = [Off EXCEPT !.st = "report", !.now = disp[d].now,
                                                       !.since = disp[d].since, !.rc = rc]]
           \/ disp' = [disp EXCEPT ![d] = Off]
        /\ faults' = faults \/ Fault
    BY <1>11 DEF Seal
  <2>2. /\ \A rc \in {0, 1} : [Off EXCEPT !.st = "report", !.now = disp[d].now,
                                          !.since = disp[d].since, !.rc = rc] \in DispStates
        /\ Off \in DispStates
    BY DispMoves
  <2>3. UNCHANGED <<clock, child, lockVars, runs, vouched>>
    BY <1>11 DEF Seal
  <2>4. row' \in [Scheduled -> Attempts]
    BY <2>1, <1>6
  <2>5. disp' \in [Dispatchers -> DispStates]
    BY <2>1, <2>2, <1>d
  <2> QED
    BY <2>1, <2>3, <2>4, <2>5, <1>f DEF TypeOK, lockVars
<1>12. ASSUME NEW d \in Dispatchers, Report(d) \/ WriterTimeout(d) \/ Crash(d) PROVE TypeOK'
  <2>1. /\ disp' = [disp EXCEPT ![d] = Off]
        /\ vouched' \subseteq vouched \cup Phases
        /\ faults' = faults \/ Fault
        /\ UNCHANGED <<clock, row, child, lockVars, runs>>
    BY <1>12 DEF Report, WriterTimeout, Crash, Leave
  <2> QED
    BY <2>1, OffType, <1>d, <1>f DEF TypeOK, lockVars
<1>13. ASSUME NEW c \in Writers, StartByHand(c) PROVE TypeOK'
  <2>1. child' = [child EXCEPT ![c] = [Quiet EXCEPT !.st = "waiting"]]
    BY <1>13 DEF StartByHand
  <2>2. UNCHANGED <<clock, disp, row, lockVars, runs, vouched, faults>>
    BY <1>13 DEF StartByHand
  <2> QED
    BY <2>1, <2>2, <1>s, <1>c DEF TypeOK, lockVars, ChildSts
<1>14. ASSUME NEW c \in Writers, EnterCapture(c) PROVE TypeOK'
  <2>1. /\ capLock' = c \/ capLock' = capLock
        /\ \/ child' = [child EXCEPT ![c] = [child[c] EXCEPT !.st = "pulling"]]
           \/ \E st \in {"ok", "failed"} : child' = [child EXCEPT ![c] = [Quiet EXCEPT !.st = st]]
        /\ c \in Captures
    BY <1>14 DEF EnterCapture, Now, Done
  <2>2. UNCHANGED <<clock, disp, row, writer, runs, vouched, faults>>
    BY <1>14 DEF EnterCapture
  <2>3. /\ [child[c] EXCEPT !.st = "pulling"] \in ChildStates
        /\ \A st \in {"ok", "failed"} : [Quiet EXCEPT !.st = st] \in ChildStates
    BY <1>s DEF ChildSts
  <2>4. child' \in [Writers -> ChildStates]
    BY <2>1, <2>3, <1>c
  <2> QED
    BY <2>1, <2>2, <2>4 DEF TypeOK, lockVars
<1>15. ASSUME NEW c \in Writers, TakeWriter(c) PROVE TypeOK'
  <2>1. PICK s \in {"PASS", "FAIL", "MIGRATED"} :
          child' = [child EXCEPT ![c] = [child[c] EXCEPT !.st = "reading", !.status = s]]
    BY <1>15 DEF TakeWriter, Results
  <2>2. [child[c] EXCEPT !.st = "reading", !.status = s] \in ChildStates
    BY DEF TypeOK, ChildStates
  <2>3. writer' = c /\ UNCHANGED <<clock, disp, row, capLock, runs, vouched, faults>>
    BY <1>15 DEF TakeWriter
  <2> QED
    BY <2>1, <2>2, <2>3, <1>c DEF TypeOK
<1>16. ASSUME NEW c \in Writers, ReadHead(c) PROVE TypeOK'
  <2>1. child' = [child EXCEPT ![c] = [child[c] EXCEPT !.st = "inserting", !.prev = AcceptedHead]]
    BY <1>16 DEF ReadHead
  <2>2. [child[c] EXCEPT !.st = "inserting", !.prev = AcceptedHead] \in ChildStates
    BY HeadType DEF TypeOK, ChildStates
  <2>3. UNCHANGED <<clock, disp, row, lockVars, runs, vouched, faults>>
    BY <1>16 DEF ReadHead
  <2> QED
    BY <2>1, <2>2, <2>3, <1>c DEF TypeOK, lockVars
<1>17. ASSUME NEW c \in Writers, Insert(c) PROVE TypeOK'
  <2>1. child' = [child EXCEPT ![c] = [child[c] EXCEPT !.st = "sealing"]]
    BY <1>17 DEF Insert, Now
  <2>2. [child[c] EXCEPT !.st = "sealing"] \in ChildStates
    BY <1>s DEF ChildSts
  <2>3. [cycle |-> c, status |-> child[c].status, prev |-> child[c].prev] \in CaptureRuns
    BY DEF TypeOK, CaptureRuns, ChildStates
  <2>4. runs' \in Seq(CaptureRuns)
    BY <1>17, <2>3 DEF Insert, TypeOK
  <2>5. UNCHANGED <<clock, disp, row, lockVars, vouched, faults>>
    BY <1>17 DEF Insert
  <2> QED
    BY <2>1, <2>2, <2>4, <2>5, <1>c DEF TypeOK, lockVars
<1>18. ASSUME NEW c \in Writers, SealCapture(c) \/ LockTimeout(c) PROVE TypeOK'
  <2>1. \E st \in {"ok", "failed"} : child' = [child EXCEPT ![c] = [Quiet EXCEPT !.st = st]]
    <3>1. Verdict(c) \in {"ok", "failed"}
      BY DEF Verdict
    <3> QED
      BY <1>18, <3>1 DEF SealCapture, LockTimeout, Done
  <2>2. \A st \in {"ok", "failed"} : [Quiet EXCEPT !.st = st] \in ChildStates
    BY <1>s DEF ChildSts
  <2>3. capLock' \in {capLock, NoLock} /\ writer' \in {writer, NoLock}
    BY <1>18 DEF SealCapture, LockTimeout, Frees, Freed
  <2>4. (faults' = faults \/ Fault) /\ UNCHANGED <<clock, disp, row, runs, vouched>>
    BY <1>18 DEF SealCapture, LockTimeout
  <2>5. child' \in [Writers -> ChildStates]
    BY <2>1, <2>2, <1>c
  <2> QED
    BY <2>3, <2>4, <2>5, <1>f DEF TypeOK
<1>19. ASSUME NEW c \in Writers, ChildDies(c) PROVE TypeOK'
  <2>1. Dies({c}) /\ Fault /\ UNCHANGED <<clock, disp, row, runs, vouched>>
    BY <1>19 DEF ChildDies
  <2> QED
    BY <2>1, <1>f, DiesType DEF TypeOK
<1>20. ASSUME Shutdown PROVE TypeOK'
  <2>1. Dies(Running) /\ Fault /\ UNCHANGED <<clock, row, runs, vouched>>
    BY <1>20 DEF Shutdown
  <2>2. disp' \in [Dispatchers -> DispStates]
    BY <1>20, OffType DEF Shutdown
  <2> QED
    BY <2>1, <2>2, <1>f, DiesType DEF TypeOK
<1>21. ASSUME Tick PROVE TypeOK'
  BY <1>21 DEF Tick, TypeOK, lockVars
<1>22. CASE UNCHANGED vars
  BY <1>22 DEF vars, TypeOK, lockVars
<1> QED
  BY <1>1, <1>2, <1>3, <1>4, <1>5, <1>7, <1>8, <1>9, <1>10, <1>11, <1>12, <1>13, <1>14, <1>15,
     <1>16, <1>17, <1>18, <1>19, <1>20, <1>21, <1>22 DEF Next, DispatchStep, CaptureStep

-----------------------------------------------------------------------------
(* What a step does to the children and the locks. *)
ChildVars == <<child, lockVars, runs>>

LEMMA ChildSteps ==
  ASSUME TypeOK, [Next]_vars
  PROVE  \/ UNCHANGED ChildVars
         \/ \E d \in Dispatchers : Launch(d) \/ TimeOut(d)
         \/ \E c \in Writers : \/ StartByHand(c) \/ EnterCapture(c) \/ TakeWriter(c) \/ ReadHead(c)
                               \/ Insert(c) \/ SealCapture(c) \/ LockTimeout(c) \/ ChildDies(c)
         \/ Shutdown
<1>1. ASSUME NEW d \in Dispatchers,
             \/ Start(d) \/ Sweep(d) \/ Look(d) \/ Choose(d) \/ Record(d) \/ Abort(d)
             \/ ChildEnded(d) \/ Seal(d) \/ Report(d) \/ WriterTimeout(d) \/ Crash(d)
      PROVE  UNCHANGED ChildVars
  BY <1>1 DEF Start, Sweep, Look, Choose, Record, Abort, ChildEnded, Seal, Report, WriterTimeout,
              Crash, ChildVars, lockVars
<1>2. Tick \/ UNCHANGED vars => UNCHANGED ChildVars
  BY DEF Tick, vars, ChildVars, lockVars
<1> QED
  BY <1>1, <1>2 DEF Next, DispatchStep, CaptureStep

(* A capture that enters pulls, or ends at once. *)
LEMMA EnterMoves ==
  ASSUME TypeOK, NEW c \in Writers, EnterCapture(c)
  PROVE  /\ child[c].st = "waiting" /\ writer = NoLock /\ c \in Captures
         /\ UNCHANGED <<clock, disp, row, writer, runs, vouched, faults>>
         /\ \A b \in Writers \ {c} : child'[b] = child[b]
         /\ \/ child'[c].st \in {"pulling", "failed"}
            \/ child'[c].st = "ok" /\ Captured(c)
<1>t. child = [b \in Writers |-> child[b]] /\ child[c] \in ChildStates
  BY DEF TypeOK
<1>1. /\ child[c].st = "waiting" /\ writer = NoLock /\ c \in Captures
      /\ UNCHANGED <<clock, disp, row, writer, runs, vouched, faults>>
      /\ \/ child' = [child EXCEPT ![c] = [child[c] EXCEPT !.st = "pulling"]]
         \/ child' = [child EXCEPT ![c] = [Quiet EXCEPT !.st = IF Captured(c) THEN "ok" ELSE "failed"]]
  BY DEF EnterCapture, Now, Done
<1>2. CASE child' = [child EXCEPT ![c] = [child[c] EXCEPT !.st = "pulling"]]
  BY <1>1, <1>2, <1>t DEF ChildStates
<1>3. CASE child' = [child EXCEPT ![c] = [Quiet EXCEPT !.st = IF Captured(c) THEN "ok" ELSE "failed"]]
  <2>1. child'[c].st = IF Captured(c) THEN "ok" ELSE "failed"
    BY <1>3, <1>t DEF Quiet
  <2>2. \A b \in Writers \ {c} : child'[b] = child[b]
    BY <1>3, <1>t
  <2> QED
    BY <1>1, <2>1, <2>2
<1> QED
  BY <1>1, <1>2, <1>3

(* Only the holder of the writer lock writes. *)
LEMMA WriterStep == TypeOK /\ WriterInv /\ [Next]_vars => WriterInv'
<1> SUFFICES ASSUME TypeOK, WriterInv, [Next]_vars PROVE WriterInv'
  OBVIOUS
<1> USE DEF WriterInv, Writing
<1>t. child = [c \in Writers |-> child[c]] /\ DOMAIN child = Writers
  BY DEF TypeOK
<1>1. CASE UNCHANGED ChildVars
  BY <1>1 DEF ChildVars, lockVars
<1>2. ASSUME NEW d \in Dispatchers, Launch(d) PROVE WriterInv'
  BY <1>2, <1>t DEF Launch, lockVars, Quiet
<1>3. ASSUME NEW S, Dies(S) PROVE WriterInv'
  BY <1>3, <1>t DEF Dies, Freed, Quiet
<1>4. ASSUME NEW c \in Writers, StartByHand(c) PROVE WriterInv'
  BY <1>4, <1>t DEF StartByHand, lockVars, Quiet
<1>5. ASSUME NEW c \in Writers, EnterCapture(c) PROVE WriterInv'
  BY <1>5, <1>t, EnterMoves, CyclesAssumption DEF Quiet
<1>6. ASSUME NEW c \in Writers, TakeWriter(c) PROVE WriterInv'
  <2>1. \A b \in Writers : ~Writing(b)
    BY <1>6, CyclesAssumption DEF TakeWriter
  <2>2. writer' = c /\ \A b \in Writers \ {c} : child'[b] = child[b]
    BY <1>6, <1>t DEF TakeWriter
  <2> QED
    BY <2>1, <2>2
<1>7. ASSUME NEW c \in Writers, ReadHead(c) \/ Insert(c) PROVE WriterInv'
  <2>1. Writing(c) /\ writer' = writer
    BY <1>7 DEF ReadHead, Insert, lockVars
  <2>2. \A b \in Writers \ {c} : child'[b] = child[b]
    BY <1>7, <1>t DEF ReadHead, Insert, Now
  <2> QED
    BY <2>1, <2>2
<1>8. ASSUME NEW c \in Writers, SealCapture(c) \/ LockTimeout(c) PROVE WriterInv'
  <2>1. \E st \in {"ok", "failed"} : child' = [child EXCEPT ![c] = [Quiet EXCEPT !.st = st]]
    <3>1. Verdict(c) \in {"ok", "failed"}
      BY DEF Verdict
    <3> QED
      BY <1>8, <3>1 DEF SealCapture, LockTimeout, Done
  <2>2. writer' = IF writer = c THEN NoLock ELSE writer
    BY <1>8 DEF SealCapture, LockTimeout, Frees, Freed
  <2>3. ~Writing(c)' /\ \A b \in Writers \ {c} : child'[b] = child[b]
    BY <2>1, <1>t DEF Quiet
  <2> QED
    BY <2>2, <2>3
<1>9. ASSUME NEW d \in Dispatchers, TimeOut(d) PROVE WriterInv'
  BY <1>9, <1>3 DEF TimeOut
<1>10. ASSUME NEW c \in Writers, ChildDies(c) PROVE WriterInv'
  BY <1>10, <1>3 DEF ChildDies
<1>11. CASE Shutdown
  BY <1>11, <1>3 DEF Shutdown
<1> QED
  BY <1>1, <1>2, <1>4, <1>5, <1>6, <1>7, <1>8, <1>9, <1>10, <1>11, ChildSteps

(* The chain of capture runs: a writer appends to the head it has read. *)
LEMMA ChainStep ==
  TypeOK /\ WriterInv /\ HeadInv /\ ChainHolds /\ [Next]_vars => HeadInv' /\ ChainHolds'
<1> SUFFICES ASSUME TypeOK, WriterInv, HeadInv, ChainHolds, [Next]_vars
             PROVE  HeadInv' /\ ChainHolds'
  OBVIOUS
<1>t. child = [c \in Writers |-> child[c]] /\ DOMAIN child = Writers
  BY DEF TypeOK
<1>n. Len(runs) \in Nat /\ DOMAIN runs = 1 .. Len(runs)
  BY DEF TypeOK
<1>u. ASSUME UNCHANGED runs PROVE AcceptedHead' = AcceptedHead /\ ChainHolds'
  BY <1>u DEF AcceptedHead, ChainHolds, LinkHolds, Accepted
<1>1. ASSUME UNCHANGED runs,
             \A c \in Writers : child'[c].st = "inserting" =>
                child[c].st = "inserting" /\ child'[c].prev = child[c].prev
      PROVE  HeadInv' /\ ChainHolds'
  BY <1>1, <1>u DEF HeadInv
<1>2. CASE UNCHANGED ChildVars
  BY <1>2, <1>1 DEF ChildVars
<1>3. ASSUME NEW d \in Dispatchers, Launch(d) PROVE HeadInv' /\ ChainHolds'
  BY <1>3, <1>1, <1>t DEF Launch, Quiet
<1>4. ASSUME NEW S, Dies(S), UNCHANGED runs PROVE HeadInv' /\ ChainHolds'
  BY <1>4, <1>1, <1>t DEF Dies, Quiet
<1>5. ASSUME NEW c \in Writers, StartByHand(c) \/ EnterCapture(c) PROVE HeadInv' /\ ChainHolds'
  <2>1. CASE StartByHand(c)
    BY <2>1, <1>1, <1>t DEF StartByHand, Quiet
  <2>2. CASE EnterCapture(c)
    BY <2>2, <1>1, <1>t, EnterMoves DEF Quiet
  <2> QED
    BY <1>5, <2>1, <2>2
<1>6. ASSUME NEW c \in Writers, TakeWriter(c) PROVE HeadInv' /\ ChainHolds'
  BY <1>6, <1>1, <1>t DEF TakeWriter
<1>7. ASSUME NEW c \in Writers, ReadHead(c) PROVE HeadInv' /\ ChainHolds'
  <2>1. UNCHANGED runs /\ child' = [child EXCEPT ![c].st = "inserting", ![c].prev = AcceptedHead]
    BY <1>7 DEF ReadHead
  <2>2. child'[c].prev = AcceptedHead /\ \A b \in Writers \ {c} : child'[b] = child[b]
    <3>1. child[c] \in ChildStates
      BY DEF TypeOK
    <3> QED
      BY <2>1, <3>1, <1>t DEF ChildStates
  <2> QED
    BY <2>1, <2>2, <1>u DEF HeadInv
<1>8. ASSUME NEW c \in Writers, Insert(c) PROVE HeadInv' /\ ChainHolds'
  <2> DEFINE new == [cycle |-> c, status |-> child[c].status, prev |-> child[c].prev]
  <2>0. PICK n \in Nat : n = Len(runs)
    BY <1>n
  <2>1. runs' = Append(runs, new) /\ child' = [child EXCEPT ![c].st = "sealing"] /\ child[c].st = "inserting"
    BY <1>8 DEF Insert, Now
  <2>2. writer = c /\ \A b \in Writers \ {c} : child[b].st # "inserting"
    BY <2>1 DEF WriterInv, Writing
  <2>3. \A b \in Writers : child'[b].st # "inserting"
    <3>1. child[c] \in ChildStates
      BY DEF TypeOK
    <3> QED
      BY <2>1, <2>2, <3>1, <1>t DEF ChildStates
  <2>4. /\ DOMAIN runs' = 1 .. (n + 1) /\ runs'[n + 1] = new
        /\ \A i \in 1 .. n : runs'[i] = runs[i]
    <3>1. runs \in Seq(CaptureRuns)
      BY DEF TypeOK
    <3> HIDE DEF new
    <3> QED
      BY <2>0, <2>1, <3>1
  <2>5. \A j \in 1 .. n : Accepted(j)' <=> Accepted(j)
    BY <2>4 DEF Accepted
  <2>6. ASSUME NEW i \in 1 .. (n + 1) PROVE {j \in 1 .. (i - 1) : Accepted(j)}' = {j \in 1 .. (i - 1) : Accepted(j)}
    <3>1. \A j \in 1 .. (i - 1) : j \in 1 .. n
      BY <1>n, <2>0
    <3> QED
      BY <3>1, <2>5
  <2>7. ASSUME NEW i \in 1 .. n PROVE LinkHolds(i)'
    <3>1. LinkHolds(i)
      BY <1>n, <2>0 DEF ChainHolds
    <3>2. {j \in 1 .. (i - 1) : Accepted(j)}' = {j \in 1 .. (i - 1) : Accepted(j)}
      BY <2>6, <1>n, <2>0
    <3> QED
      BY <3>1, <3>2, <2>4 DEF LinkHolds, LatestOf
  <2>8. LinkHolds(n + 1)'
    <3>1. (n + 1) - 1 = n /\ n + 1 \in 1 .. (n + 1)
      BY <1>n, <2>0
    <3>2. {j \in 1 .. n : Accepted(j)}' = {j \in DOMAIN runs : Accepted(j)}
      BY <2>5, <1>n, <2>0
    <3>3. child[c].prev = LatestOf({j \in DOMAIN runs : Accepted(j)})
      BY <2>1 DEF HeadInv, AcceptedHead
    <3>4. runs'[n + 1].prev = child[c].prev
      BY <2>4
    <3> QED
      BY <3>1, <3>2, <3>3, <3>4 DEF LinkHolds, LatestOf
  <2>9. ChainHolds'
    <3>1. \A i \in 1 .. (n + 1) : i \in 1 .. n \/ i = n + 1
      BY <1>n, <2>0
    <3> QED
      BY <2>4, <2>7, <2>8, <3>1 DEF ChainHolds
  <2> QED
    BY <2>3, <2>9 DEF HeadInv
<1>9. ASSUME NEW c \in Writers, SealCapture(c) \/ LockTimeout(c) PROVE HeadInv' /\ ChainHolds'
  <2>1. \E st \in {"ok", "failed"} : child' = [child EXCEPT ![c] = [Quiet EXCEPT !.st = st]]
    <3>1. Verdict(c) \in {"ok", "failed"}
      BY DEF Verdict
    <3> QED
      BY <1>9, <3>1 DEF SealCapture, LockTimeout, Done
  <2>2. UNCHANGED runs
    BY <1>9 DEF SealCapture, LockTimeout
  <2> QED
    BY <2>1, <2>2, <1>1, <1>t DEF Quiet
<1>10. ASSUME NEW d \in Dispatchers, TimeOut(d) PROVE HeadInv' /\ ChainHolds'
  BY <1>10, <1>4 DEF TimeOut
<1>11. ASSUME NEW c \in Writers, ChildDies(c) PROVE HeadInv' /\ ChainHolds'
  BY <1>11, <1>4 DEF ChildDies
<1>12. CASE Shutdown
  BY <1>12, <1>4 DEF Shutdown
<1> QED
  BY <1>2, <1>3, <1>5, <1>6, <1>7, <1>8, <1>9, <1>10, <1>11, <1>12, ChildSteps

-----------------------------------------------------------------------------
(* How a dispatcher comes to have an attempt: it chooses a cycle, records  *)
(* the attempt when nobody has, and keeps it until it leaves.              *)
Keeps(d) == disp'[d].cycle = disp[d].cycle /\ disp'[d].now = disp[d].now

LEMMA OwnStep ==
  ASSUME TypeOK, [Next]_vars, NEW d \in Dispatchers, disp'[d].st \in Owning \cup {"record"}
  PROVE  \/ disp'[d] = disp[d]
         \/ disp[d].st \in Owning /\ disp'[d].st \in {"abort", "waiting", "seal"} /\ Keeps(d)
            /\ (disp'[d].st = "seal" /\ disp'[d].rc = 0 => child[disp[d].cycle].st = "ok")
         \/ /\ Record(d) /\ disp[d].st = "record" /\ disp'[d].st = "launch" /\ Keeps(d)
            /\ row[disp[d].cycle].state = "none"
            /\ row' = [row EXCEPT ![disp[d].cycle] = [state |-> "STARTED", at |-> disp[d].now]]
         \/ disp'[d].st = "record" /\ disp'[d].cycle \in Scheduled
<1> DEFINE Goal == \/ disp'[d] = disp[d]
                   \/ disp[d].st \in Owning /\ disp'[d].st \in {"abort", "waiting", "seal"} /\ Keeps(d)
                      /\ (disp'[d].st = "seal" /\ disp'[d].rc = 0 => child[disp[d].cycle].st = "ok")
                   \/ /\ Record(d) /\ disp[d].st = "record" /\ disp'[d].st = "launch" /\ Keeps(d)
                      /\ row[disp[d].cycle].state = "none"
                      /\ row' = [row EXCEPT ![disp[d].cycle] = [state |-> "STARTED", at |-> disp[d].now]]
                   \/ disp'[d].st = "record" /\ disp'[d].cycle \in Scheduled
<1>t. disp = [e \in Dispatchers |-> disp[e]] /\ disp[d] \in DispStates
  BY DEF TypeOK
<1>e. ASSUME NEW e \in Dispatchers, NEW w, disp' = [disp EXCEPT ![e] = w], e # d PROVE Goal
  BY <1>e, <1>t
<1>o. ASSUME NEW e \in Dispatchers, disp' = [disp EXCEPT ![e] = Off] PROVE Goal
  <2>1. disp'[e] = Off
    BY <1>o, <1>t
  <2>2. e # d
    BY <2>1 DEF Off, Owning
  <2> QED
    BY <1>o, <1>e, <2>2
<1>1. CASE UNCHANGED disp
  BY <1>1
<1>2. ASSUME NEW e \in Dispatchers, Start(e) \/ Sweep(e) \/ Look(e) PROVE Goal
  <2>1. \/ disp' = [disp EXCEPT ![e] = [Off EXCEPT !.st = "sweep", !.now = clock, !.since = clock]]
        \/ disp' = [disp EXCEPT ![e] = [disp[e] EXCEPT !.st = "look"]]
        \/ disp' = [disp EXCEPT ![e] = [disp[e] EXCEPT !.st = "choose", !.seen = {c \in Scheduled : Captured(c)}]]
        \/ disp' = [disp EXCEPT ![e] = [disp[e] EXCEPT !.st = "report"]]
    BY <1>2 DEF Start, Sweep, Look, Goto
  <2>2. disp[e] \in DispStates
    BY DEF TypeOK
  <2>3. disp'[e].st \in {"sweep", "look", "choose", "report"}
    BY <2>1, <2>2, <1>t DEF Off, DispStates
  <2>4. e # d
    BY <2>3 DEF Owning
  <2> QED
    BY <2>1, <2>4, <1>e
<1>3. ASSUME NEW e \in Dispatchers, Choose(e) PROVE Goal
  <2>1. \/ \E rc : disp' = [disp EXCEPT ![e] = [disp[e] EXCEPT !.st = "report", !.seen = {}, !.rc = rc]]
        \/ \E p \in Phases : /\ HasAttemptsLeft(p)
                             /\ disp' = [disp EXCEPT ![e] = [disp[e] EXCEPT !.st = "record", !.seen = {},
                                                            !.cycle = <<p, Cardinality(Tried(p)) + 1>>]]
    <3> DEFINE passed(p) == \E c \in CyclesOf(p) : row[c].state = "PASS" /\ c \in disp[e].seen
               open == {p \in Phases : IsDue(p, disp[e].now) /\ ~passed(p)}
               able == {p \in open : HasAttemptsLeft(p)}
    <3> HIDE DEF passed
    <3>1. CASE able = {}
      <4>1. disp' = [disp EXCEPT ![e] = [disp[e] EXCEPT !.st = "report", !.seen = {},
                                                      !.rc = IF open = {} THEN 0 ELSE 1]]
        BY <1>3, <3>1 DEF Choose, passed
      <4> QED
        BY <4>1
    <3>2. CASE able # {}
      BY <1>3, <3>2 DEF Choose, passed
    <3> QED
      BY <3>1, <3>2
  <2>2. ASSUME NEW rc, disp' = [disp EXCEPT ![e] = [disp[e] EXCEPT !.st = "report", !.seen = {}, !.rc = rc]]
        PROVE  Goal
    <3>1. CASE e = d
      BY <2>2, <3>1, <1>t DEF DispStates, Owning
    <3> QED
      BY <2>2, <3>1, <1>e
  <2>3. ASSUME NEW p \in Phases, HasAttemptsLeft(p),
               disp' = [disp EXCEPT ![e] = [disp[e] EXCEPT !.st = "record", !.seen = {},
                                              !.cycle = <<p, Cardinality(Tried(p)) + 1>>]]
        PROVE  Goal
    <3>1. <<p, Cardinality(Tried(p)) + 1>> \in Scheduled
      BY <2>3, NextAttempt
    <3>2. CASE e = d
      <4>1. disp'[d].st = "record" /\ disp'[d].cycle = <<p, Cardinality(Tried(p)) + 1>>
        BY <2>3, <3>2, <1>t DEF DispStates
      <4> QED
        BY <3>1, <4>1
    <3> QED
      BY <2>3, <3>2, <1>e
  <2> QED
    BY <2>1, <2>2, <2>3
<1>4. ASSUME NEW e \in Dispatchers, Record(e) PROVE Goal
  <2>1. CASE row[disp[e].cycle].state = "none"
    <3>1. /\ disp' = [disp EXCEPT ![e] = [disp[e] EXCEPT !.st = "launch"]] /\ disp[e].st = "record"
          /\ row' = [row EXCEPT ![disp[e].cycle] = [state |-> "STARTED", at |-> disp[e].now]]
      BY <1>4, <2>1 DEF Record, Goto
    <3>2. CASE e = d
      <4>1. disp'[d].st = "launch" /\ Keeps(d)
        BY <3>1, <3>2, <1>t DEF DispStates, Keeps
      <4> QED
        BY <1>4, <2>1, <3>1, <3>2, <4>1
    <3> QED
      BY <3>1, <3>2, <1>e
  <2>2. CASE row[disp[e].cycle].state # "none"
    BY <1>4, <2>2, <1>o DEF Record, Leave
  <2> QED
    BY <2>1, <2>2
<1>5. ASSUME NEW e \in Dispatchers, Launch(e) \/ ChildEnded(e) \/ TimeOut(e) PROVE Goal
  <2>1. ASSUME NEW w, disp[e].st \in Owning, disp' = [disp EXCEPT ![e] = w],
               w.st \in {"abort", "waiting", "seal"}, w.cycle = disp[e].cycle, w.now = disp[e].now,
               w.st = "seal" /\ w.rc = 0 => child[disp[e].cycle].st = "ok"
        PROVE  Goal
    <3>1. CASE e = d
      <4>1. disp'[d] = w
        BY <2>1, <3>1, <1>t
      <4> QED
        BY <2>1, <3>1, <4>1 DEF Keeps
    <3> QED
      BY <2>1, <3>1, <1>e
  <2>2. disp[e] \in DispStates
    BY DEF TypeOK
  <2>3. ASSUME NEW rc, disp' = [disp EXCEPT ![e] = [disp[e] EXCEPT !.st = "seal", !.since = clock, !.rc = rc]],
               disp[e].st \in Owning, rc = 0 => child[disp[e].cycle].st = "ok"
        PROVE  Goal
    <3> DEFINE w == [disp[e] EXCEPT !.st = "seal", !.since = clock, !.rc = rc]
    <3>1. w.st = "seal" /\ w.rc = rc /\ w.cycle = disp[e].cycle /\ w.now = disp[e].now
      BY <2>2 DEF DispStates
    <3> HIDE DEF w
    <3>2. disp' = [disp EXCEPT ![e] = w]
      BY <2>3 DEF w
    <3> QED
      BY <2>1, <2>3, <3>1, <3>2
  <2>4. CASE Launch(e)
    <3>0. disp[e].st \in Owning
      BY <2>4 DEF Launch, Owning
    <3>1. CASE disp' = [disp EXCEPT ![e] = [disp[e] EXCEPT !.st = "waiting", !.since = clock]]
      <4> DEFINE w == [disp[e] EXCEPT !.st = "waiting", !.since = clock]
      <4>1. w.st = "waiting" /\ w.cycle = disp[e].cycle /\ w.now = disp[e].now
        BY <2>2 DEF DispStates
      <4> HIDE DEF w
      <4>2. disp' = [disp EXCEPT ![e] = w]
        BY <3>1 DEF w
      <4> QED
        BY <2>1, <3>0, <4>1, <4>2
    <3>2. CASE disp' = [disp EXCEPT ![e] = [disp[e] EXCEPT !.st = "abort"]]
      <4> DEFINE w == [disp[e] EXCEPT !.st = "abort"]
      <4>1. w.st = "abort" /\ w.cycle = disp[e].cycle /\ w.now = disp[e].now
        BY <2>2 DEF DispStates
      <4> HIDE DEF w
      <4>2. disp' = [disp EXCEPT ![e] = w]
        BY <3>2 DEF w
      <4> QED
        BY <2>1, <3>0, <4>1, <4>2
    <3>3. CASE disp' = [disp EXCEPT ![e] = [disp[e] EXCEPT !.st = "seal", !.since = clock, !.rc = 1]]
      <4>1. 1 = 0 => child[disp[e].cycle].st = "ok"
        OBVIOUS
      <4> QED
        BY <2>3, <3>0, <3>3, <4>1
    <3> QED
      BY <2>4, <3>1, <3>2, <3>3 DEF Launch, Goto, Ends
  <2>5. CASE ChildEnded(e)
    <3> DEFINE rc == IF child[disp[e].cycle].st = "ok" THEN 0 ELSE 1
    <3>0. rc = 0 => child[disp[e].cycle].st = "ok"
      OBVIOUS
    <3> HIDE DEF rc
    <3>1. disp' = [disp EXCEPT ![e] = [disp[e] EXCEPT !.st = "seal", !.since = clock, !.rc = rc]]
      BY <2>5 DEF ChildEnded, Ends, rc
    <3>2. disp[e].st \in Owning
      BY <2>5 DEF ChildEnded, Owning
    <3> QED
      BY <2>3, <3>0, <3>1, <3>2
  <2>6. CASE TimeOut(e)
    <3>1. disp' = [disp EXCEPT ![e] = [disp[e] EXCEPT !.st = "seal", !.since = clock, !.rc = 1]]
      BY <2>6 DEF TimeOut, Ends
    <3>2. disp[e].st \in Owning
      BY <2>6 DEF TimeOut, Owning
    <3>3. 1 = 0 => child[disp[e].cycle].st = "ok"
      OBVIOUS
    <3> QED
      BY <2>3, <3>1, <3>2, <3>3
  <2> QED
    BY <1>5, <2>4, <2>5, <2>6
<1>6. ASSUME NEW e \in Dispatchers, Abort(e) \/ Report(e) \/ WriterTimeout(e) \/ Crash(e) PROVE Goal
  BY <1>6, <1>o DEF Abort, Report, WriterTimeout, Crash, Leave
<1>7. ASSUME NEW e \in Dispatchers, Seal(e) PROVE Goal
  <2>1. \/ disp' = [disp EXCEPT ![e] = Off]
        \/ \E rc : disp' = [disp EXCEPT ![e] = [Off EXCEPT !.st = "report", !.now = disp[e].now,
                                                         !.since = disp[e].since, !.rc = rc]]
    BY <1>7 DEF Seal
  <2>2. ASSUME NEW rc, disp' = [disp EXCEPT ![e] = [Off EXCEPT !.st = "report", !.now = disp[e].now,
                                                         !.since = disp[e].since, !.rc = rc]]
        PROVE  Goal
    <3>1. CASE e = d
      BY <2>2, <3>1, <1>t DEF Off, Owning
    <3> QED
      BY <2>2, <3>1, <1>e
  <2> QED
    BY <2>1, <2>2, <1>o
<1>8. CASE Shutdown
  <2>1. disp'[d] \in {Idle, Off}
    BY <1>8 DEF Shutdown
  <2> QED
    BY <2>1 DEF Idle, Off, Owning
<1>9. ASSUME NEW c \in Writers, StartByHand(c) \/ CaptureStep(c) \/ ChildDies(c) PROVE UNCHANGED disp
  BY <1>9 DEF StartByHand, CaptureStep, EnterCapture, TakeWriter, ReadHead, Insert, SealCapture,
              LockTimeout, ChildDies
<1>10. Tick \/ UNCHANGED vars => UNCHANGED disp
  BY DEF Tick, vars
<1> QED
  BY <1>1, <1>2, <1>3, <1>4, <1>5, <1>6, <1>7, <1>8, <1>9, <1>10 DEF Next, DispatchStep

(* An attempt is recorded once, and a settled one is not touched again. *)
LEMMA RowStep ==
  ASSUME TypeOK, [Next]_vars, NEW c \in Scheduled
  PROVE  /\ row[c].state # "none" => row'[c].state # "none"
         /\ row[c].state = "PASS" => row'[c].state = "PASS"
         /\ (row[c].state # "PASS" /\ row'[c].state = "PASS") =>
               \E d \in Dispatchers : disp[d].st = "seal" /\ disp[d].rc = 0 /\ disp[d].cycle = c
<1> DEFINE Goal == /\ row[c].state # "none" => row'[c].state # "none"
                   /\ row[c].state = "PASS" => row'[c].state = "PASS"
                   /\ (row[c].state # "PASS" /\ row'[c].state = "PASS") =>
                         \E d \in Dispatchers : disp[d].st = "seal" /\ disp[d].rc = 0 /\ disp[d].cycle = c
<1>t. row = [b \in Scheduled |-> row[b]] /\ row[c] \in Attempts
  BY DEF TypeOK
<1>1. CASE UNCHANGED row
  BY <1>1
<1>2. ASSUME NEW d \in Dispatchers, Sweep(d) PROVE Goal
  <2>1. row'[c] = IF Stale(c, disp[d].now) THEN [row[c] EXCEPT !.state = "INTERRUPTED"] ELSE row[c]
    BY <1>2 DEF Sweep
  <2> QED
    BY <2>1, <1>t DEF Stale, Attempts
<1>3. ASSUME NEW d \in Dispatchers, Record(d) PROVE Goal
  <2>1. row' = row \/ (row[disp[d].cycle].state = "none"
            /\ row' = [row EXCEPT ![disp[d].cycle] = [state |-> "STARTED", at |-> disp[d].now]])
    BY <1>3 DEF Record
  <2> QED
    BY <2>1, <1>t
<1>4. ASSUME NEW b, NEW st \in {"PASS", "FAIL"}, Finalize(b, st)
      PROVE  row'[c] = row[c] \/ (b = c /\ row[c].state = "STARTED" /\ row'[c].state = st)
  <2>1. CASE b = c
    BY <1>4, <2>1, <1>t DEF Finalize, Attempts
  <2>2. CASE b # c
    BY <1>4, <2>2, <1>t DEF Finalize
  <2> QED
    BY <2>1, <2>2
<1>5. ASSUME NEW d \in Dispatchers, Abort(d) PROVE Goal
  BY <1>5, <1>4 DEF Abort
<1>6. ASSUME NEW d \in Dispatchers, Seal(d) PROVE Goal
  <2>1. disp[d].st = "seal" /\ (Finalize(disp[d].cycle, "FAIL") \/ (disp[d].rc = 0 /\ Finalize(disp[d].cycle, "PASS")))
    BY <1>6 DEF Seal
  <2> QED
    BY <2>1, <1>4
<1>7. ASSUME NEW d \in Dispatchers,
             \/ Start(d) \/ Look(d) \/ Choose(d) \/ Launch(d) \/ ChildEnded(d) \/ TimeOut(d)
             \/ Report(d) \/ WriterTimeout(d) \/ Crash(d)
      PROVE  UNCHANGED row
  BY <1>7 DEF Start, Look, Choose, Launch, ChildEnded, TimeOut, Report, WriterTimeout, Crash
<1>8. ASSUME NEW b \in Writers, StartByHand(b) \/ CaptureStep(b) \/ ChildDies(b) PROVE UNCHANGED row
  BY <1>8 DEF StartByHand, CaptureStep, EnterCapture, TakeWriter, ReadHead, Insert, SealCapture,
              LockTimeout, ChildDies
<1>9. Shutdown \/ Tick \/ UNCHANGED vars => UNCHANGED row
  BY DEF Shutdown, Tick, vars
<1> QED
  BY <1>1, <1>2, <1>3, <1>5, <1>6, <1>7, <1>8, <1>9 DEF Next, DispatchStep

(* A cycle without a child gets one only from the dispatcher that owns it. *)
LEMMA ChildNone ==
  ASSUME TypeOK, [Next]_vars, NEW c \in Scheduled, child[c].st = "none", child'[c].st # "none"
  PROVE  \E d \in Dispatchers : disp[d].st \in Owning /\ disp[d].cycle = c /\ disp'[d].st # "launch"
<1> DEFINE Goal == \E d \in Dispatchers : disp[d].st \in Owning /\ disp[d].cycle = c /\ disp'[d].st # "launch"
<1>t. child = [b \in Writers |-> child[b]] /\ c \in Writers /\ c \notin Legacy /\ c \notin Manual
  BY CyclesAssumption DEF TypeOK, Writers, Captures
<1>1. ASSUME NEW d \in Dispatchers, Launch(d) PROVE Goal
  <2>1. child' = [child EXCEPT ![disp[d].cycle] = [Quiet EXCEPT !.st = "waiting"]]
    BY <1>1 DEF Launch
  <2>2. disp[d].cycle = c
    BY <2>1, <1>t
  <2>3. disp' = [disp EXCEPT ![d] = [disp[d] EXCEPT !.st = "waiting", !.since = clock]]
    BY <1>1, <2>1 DEF Launch
  <2>4. disp'[d].st = "waiting"
    BY <2>3 DEF TypeOK, DispStates
  <2> QED
    BY <1>1, <2>2, <2>4 DEF Launch, Owning
<1>2. ASSUME NEW d \in Dispatchers, TimeOut(d) PROVE Goal
  <2>1. disp[d].cycle = c
    BY <1>2, <1>t DEF TimeOut, Dies
  <2>2. disp' = [disp EXCEPT ![d] = [disp[d] EXCEPT !.st = "seal", !.since = clock, !.rc = 1]]
    BY <1>2 DEF TimeOut, Ends
  <2>3. disp'[d].st = "seal"
    BY <2>2 DEF TypeOK, DispStates
  <2> QED
    BY <1>2, <2>1, <2>3 DEF TimeOut, Owning
<1>3. ASSUME NEW b \in Writers, child[b].st # "none" \/ b \notin Scheduled,
             \A e \in Writers \ {b} : child'[e] = child[e]
      PROVE  FALSE
  BY <1>3, <1>t
<1>4. ASSUME NEW b \in Writers, StartByHand(b) PROVE FALSE
  <2>1. b \notin Scheduled
    BY <1>4, CyclesAssumption DEF StartByHand, Captures
  <2> QED
    BY <1>4, <2>1, <1>3, <1>t DEF StartByHand
<1>5. ASSUME NEW b \in Writers, EnterCapture(b) PROVE FALSE
  BY <1>5, <1>3, EnterMoves
<1>6. ASSUME NEW b \in Writers, TakeWriter(b) \/ ReadHead(b) \/ Insert(b) PROVE FALSE
  <2>1. child[b].st # "none"
    BY <1>6 DEF TakeWriter, ReadHead, Insert, Ready
  <2>2. \A e \in Writers \ {b} : child'[e] = child[e]
    BY <1>6, <1>t DEF TakeWriter, ReadHead, Insert, Now
  <2> QED
    BY <2>1, <2>2, <1>3
<1>7. ASSUME NEW b \in Writers, SealCapture(b) \/ LockTimeout(b) PROVE FALSE
  <2>1. child[b].st # "none"
    BY <1>7 DEF SealCapture, LockTimeout, Ready
  <2>2. \A e \in Writers \ {b} : child'[e] = child[e]
    BY <1>7, <1>t DEF SealCapture, LockTimeout, Done
  <2> QED
    BY <2>1, <2>2, <1>3
<1>8. ASSUME NEW b \in Writers, ChildDies(b) PROVE FALSE
  <2>1. child[b].st # "none"
    BY <1>8 DEF ChildDies, Running
  <2>2. \A e \in Writers \ {b} : child'[e] = child[e]
    BY <1>8, <1>t DEF ChildDies, Dies
  <2> QED
    BY <2>1, <2>2, <1>3
<1>9. CASE Shutdown
  BY <1>9, <1>t DEF Shutdown, Dies, Running
<1>10. CASE UNCHANGED ChildVars
  BY <1>10 DEF ChildVars
<1> QED
  BY <1>1, <1>2, <1>4, <1>5, <1>6, <1>7, <1>8, <1>9, <1>10, ChildSteps

(* Attempts keep to one dispatcher, whatever is launched, timed out,       *)
(* interrupted or lost.                                                    *)
LEMMA AttemptStep == TypeOK /\ AttemptInv /\ [Next]_vars => AttemptInv'
<1> SUFFICES ASSUME TypeOK, AttemptInv, [Next]_vars PROVE AttemptInv'
  OBVIOUS
<1> DEFINE Kept(d) == disp[d].st \in Owning /\ disp'[d].cycle = disp[d].cycle
           New(d) == /\ Record(d) /\ disp[d].st = "record" /\ disp'[d].st = "launch"
                     /\ disp'[d].cycle = disp[d].cycle /\ row[disp[d].cycle].state = "none"
                     /\ row' = [row EXCEPT ![disp[d].cycle] = [state |-> "STARTED", at |-> disp[d].now]]
<1>o. ASSUME NEW d \in Dispatchers, disp'[d].st \in Owning PROVE Kept(d) \/ New(d)
  BY <1>o, OwnStep DEF Keeps, Owning
<1>1. ASSUME NEW c \in Scheduled, row'[c].state = "none" PROVE child'[c].st = "none"
  <2>1. row[c].state = "none" /\ child[c].st = "none"
    BY <1>1, RowStep DEF AttemptInv
  <2> SUFFICES ASSUME child'[c].st # "none" PROVE FALSE
    OBVIOUS
  <2>2. PICK d \in Dispatchers : disp[d].st \in Owning /\ disp[d].cycle = c
    BY <2>1, ChildNone
  <2> QED
    BY <2>1, <2>2 DEF AttemptInv
<1>2. ASSUME NEW d \in Dispatchers, disp'[d].st = "record" PROVE disp'[d].cycle \in Scheduled
  BY <1>2, OwnStep DEF AttemptInv
<1>3. ASSUME NEW d \in Dispatchers, disp'[d].st \in Owning
      PROVE  disp'[d].cycle \in Scheduled /\ row'[disp'[d].cycle].state # "none"
  <2>1. CASE Kept(d)
    BY <2>1, RowStep DEF AttemptInv
  <2>2. CASE New(d)
    <3>1. disp[d].cycle \in Scheduled
      BY <2>2 DEF AttemptInv
    <3>2. row'[disp[d].cycle].state = "STARTED"
      BY <2>2, <3>1 DEF TypeOK
    <3> QED
      BY <2>2, <3>1, <3>2
  <2> QED
    BY <1>3, <1>o, <2>1, <2>2
<1>n. ASSUME NEW d \in Dispatchers, NEW e \in Dispatchers, d # e, New(d), disp'[e].st \in Owning
      PROVE  Kept(e) /\ disp'[d].cycle # disp'[e].cycle
  <2>1. disp'[e] = disp[e]
    BY <1>n DEF Record, Goto, Leave, TypeOK
  <2>2. Kept(e)
    BY <1>n, <2>1
  <2>3. row[disp[e].cycle].state # "none"
    BY <2>2 DEF AttemptInv
  <2> QED
    BY <1>n, <2>2, <2>3
<1>4. ASSUME NEW d \in Dispatchers, NEW e \in Dispatchers, d # e,
             disp'[d].st \in Owning, disp'[e].st \in Owning
      PROVE  disp'[d].cycle # disp'[e].cycle
  <2>1. CASE Kept(d) /\ Kept(e)
    BY <1>4, <2>1 DEF AttemptInv
  <2>2. CASE New(d)
    BY <1>4, <2>2, <1>n
  <2>3. CASE New(e)
    BY <1>4, <2>3, <1>n
  <2> QED
    BY <1>4, <1>o, <2>1, <2>2, <2>3
<1>5. ASSUME NEW d \in Dispatchers, disp'[d].st = "launch" PROVE child'[disp'[d].cycle].st = "none"
  <2>1. CASE disp'[d] = disp[d]
    <3>1. /\ disp[d].st \in Owning /\ disp[d].cycle \in Scheduled /\ child[disp[d].cycle].st = "none"
      BY <1>5, <2>1 DEF AttemptInv, Owning
    <3> SUFFICES ASSUME child'[disp[d].cycle].st # "none" PROVE FALSE
      BY <2>1
    <3>2. PICK e \in Dispatchers : disp[e].st \in Owning /\ disp[e].cycle = disp[d].cycle /\ disp'[e].st # "launch"
      BY <3>1, ChildNone
    <3>3. e = d
      BY <3>1, <3>2 DEF AttemptInv
    <3> QED
      BY <1>5, <3>2, <3>3
  <2>2. CASE New(d)
    <3>1. disp[d].cycle \in Scheduled /\ child[disp[d].cycle].st = "none"
      BY <2>2 DEF AttemptInv
    <3> SUFFICES ASSUME child'[disp[d].cycle].st # "none" PROVE FALSE
      BY <2>2
    <3>2. PICK e \in Dispatchers : disp[e].st \in Owning /\ disp[e].cycle = disp[d].cycle
      BY <3>1, ChildNone
    <3> QED
      BY <2>2, <3>2 DEF AttemptInv
  <2> QED
    BY <1>5, <2>1, <2>2, OwnStep DEF Keeps, Owning
<1> QED
  BY <1>1, <1>2, <1>3, <1>4, <1>5 DEF AttemptInv

-----------------------------------------------------------------------------
(* Capture runs are only added. *)
LEMMA RunsStep ==
  ASSUME TypeOK, [Next]_vars
  PROVE  /\ \A i \in DOMAIN runs : i \in DOMAIN runs' /\ runs'[i] = runs[i]
         /\ \A c \in Writers : Captured(c) => Captured(c)'
<1>1. \A i \in DOMAIN runs : i \in DOMAIN runs' /\ runs'[i] = runs[i]
  <2>1. CASE UNCHANGED runs
    BY <2>1
  <2>2. ASSUME NEW c \in Writers, Insert(c)
        PROVE  \A i \in DOMAIN runs : i \in DOMAIN runs' /\ runs'[i] = runs[i]
    <3> DEFINE new == [cycle |-> c, status |-> child[c].status, prev |-> child[c].prev]
    <3>1. runs' = Append(runs, new) /\ runs \in Seq(CaptureRuns)
      BY <2>2 DEF Insert, TypeOK
    <3> HIDE DEF new
    <3> QED
      BY <3>1
  <2>3. ASSUME NEW d \in Dispatchers, Launch(d) \/ TimeOut(d) PROVE UNCHANGED runs
    BY <2>3 DEF Launch, TimeOut
  <2>4. ASSUME NEW c \in Writers, \/ StartByHand(c) \/ EnterCapture(c) \/ TakeWriter(c) \/ ReadHead(c)
                                  \/ SealCapture(c) \/ LockTimeout(c) \/ ChildDies(c)
        PROVE  UNCHANGED runs
    BY <2>4 DEF StartByHand, EnterCapture, TakeWriter, ReadHead, SealCapture, LockTimeout, ChildDies
  <2>5. Shutdown => UNCHANGED runs
    BY DEF Shutdown
  <2> QED
    BY <2>1, <2>2, <2>3, <2>4, <2>5, ChildSteps DEF ChildVars
<1>2. ASSUME NEW c \in Writers, Captured(c) PROVE Captured(c)'
  BY <1>1, <1>2 DEF Captured, Accepted
<1> QED
  BY <1>1, <1>2

(* A child that seals has inserted; one that ends well leaves an accepted  *)
(* capture of its cycle in the store.                                      *)
LEMMA ChildStored ==
  ASSUME TypeOK, StoredInv, [Next]_vars, NEW c \in Writers
  PROVE  /\ child'[c].st = "sealing" => \/ child'[c] = child[c]
                                        \/ \E i \in DOMAIN runs' : /\ runs'[i].cycle = c
                                                                   /\ runs'[i].status = child'[c].status
         /\ child'[c].st = "ok" => Captured(c)
<1> DEFINE Goal == /\ child'[c].st = "sealing" => \/ child'[c] = child[c]
                                                  \/ \E i \in DOMAIN runs' : /\ runs'[i].cycle = c
                                                                             /\ runs'[i].status = child'[c].status
                   /\ child'[c].st = "ok" => Captured(c)
<1>t. child = [b \in Writers |-> child[b]] /\ child[c] \in ChildStates
  BY DEF TypeOK
<1>u. ASSUME child'[c] = child[c] PROVE Goal
  BY <1>u DEF StoredInv
<1>o. ASSUME child'[c].st \notin {"sealing", "ok"} PROVE Goal
  BY <1>o
<1>1. ASSUME NEW d \in Dispatchers, Launch(d) PROVE Goal
  <2>1. child' = [child EXCEPT ![disp[d].cycle] = [Quiet EXCEPT !.st = "waiting"]] \/ child' = child
    BY <1>1 DEF Launch
  <2>2. child'[c] = child[c] \/ child'[c] = [Quiet EXCEPT !.st = "waiting"]
    BY <2>1, <1>t
  <2>3. [Quiet EXCEPT !.st = "waiting"].st = "waiting"
    BY DEF Quiet
  <2> QED
    BY <2>2, <2>3, <1>u, <1>o
<1>2. ASSUME NEW S, Dies(S) PROVE Goal
  <2>1. child'[c] = child[c] \/ child'[c] = [Quiet EXCEPT !.st = "failed"]
    BY <1>2 DEF Dies
  <2>2. [Quiet EXCEPT !.st = "failed"].st = "failed"
    BY DEF Quiet
  <2> QED
    BY <2>1, <2>2, <1>u, <1>o
<1>b. ASSUME NEW b \in Writers, b # c, \A e \in Writers \ {b} : child'[e] = child[e] PROVE Goal
  BY <1>b, <1>u
<1>3. ASSUME NEW b \in Writers, StartByHand(b) \/ TakeWriter(b) \/ ReadHead(b) PROVE Goal
  <2>1. \A e \in Writers \ {b} : child'[e] = child[e]
    BY <1>3, <1>t DEF StartByHand, TakeWriter, ReadHead
  <2>2. child'[b].st \in {"waiting", "reading", "inserting"}
    <3>1. child[b] \in ChildStates
      BY DEF TypeOK
    <3>2. CASE StartByHand(b)
      BY <3>2, <1>t DEF StartByHand, Quiet
    <3>3. CASE TakeWriter(b)
      BY <3>1, <3>3, <1>t DEF TakeWriter, ChildStates
    <3>4. CASE ReadHead(b)
      BY <3>1, <3>4, <1>t DEF ReadHead, ChildStates
    <3> QED
      BY <1>3, <3>2, <3>3, <3>4
  <2> QED
    BY <2>1, <2>2, <1>b, <1>o
<1>4. ASSUME NEW b \in Writers, EnterCapture(b) PROVE Goal
  <2>1. CASE b = c
    BY <1>4, <2>1, EnterMoves
  <2> QED
    BY <1>4, <2>1, <1>b, EnterMoves
<1>5. ASSUME NEW b \in Writers, Insert(b) PROVE Goal
  <2>1. child' = [child EXCEPT ![b].st = "sealing"]
    BY <1>5 DEF Insert, Now
  <2>2. CASE b = c
    <3> DEFINE new == [cycle |-> c, status |-> child[c].status, prev |-> child[c].prev]
    <3>1. runs' = Append(runs, new) /\ runs \in Seq(CaptureRuns)
      BY <1>5, <2>2 DEF Insert, TypeOK
    <3>2. child'[c].st = "sealing" /\ child'[c].status = child[c].status
      BY <2>1, <2>2, <1>t DEF ChildStates
    <3>3. new.cycle = c /\ new.status = child[c].status
      OBVIOUS
    <3> HIDE DEF new
    <3>4. Len(runs) + 1 \in DOMAIN runs' /\ runs'[Len(runs) + 1] = new
      BY <3>1
    <3>5. runs'[Len(runs) + 1].cycle = c /\ runs'[Len(runs) + 1].status = child'[c].status
      BY <3>2, <3>3, <3>4
    <3> QED
      BY <3>2, <3>4, <3>5
  <2>3. \A e \in Writers \ {b} : child'[e] = child[e]
    BY <2>1, <1>t
  <2> QED
    BY <2>2, <2>3, <1>b
<1>6. ASSUME NEW b \in Writers, SealCapture(b) \/ LockTimeout(b) PROVE Goal
  <2>1. child' = [child EXCEPT ![b] = [Quiet EXCEPT !.st = "failed"]]
          \/ /\ child[b].st = "sealing"
             /\ child' = [child EXCEPT ![b] = [Quiet EXCEPT !.st = Verdict(b)]]
    BY <1>6 DEF SealCapture, LockTimeout, Done
  <2>2. \A e \in Writers \ {b} : child'[e] = child[e]
    BY <2>1, <1>t
  <2>3. CASE b = c
    <3>1. CASE child' = [child EXCEPT ![b] = [Quiet EXCEPT !.st = "failed"]]
      BY <2>3, <3>1, <1>t, <1>o DEF Quiet
    <3>2. CASE /\ child[b].st = "sealing"
               /\ child' = [child EXCEPT ![b] = [Quiet EXCEPT !.st = Verdict(b)]]
      <4>1. child'[c].st = Verdict(c)
        BY <2>3, <3>2, <1>t DEF Quiet
      <4>2. CASE Verdict(c) = "ok"
        <5>1. child[c].status \in {"PASS", "MIGRATED"}
          BY <4>2, <1>t DEF Verdict, ChildStates
        <5>2. PICK i \in DOMAIN runs : runs[i].cycle = c /\ runs[i].status = child[c].status
          BY <2>3, <3>2 DEF StoredInv
        <5>3. Captured(c)
          BY <5>1, <5>2 DEF Captured, Accepted
        <5> QED
          BY <4>1, <4>2, <5>3
      <4>3. CASE Verdict(c) # "ok"
        <5>1. child'[c].st = "failed"
          BY <4>1, <4>3 DEF Verdict
        <5> QED
          BY <5>1, <1>o
      <4> QED
        BY <4>2, <4>3
    <3> QED
      BY <2>1, <3>1, <3>2
  <2> QED
    BY <2>2, <2>3, <1>b
<1>7. ASSUME NEW d \in Dispatchers, TimeOut(d) PROVE Goal
  BY <1>7, <1>2 DEF TimeOut
<1>8. ASSUME NEW b \in Writers, ChildDies(b) PROVE Goal
  BY <1>8, <1>2 DEF ChildDies
<1>9. CASE Shutdown
  BY <1>9, <1>2 DEF Shutdown
<1>10. CASE UNCHANGED ChildVars
  BY <1>10, <1>u DEF ChildVars
<1> QED
  BY <1>1, <1>3, <1>4, <1>5, <1>6, <1>7, <1>8, <1>9, <1>10, ChildSteps

LEMMA StoredStep == TypeOK /\ AttemptInv /\ StoredInv /\ [Next]_vars => StoredInv'
<1> SUFFICES ASSUME TypeOK, AttemptInv, StoredInv, [Next]_vars PROVE StoredInv'
  OBVIOUS
<1>1. ASSUME NEW c \in Writers, child'[c].st = "sealing"
      PROVE  \E i \in DOMAIN runs' : runs'[i].cycle = c /\ runs'[i].status = child'[c].status
  <2>1. CASE child'[c] = child[c]
    <3>1. PICK i \in DOMAIN runs : runs[i].cycle = c /\ runs[i].status = child[c].status
      BY <1>1, <2>1 DEF StoredInv
    <3> QED
      BY <2>1, <3>1, RunsStep
  <2> QED
    BY <1>1, <2>1, ChildStored
<1>2. ASSUME NEW c \in Writers, child'[c].st = "ok" PROVE Captured(c)'
  BY <1>2, ChildStored, RunsStep
<1>3. ASSUME NEW d \in Dispatchers, disp'[d].st = "seal", disp'[d].rc = 0
      PROVE  Captured(disp[d].cycle)' /\ disp'[d].cycle = disp[d].cycle
  <2>1. Captured(disp[d].cycle) /\ disp'[d].cycle = disp[d].cycle /\ disp[d].st \in Owning
    <3>1. CASE disp'[d] = disp[d]
      BY <1>3, <3>1 DEF StoredInv, Owning
    <3>2. CASE disp[d].st \in Owning /\ Keeps(d) /\ child[disp[d].cycle].st = "ok"
      <4>1. disp[d].cycle \in Writers
        BY <3>2 DEF AttemptInv, Writers, Captures
      <4> QED
        BY <3>2, <4>1 DEF StoredInv, Keeps
    <3> QED
      BY <1>3, <3>1, <3>2, OwnStep DEF Owning
  <2>2. disp[d].cycle \in Writers
    BY <2>1 DEF AttemptInv, Writers, Captures
  <2>3. \A c \in Writers : Captured(c) => Captured(c)'
    BY RunsStep
  <2> QED
    BY <2>1, <2>2, <2>3
<1>4. \A d \in Dispatchers : (disp'[d].st = "seal" /\ disp'[d].rc = 0) => Captured(disp[d].cycle)'
                                                                         /\ disp'[d].cycle = disp[d].cycle
  BY <1>3
<1> QED
  BY <1>1, <1>2, <1>4 DEF StoredInv, Captured, Accepted

(* A dispatch passes on the word of a child that ended well. *)
LEMMA PassedStep ==
  TypeOK /\ AttemptInv /\ StoredInv /\ PassedIsCaptured /\ [Next]_vars => PassedIsCaptured'
<1> SUFFICES ASSUME TypeOK, AttemptInv, StoredInv, PassedIsCaptured, [Next]_vars,
                    NEW c \in Scheduled, row'[c].state = "PASS"
             PROVE  Captured(c)'
  BY DEF PassedIsCaptured
<1>1. c \in Writers
  BY DEF Writers, Captures
<1>2. CASE row[c].state = "PASS"
  BY <1>1, <1>2, RunsStep DEF PassedIsCaptured
<1>3. CASE row[c].state # "PASS"
  <2>1. PICK d \in Dispatchers : disp[d].st = "seal" /\ disp[d].rc = 0 /\ disp[d].cycle = c
    BY <1>3, RowStep
  <2>2. Captured(c)
    BY <2>1 DEF StoredInv
  <2> QED
    BY <1>1, <2>2, RunsStep
<1> QED
  BY <1>2, <1>3

(* A clean exit is given on what the store and the scheduler hold, and     *)
(* neither takes it back.                                                  *)
LEMMA CoveredStep == TypeOK /\ CleanExitIsCovered /\ [Next]_vars => CleanExitIsCovered'
<1> SUFFICES ASSUME TypeOK, CleanExitIsCovered, [Next]_vars, NEW p \in vouched'
             PROVE  \E c \in CyclesOf(p) : row'[c].state = "PASS" /\ Captured(c)'
  BY DEF CleanExitIsCovered
<1>1. ASSUME NEW d \in Dispatchers, Report(d) PROVE p \in vouched \/ Covered(p)
  BY <1>1 DEF Report, RequiredPhases
<1>2. ASSUME NEW d \in Dispatchers,
             \/ Start(d) \/ Sweep(d) \/ Look(d) \/ Choose(d) \/ Record(d) \/ Abort(d) \/ Launch(d)
             \/ ChildEnded(d) \/ TimeOut(d) \/ Seal(d) \/ WriterTimeout(d) \/ Crash(d)
      PROVE  UNCHANGED vouched
  BY <1>2 DEF Start, Sweep, Look, Choose, Record, Abort, Launch, ChildEnded, TimeOut, Seal,
              WriterTimeout, Crash
<1>3. ASSUME NEW c \in Writers, StartByHand(c) \/ CaptureStep(c) \/ ChildDies(c) PROVE UNCHANGED vouched
  BY <1>3 DEF StartByHand, CaptureStep, EnterCapture, TakeWriter, ReadHead, Insert, SealCapture,
              LockTimeout, ChildDies
<1>4. Shutdown \/ Tick \/ UNCHANGED vars => UNCHANGED vouched
  BY DEF Shutdown, Tick, vars
<1>5. p \in vouched \/ Covered(p)
  BY <1>1, <1>2, <1>3, <1>4 DEF Next, DispatchStep
<1>6. Covered(p)
  BY <1>5 DEF CleanExitIsCovered, Covered
<1>7. PICK c \in CyclesOf(p) : row[c].state = "PASS" /\ Captured(c)
  BY <1>6 DEF Covered
<1>8. c \in Scheduled /\ c \in Writers
  BY DEF CyclesOf, Writers, Captures
<1> QED
  BY <1>7, <1>8, RowStep, RunsStep

-----------------------------------------------------------------------------
IInv ==
    /\ TypeOK
    /\ WriterInv
    /\ AttemptInv
    /\ HeadInv /\ ChainHolds
    /\ StoredInv
    /\ PassedIsCaptured
    /\ CleanExitIsCovered

LEMMA InitInv == Init => IInv
<1> SUFFICES ASSUME Init PROVE IInv
  OBVIOUS
<1>1. TypeOK
  <2>1. Quiet \in ChildStates /\ [state |-> "none", at |-> 0] \in Attempts
    BY ConstantsAssumption DEF ChildStates, Quiet, Attempts
  <2> QED
    BY <2>1, OffType, ConstantsAssumption DEF Init, TypeOK
<1>2. DOMAIN runs = {}
  BY DEF Init
<1>3. \A c \in Writers : child[c].st = "none"
  BY DEF Init, Quiet
<1>4. \A d \in Dispatchers : disp[d].st = "idle"
  BY DEF Init, Idle, Off
<1>5. WriterInv /\ HeadInv /\ StoredInv
  BY <1>3, <1>4 DEF WriterInv, Writing, HeadInv, StoredInv
<1>6. AttemptInv
  BY <1>3, <1>4 DEF AttemptInv, Owning, Writers, Captures
<1>7. ChainHolds
  BY <1>2 DEF ChainHolds
<1>8. PassedIsCaptured /\ CleanExitIsCovered
  BY DEF Init, PassedIsCaptured, CleanExitIsCovered
<1> QED
  BY <1>1, <1>5, <1>6, <1>7, <1>8 DEF IInv

(* Whatever is started, killed, timed out or rolled back, the invariant    *)
(* that the store and the scheduler rest on is kept.                       *)
THEOREM Invariance == Spec => []IInv
<1>1. IInv /\ [Next]_vars => IInv'
  BY TypeStep, WriterStep, AttemptStep, ChainStep, StoredStep, PassedStep, CoveredStep DEF IInv
<1> QED
  BY <1>1, InitInv, PTL DEF Spec

(* The variables of run_due.py, capture.py and the store keep their types. *)
THEOREM TypeCorrect == Spec => []TypeOK
<1>1. IInv => TypeOK
  BY DEF IInv
<1> QED
  BY <1>1, Invariance, PTL

(* persist_capture reads the head before its transaction, and the writer   *)
(* lock makes up for it: every run names the accepted run before it.       *)
THEOREM ChainIsLinked == Spec => []ChainHolds
<1>1. IInv => ChainHolds
  BY DEF IInv
<1> QED
  BY <1>1, Invariance, PTL

(* A dispatch that is PASS has an accepted capture in the store, although  *)
(* children are killed, outlive their dispatcher and may fail after they   *)
(* have stored their capture.                                              *)
THEOREM PassesAreCaptured == Spec => []PassedIsCaptured
<1>1. IInv => PassedIsCaptured
  BY DEF IInv
<1> QED
  BY <1>1, Invariance, PTL

(* What an invocation of run_due.py vouched for with its return code 0     *)
(* stays captured and passed.                                              *)
THEOREM CleanExitsAreCovered == Spec => []CleanExitIsCovered
<1>1. IInv => CleanExitIsCovered
  BY DEF IInv
<1> QED
  BY <1>1, Invariance, PTL

-----------------------------------------------------------------------------
(* How far the clock can be past the start of an invocation that works on  *)
(* its attempt, and what its row holds.                                    *)
InTime(w, t) ==
    /\ w.now <= t
    /\ w.st \in {"sweep", "look", "choose", "record", "launch", "abort"} => w.since = w.now
    /\ w.st = "waiting" => w.since <= w.now + Slack /\ t <= w.since + ChildTimeout
    /\ w.st = "seal" => w.since <= w.now + Slack + ChildTimeout
    /\ w.st \notin {"idle", "off", "waiting"} => t <= w.since + Slack

TimeInv == \A d \in Dispatchers : InTime(disp[d], clock)

OwnedInv ==
    \A d \in Dispatchers : disp[d].st \in Owning =>
        row[disp[d].cycle].state = "STARTED" /\ row[disp[d].cycle].at = disp[d].now

LEMMA TimeStep == TypeOK /\ TimeInv /\ [Next]_vars => TimeInv'
<1> SUFFICES ASSUME TypeOK, TimeInv, [Next]_vars PROVE TimeInv'
  OBVIOUS
<1> USE ConstantsAssumption
<1>t. disp = [e \in Dispatchers |-> disp[e]] /\ clock \in Nat /\ Slack \in Nat /\ ChildTimeout \in Nat
  BY DEF TypeOK
<1>d. ASSUME NEW d \in Dispatchers
      PROVE  disp[d] \in DispStates /\ disp[d].now \in Nat /\ disp[d].since \in Nat /\ InTime(disp[d], clock)
  BY DispTimes DEF TypeOK, TimeInv
<1>w. ASSUME NEW d \in Dispatchers, NEW w, disp' = [disp EXCEPT ![d] = w], clock' = clock, InTime(w, clock)
      PROVE  TimeInv'
  <2>1. ASSUME NEW e \in Dispatchers PROVE InTime(disp'[e], clock')
    <3>1. disp'[e] = w \/ disp'[e] = disp[e]
      BY <1>w, <1>t
    <3> QED
      BY <1>w, <3>1, <1>d
  <2> QED
    BY <2>1 DEF TimeInv, InTime
<1>o. InTime(Off, clock) /\ InTime(Idle, clock)
  BY <1>t DEF InTime, Off, Idle
<1>1. CASE UNCHANGED <<disp, clock>>
  BY <1>1 DEF TimeInv, InTime
<1>2. ASSUME NEW d \in Dispatchers, Start(d) PROVE TimeInv'
  <2> DEFINE w == [Off EXCEPT !.st = "sweep", !.now = clock, !.since = clock]
  <2>1. disp' = [disp EXCEPT ![d] = w] /\ clock' = clock
    BY <1>2 DEF Start
  <2>2. InTime(w, clock)
    BY <1>t DEF InTime, Off
  <2> HIDE DEF w
  <2> QED
    BY <2>1, <2>2, <1>w
<1>3. ASSUME NEW d \in Dispatchers, NEW st \in {"look", "choose", "record", "report", "launch", "abort"},
             NEW w \in DispStates,
             disp[d].st \in {"sweep", "look", "choose", "record", "launch", "abort"},
             w.st = st, w.now = disp[d].now, w.since = disp[d].since
      PROVE  InTime(w, clock)
  BY <1>3, <1>d, <1>t DEF InTime
<1>4. ASSUME NEW d \in Dispatchers, Sweep(d) PROVE TimeInv'
  <2> DEFINE w == [disp[d] EXCEPT !.st = "look"]
  <2>1. disp' = [disp EXCEPT ![d] = w] /\ clock' = clock /\ disp[d].st = "sweep"
    BY <1>4 DEF Sweep, Goto
  <2>2. w \in DispStates /\ w.st = "look" /\ w.now = disp[d].now /\ w.since = disp[d].since
    BY <1>d DEF DispStates
  <2> HIDE DEF w
  <2> QED
    BY <2>1, <2>2, <1>3, <1>w
<1>5. ASSUME NEW d \in Dispatchers, Look(d) PROVE TimeInv'
  <2> DEFINE v == [disp[d] EXCEPT !.st = "choose", !.seen = {c \in Scheduled : Captured(c)}]
             w == [disp[d] EXCEPT !.st = "report"]
  <2>1. /\ disp' = [disp EXCEPT ![d] = v] \/ disp' = [disp EXCEPT ![d] = w]
        /\ clock' = clock /\ disp[d].st = "look"
    BY <1>5 DEF Look
  <2>2. v \in DispStates /\ v.st = "choose" /\ v.now = disp[d].now /\ v.since = disp[d].since
    BY <1>d DEF DispStates
  <2>3. w \in DispStates /\ w.st = "report" /\ w.now = disp[d].now /\ w.since = disp[d].since
    BY <1>d DEF DispStates
  <2> HIDE DEF v, w
  <2> QED
    BY <2>1, <2>2, <2>3, <1>3, <1>w
<1>6. ASSUME NEW d \in Dispatchers, Choose(d) PROVE TimeInv'
  <2>1. /\ clock' = clock /\ disp[d].st = "choose"
        /\ \/ \E rc \in {0, 1} : disp' = [disp EXCEPT ![d] = [disp[d] EXCEPT !.st = "report", !.seen = {}, !.rc = rc]]
           \/ \E p \in Phases : /\ HasAttemptsLeft(p)
                                /\ disp' = [disp EXCEPT ![d] = [disp[d] EXCEPT !.st = "record", !.seen = {},
                                                            !.cycle = <<p, Cardinality(Tried(p)) + 1>>]]
    <3> DEFINE passed(p) == \E c \in CyclesOf(p) : row[c].state = "PASS" /\ c \in disp[d].seen
               open == {p \in Phases : IsDue(p, disp[d].now) /\ ~passed(p)}
               able == {p \in open : HasAttemptsLeft(p)}
    <3> HIDE DEF passed
    <3>0. clock' = clock /\ disp[d].st = "choose"
      BY <1>6 DEF Choose
    <3>1. CASE able = {}
      <4>1. disp' = [disp EXCEPT ![d] = [disp[d] EXCEPT !.st = "report", !.seen = {},
                                                      !.rc = IF open = {} THEN 0 ELSE 1]]
        BY <1>6, <3>1 DEF Choose, passed
      <4> QED
        BY <3>0, <4>1
    <3>2. CASE able # {}
      BY <1>6, <3>0, <3>2 DEF Choose, passed
    <3> QED
      BY <3>1, <3>2
  <2>2. ASSUME NEW rc \in {0, 1},
               disp' = [disp EXCEPT ![d] = [disp[d] EXCEPT !.st = "report", !.seen = {}, !.rc = rc]]
        PROVE  TimeInv'
    <3> DEFINE w == [disp[d] EXCEPT !.st = "report", !.seen = {}, !.rc = rc]
    <3>1. w \in DispStates /\ w.st = "report" /\ w.now = disp[d].now /\ w.since = disp[d].since
      BY <1>d DEF DispStates
    <3> HIDE DEF w
    <3>2. disp' = [disp EXCEPT ![d] = w]
      BY <2>2 DEF w
    <3> QED
      BY <2>1, <3>1, <3>2, <1>3, <1>w
  <2>3. ASSUME NEW p \in Phases, HasAttemptsLeft(p),
               disp' = [disp EXCEPT ![d] = [disp[d] EXCEPT !.st = "record", !.seen = {},
                                              !.cycle = <<p, Cardinality(Tried(p)) + 1>>]]
        PROVE  TimeInv'
    <3> DEFINE w == [disp[d] EXCEPT !.st = "record", !.seen = {}, !.cycle = <<p, Cardinality(Tried(p)) + 1>>]
    <3>0. <<p, Cardinality(Tried(p)) + 1>> \in Scheduled
      BY <2>3, NextAttempt
    <3>1. w \in DispStates /\ w.st = "record" /\ w.now = disp[d].now /\ w.since = disp[d].since
      BY <3>0, <1>d DEF DispStates
    <3> HIDE DEF w
    <3>2. disp' = [disp EXCEPT ![d] = w]
      BY <2>3 DEF w
    <3> QED
      BY <2>1, <3>1, <3>2, <1>3, <1>w
  <2> QED
    BY <2>1, <2>2, <2>3
<1>7. ASSUME NEW d \in Dispatchers, Record(d) PROVE TimeInv'
  <2> DEFINE w == [disp[d] EXCEPT !.st = "launch"]
  <2>1. /\ disp' = [disp EXCEPT ![d] = w] \/ disp' = [disp EXCEPT ![d] = Off]
        /\ clock' = clock /\ disp[d].st = "record"
    BY <1>7 DEF Record, Goto, Leave
  <2>2. w \in DispStates /\ w.st = "launch" /\ w.now = disp[d].now /\ w.since = disp[d].since
    BY <1>d DEF DispStates, Owning
  <2> HIDE DEF w
  <2> QED
    BY <2>1, <2>2, <1>3, <1>w, <1>o
<1>8. ASSUME NEW d \in Dispatchers, NEW rc, NEW st \in {"waiting", "seal"},
             disp' = [disp EXCEPT ![d] = [disp[d] EXCEPT !.st = st, !.since = clock, !.rc = rc]],
             clock' = clock, disp[d].st \in {"launch", "waiting"},
             st = "waiting" => disp[d].st = "launch"
      PROVE  TimeInv'
  <2> DEFINE w == [disp[d] EXCEPT !.st = st, !.since = clock, !.rc = rc]
  <2>1. w.st = st /\ w.now = disp[d].now /\ w.since = clock
    BY <1>d DEF DispStates
  <2> HIDE DEF w
  <2>2. disp' = [disp EXCEPT ![d] = w]
    BY <1>8 DEF w
  <2>3. InTime(w, clock)
    BY <1>8, <2>1, <1>d, <1>t DEF InTime
  <2> QED
    BY <1>8, <2>2, <2>3, <1>w
<1>9. ASSUME NEW d \in Dispatchers, Launch(d) PROVE TimeInv'
  <2>0. clock' = clock /\ disp[d].st = "launch"
    BY <1>9 DEF Launch
  <2>1. CASE disp' = [disp EXCEPT ![d] = [disp[d] EXCEPT !.st = "waiting", !.since = clock]]
    <3>1. [disp[d] EXCEPT !.st = "waiting", !.since = clock]
            = [disp[d] EXCEPT !.st = "waiting", !.since = clock, !.rc = disp[d].rc]
      BY <1>d DEF DispStates
    <3> QED
      BY <2>0, <2>1, <3>1, <1>8
  <2>2. CASE disp' = [disp EXCEPT ![d] = [disp[d] EXCEPT !.st = "abort"]]
    <3> DEFINE w == [disp[d] EXCEPT !.st = "abort"]
    <3>1. w \in DispStates /\ w.st = "abort" /\ w.now = disp[d].now /\ w.since = disp[d].since
      BY <1>d DEF DispStates, Owning
    <3> HIDE DEF w
    <3>2. disp' = [disp EXCEPT ![d] = w]
      BY <2>2 DEF w
    <3> QED
      BY <2>0, <3>1, <3>2, <1>3, <1>w
  <2>3. CASE disp' = [disp EXCEPT ![d] = [disp[d] EXCEPT !.st = "seal", !.since = clock, !.rc = 1]]
    BY <2>0, <2>3, <1>8
  <2> QED
    BY <1>9, <2>1, <2>2, <2>3 DEF Launch, Goto, Ends
<1>10. ASSUME NEW d \in Dispatchers, ChildEnded(d) \/ TimeOut(d) PROVE TimeInv'
  <2>1. /\ clock' = clock /\ disp[d].st = "waiting"
        /\ \E rc : disp' = [disp EXCEPT ![d] = [disp[d] EXCEPT !.st = "seal", !.since = clock, !.rc = rc]]
    BY <1>10 DEF ChildEnded, TimeOut, Ends
  <2> QED
    BY <2>1, <1>8
<1>11. ASSUME NEW d \in Dispatchers, Seal(d) PROVE TimeInv'
  <2>1. /\ clock' = clock /\ disp[d].st = "seal"
        /\ \/ disp' = [disp EXCEPT ![d] = Off]
           \/ \E rc : disp' = [disp EXCEPT ![d] = [Off EXCEPT !.st = "report", !.now = disp[d].now,
                                                            !.since = disp[d].since, !.rc = rc]]
    BY <1>11 DEF Seal
  <2>2. ASSUME NEW rc, disp' = [disp EXCEPT ![d] = [Off EXCEPT !.st = "report", !.now = disp[d].now,
                                                            !.since = disp[d].since, !.rc = rc]]
        PROVE  TimeInv'
    <3> DEFINE w == [Off EXCEPT !.st = "report", !.now = disp[d].now, !.since = disp[d].since, !.rc = rc]
    <3>1. w.st = "report" /\ w.now = disp[d].now /\ w.since = disp[d].since
      BY DEF Off
    <3> HIDE DEF w
    <3>2. disp' = [disp EXCEPT ![d] = w]
      BY <2>2 DEF w
    <3>3. InTime(w, clock)
      BY <2>1, <3>1, <1>d, <1>t DEF InTime
    <3> QED
      BY <2>1, <3>2, <3>3, <1>w
  <2> QED
    BY <2>1, <2>2, <1>w, <1>o
<1>12. ASSUME NEW d \in Dispatchers, Abort(d) \/ Report(d) \/ WriterTimeout(d) \/ Crash(d) PROVE TimeInv'
  BY <1>12, <1>w, <1>o DEF Abort, Report, WriterTimeout, Crash, Leave
<1>13. CASE Shutdown
  <2>1. clock' = clock /\ \A d \in Dispatchers : disp'[d] \in {Off, Idle}
    BY <1>13 DEF Shutdown
  <2> QED
    BY <2>1, <1>o DEF TimeInv, InTime
<1>14. CASE Tick
  <2>1. disp' = disp /\ clock' = clock + 1
    BY <1>14 DEF Tick
  <2>2. ASSUME NEW d \in Dispatchers PROVE InTime(disp[d], clock + 1)
    <3>1. MayWait(d)
      BY <1>14 DEF Tick
    <3>2. CASE disp[d].st \in {"idle", "off"}
      BY <3>2, <1>d, <1>t DEF InTime
    <3>3. CASE disp[d].st = "waiting"
      BY <3>1, <3>3, <1>d, <1>t DEF InTime, MayWait
    <3>4. CASE disp[d].st \notin {"idle", "off", "waiting"}
      BY <3>1, <3>4, <1>d, <1>t DEF InTime, MayWait
    <3> QED
      BY <3>2, <3>3, <3>4
  <2> QED
    BY <2>1, <2>2 DEF TimeInv, InTime
<1>15. ASSUME NEW c \in Writers, StartByHand(c) \/ CaptureStep(c) \/ ChildDies(c)
       PROVE  UNCHANGED <<disp, clock>>
  BY <1>15 DEF StartByHand, CaptureStep, EnterCapture, TakeWriter, ReadHead, Insert, SealCapture,
               LockTimeout, ChildDies
<1>16. UNCHANGED vars => UNCHANGED <<disp, clock>>
  BY DEF vars
<1> QED
  BY <1>1, <1>2, <1>4, <1>5, <1>6, <1>7, <1>9, <1>10, <1>11, <1>12, <1>13, <1>14, <1>15, <1>16
     DEF Next, DispatchStep

(* A started row changes when it is swept or when its owner settles it. *)
LEMMA StartedStep ==
  ASSUME TypeOK, [Next]_vars, NEW c \in Scheduled, row[c].state = "STARTED", row'[c] # row[c]
  PROVE  \E d \in Dispatchers : \/ Stale(c, disp[d].now)
                                \/ disp[d].st \in Owning /\ disp[d].cycle = c /\ disp'[d].st \notin Owning
<1> DEFINE Goal == \E d \in Dispatchers : \/ Stale(c, disp[d].now)
                                          \/ disp[d].st \in Owning /\ disp[d].cycle = c /\ disp'[d].st \notin Owning
<1>t. row = [b \in Scheduled |-> row[b]] /\ disp = [e \in Dispatchers |-> disp[e]]
  BY DEF TypeOK
<1>1. CASE UNCHANGED row
  BY <1>1
<1>2. ASSUME NEW d \in Dispatchers, Sweep(d) PROVE Goal
  BY <1>2 DEF Sweep
<1>3. ASSUME NEW d \in Dispatchers, Record(d) PROVE FALSE
  BY <1>3, <1>t DEF Record
<1>4. ASSUME NEW d \in Dispatchers, Abort(d) \/ Seal(d) PROVE Goal
  <2>1. /\ disp[d].st \in Owning /\ disp'[d].st \in {"off", "report"}
        /\ Finalize(disp[d].cycle, "FAIL") \/ Finalize(disp[d].cycle, "PASS")
    <3>1. CASE Abort(d)
      BY <3>1, <1>t DEF Abort, Leave, Off, Owning
    <3>2. CASE Seal(d)
      <4>1. disp[d].st = "seal" /\ (Finalize(disp[d].cycle, "FAIL") \/ Finalize(disp[d].cycle, "PASS"))
        BY <3>2 DEF Seal
      <4>2. \/ disp' = [disp EXCEPT ![d] = Off]
            \/ \E rc : disp' = [disp EXCEPT ![d] = [Off EXCEPT !.st = "report", !.now = disp[d].now,
                                                             !.since = disp[d].since, !.rc = rc]]
        BY <3>2 DEF Seal
      <4>3. disp'[d].st \in {"off", "report"}
        <5>1. CASE disp' = [disp EXCEPT ![d] = Off]
          BY <5>1, <1>t DEF Off
        <5>2. ASSUME NEW rc, disp' = [disp EXCEPT ![d] = [Off EXCEPT !.st = "report", !.now = disp[d].now,
                                                             !.since = disp[d].since, !.rc = rc]]
              PROVE  disp'[d].st = "report"
          BY <5>2, <1>t DEF Off
        <5> QED
          BY <4>2, <5>1, <5>2
      <4> QED
        BY <4>1, <4>3 DEF Owning
    <3> QED
      BY <1>4, <3>1, <3>2
  <2>2. disp[d].cycle = c
    BY <2>1, <1>t DEF Finalize
  <2> QED
    BY <2>1, <2>2 DEF Owning
<1>5. ASSUME NEW d \in Dispatchers,
             \/ Start(d) \/ Look(d) \/ Choose(d) \/ Launch(d) \/ ChildEnded(d) \/ TimeOut(d)
             \/ Report(d) \/ WriterTimeout(d) \/ Crash(d)
      PROVE  UNCHANGED row
  BY <1>5 DEF Start, Look, Choose, Launch, ChildEnded, TimeOut, Report, WriterTimeout, Crash
<1>6. ASSUME NEW b \in Writers, StartByHand(b) \/ CaptureStep(b) \/ ChildDies(b) PROVE UNCHANGED row
  BY <1>6 DEF StartByHand, CaptureStep, EnterCapture, TakeWriter, ReadHead, Insert, SealCapture,
              LockTimeout, ChildDies
<1>7. Shutdown \/ Tick \/ UNCHANGED vars => UNCHANGED row
  BY DEF Shutdown, Tick, vars
<1> QED
  BY <1>1, <1>2, <1>3, <1>4, <1>5, <1>6, <1>7 DEF Next, DispatchStep

(* With the margin, no sweep meets the row of a dispatcher that is alive. *)
LEMMA OwnedStep ==
  ASSUME ChildTimeout + 2 * Slack <= StaleAfter,
         TypeOK, AttemptInv, TimeInv, OwnedInv, [Next]_vars
  PROVE  OwnedInv'
<1> SUFFICES ASSUME NEW d \in Dispatchers, disp'[d].st \in Owning
             PROVE  row'[disp'[d].cycle].state = "STARTED" /\ row'[disp'[d].cycle].at = disp'[d].now
  BY DEF OwnedInv
<1> USE ConstantsAssumption
<1>1. CASE disp[d].st \in Owning /\ Keeps(d)
  <2> DEFINE c == disp[d].cycle
  <2>1. c \in Scheduled /\ row[c].state = "STARTED" /\ row[c].at = disp[d].now
    BY <1>1 DEF AttemptInv, OwnedInv
  <2>2. ASSUME NEW e \in Dispatchers PROVE ~Stale(c, disp[e].now)
    <3>1. disp[d].now \in Nat /\ disp[d].since \in Nat /\ disp[e].now \in Nat /\ clock \in Nat
      BY DispTimes DEF TypeOK
    <3>2. disp[e].now <= clock /\ InTime(disp[d], clock)
      BY DEF TimeInv, InTime
    <3>3. clock <= disp[d].now + ChildTimeout + 2 * Slack
      BY <1>1, <3>1, <3>2 DEF InTime, Owning
    <3> QED
      BY <2>1, <3>1, <3>2, <3>3 DEF Stale
  <2>3. ASSUME NEW e \in Dispatchers, disp[e].st \in Owning, disp[e].cycle = c PROVE disp'[e].st \in Owning
    <3>1. e = d
      BY <1>1, <2>3 DEF AttemptInv
    <3> QED
      BY <3>1
  <2>4. row'[c] = row[c]
    BY <2>1, <2>2, <2>3, StartedStep
  <2> QED
    BY <1>1, <2>1, <2>4 DEF Keeps
<1>2. CASE /\ disp[d].st = "record" /\ Keeps(d)
           /\ row' = [row EXCEPT ![disp[d].cycle] = [state |-> "STARTED", at |-> disp[d].now]]
  <2>1. disp[d].cycle \in Scheduled
    BY <1>2 DEF AttemptInv
  <2> QED
    BY <1>2, <2>1 DEF Keeps, TypeOK
<1> QED
  BY <1>1, <1>2, OwnStep DEF Keeps, Owning

(* "A STARTED row older than the separately configured stale threshold     *)
(* therefore represents a parent crash" (store.py:617-619) holds when the  *)
(* threshold leaves room, beyond the child's timeout, for what a           *)
(* dispatcher does before and after its child: the code only demands that  *)
(* the threshold exceed the timeout.                                       *)
THEOREM LiveAttemptsAreSafe ==
  ASSUME ChildTimeout + 2 * Slack <= StaleAfter
  PROVE  Spec => []LiveAttemptsStand
<1>1. Init => TimeInv /\ OwnedInv
  BY ConstantsAssumption DEF Init, TimeInv, OwnedInv, InTime, Idle, Off, Owning
<1>2. IInv /\ TimeInv /\ OwnedInv /\ [Next]_vars => (TimeInv /\ OwnedInv)'
  BY TimeStep, OwnedStep DEF IInv
<1>3. IInv /\ OwnedInv => LiveAttemptsStand
  BY DEF IInv, OwnedInv, LiveAttemptsStand, AttemptInv
<1> QED
  BY <1>1, <1>2, <1>3, Invariance, PTL DEF Spec
=============================================================================
