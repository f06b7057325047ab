----------------------------- MODULE CatchUpProofs -----------------------------
(***************************************************************************)
(* Safety of catch-up for any sectors, sessions, windows, thresholds and   *)
(* faults.                                                                 *)
(***************************************************************************)
EXTENDS CatchUp, TLAPS, FiniteSetTheorems, WellFoundedInduction

(* Lanes belong to a run, and the one that saves the file holds its lock.  *)
RunInv ==
    /\ ~run.on => \A s \in Sectors : lane[s] = NoLane
    /\ \A s \in Sectors : lane[s].st \in {"booksave", "tidysave"} => glock = s

Working == {"pre", "groups"}
Booking == {"book", "booksave"}
After == Booking \cup {"tidy", "tidysave", "done"}
InWindow(d) == WindowStart <= d /\ d < today

(* A lane's plan covers the window, and each session it planned is built,  *)
(* failed or left.                                                         *)
PlanInv(s) ==
    /\ lane[s].left \subseteq lane[s].dates /\ lane[s].failed \subseteq lane[s].dates
    /\ \A d \in lane[s].dates : d < today
    /\ lane[s].st \in Working \cup After =>
          \A d \in Days : InWindow(d) => d \in Complete(s) \cup lane[s].dates \cup lane[s].permanent
    /\ lane[s].st = "pre" => s \in Weekly
    /\ lane[s].st \in Working => lane[s].dates \subseteq Complete(s) \cup lane[s].left \cup lane[s].failed

(* What it reports. *)
ReportInv(s) ==
    lane[s].st \in After =>
        /\ s \notin Weekly \/ lane[s].status \in Accepted =>
              lane[s].dates \subseteq Complete(s) \cup lane[s].failed
        /\ lane[s].status \in Accepted =>
              today \in Complete(s) /\ (s \in Stamped => root[s] = today)
        /\ lane[s].st = "done" /\ lane[s].status \in {"PASS", "UP_TO_DATE"} => lane[s].failed = {}

(* Counts that reached the threshold are tombstones. *)
Formed(file) ==
    \A s \in Sectors, d \in Days : file[s][d].n = PermanentAfter => file[s][d].by # "nobody"

(* The file counts what was recorded, and so does a copy about to be saved. *)
Counts(file) == \A s \in Sectors \ Weekly, d \in Days : misses[s][d] <= file[s][d].n

MarkerInv ==
    /\ Formed(markers) /\ Formed(copy) /\ Formed(cli.copy)
    /\ Counts(markers)
    /\ glock # Nobody => Counts(copy)

(* A session whose artifact verifies has no failures to its name, and what *)
(* is tried may fail once more.                                            *)
MissInv ==
    /\ \A s \in Sectors : \A d \in good[s] : misses[s][d] = 0
    /\ run.from = 0 => \A s \in Sectors \ Weekly : lane[s].st \in Working \cup Booking =>
          \A d \in lane[s].dates : misses[s][d] < PermanentAfter

IInv ==
    /\ TypeOK /\ RunInv
    /\ \A s \in Sectors : PlanInv(s) /\ ReportInv(s)
    /\ MarkerInv /\ MissInv

-----------------------------------------------------------------------------
(* Groups of sessions *)

LEMMA LeastIn ==
  ASSUME NEW S \in SUBSET Nat, S # {}
  PROVE  \E n \in S : \A k \in S : n <= k
<1> DEFINE R == OpToRel(<, Nat)
<1>1. IsWellFoundedOn(R, Nat)
  BY NatLessThanWellFounded
<1>2. R = {pair \in Nat \X Nat : pair[1] < pair[2]}
  BY Zenon DEF R, OpToRel
<1>3. \A x, y \in Nat : x < y => <<x, y>> \in R
  BY <1>2
<1> HIDE DEF R
<1>4. PICK n \in S : \A k \in S : ~(<<k, n>> \in R)
  BY <1>1, WFMin
<1>5. ASSUME NEW k \in S PROVE n <= k
  <2> SUFFICES ASSUME k < n PROVE FALSE
    OBVIOUS
  <2>1. <<k, n>> \in R
    BY <1>3
  <2> QED
    BY <2>1, <1>4
<1> QED
  BY <1>5

(* The latest session of a group is one of them. *)
LEMMA LatestIn ==
  ASSUME NEW S \in SUBSET Days, S # {}
  PROVE  Latest(S) \in S
<1> DEFINE T == {k \in Nat : \E d \in S : k = LastDay - d}
<1>0. \A d \in S : d \in Nat /\ LastDay - d \in Nat
  BY CatchUpAssumption DEF Days
<1>1. T \in SUBSET Nat /\ T # {}
  BY <1>0
<1> HIDE DEF T
<1>2. PICK n \in T : \A k \in T : n <= k
  BY <1>1, LeastIn
<1> USE DEF T
<1>3. PICK d \in S : n = LastDay - d
  BY <1>2
<1>4. ASSUME NEW e \in S PROVE e <= d
  <2>1. n <= LastDay - e
    BY <1>0, <1>2
  <2> QED
    BY <2>1, <1>0, <1>3, CatchUpAssumption
<1> QED
  BY <1>4 DEF Latest

(* The sessions before d are fewer than d. *)
LEMMA EarlierFew ==
  ASSUME NEW S \in SUBSET Days, NEW d \in S
  PROVE  Cardinality({e \in S : e < d}) \in Nat /\ Cardinality({e \in S : e < d}) < LastDay
<1>1. IsFiniteSet(1 .. d - 1) /\ Cardinality(1 .. d - 1) = d - 1
  BY FS_Interval DEF Days
<1>2. {e \in S : e < d} \in SUBSET (1 .. d - 1)
  <2>1. \A e \in S : e \in Nat /\ 1 <= e
    BY CatchUpAssumption DEF Days
  <2>2. ASSUME NEW e \in S, e < d PROVE e \in 1 .. d - 1
    BY <2>1, <2>2
  <2> QED
    BY <2>2, Zenon
<1>3. Cardinality({e \in S : e < d}) <= d - 1 /\ IsFiniteSet({e \in S : e < d})
  BY <1>1, <1>2, FS_Subset
<1>4. Cardinality({e \in S : e < d}) \in Nat
  BY <1>3, FS_CardinalityType
<1> QED
  BY <1>3, <1>4, CatchUpAssumption DEF Days

(* A group is a part of what is left, and not an empty one; a backfill     *)
(* that covers the target takes all of it.                                 *)
LEMMA GroupPart ==
  ASSUME TypeOK, NEW s \in Sectors
  PROVE  /\ Group(s) \subseteq lane[s].left
         /\ lane[s].left # {} => Group(s) # {}
         /\ s \in Covers => Group(s) = lane[s].left
<1>0. lane[s].left \in SUBSET Days /\ GroupSize[s] \in Nat \ {0}
  BY CatchUpAssumption DEF TypeOK, LaneStates
<1>1. ASSUME lane[s].left # {} PROVE Group(s) # {}
  <2>1. PICK d \in lane[s].left : \A e \in lane[s].left : d <= e
    BY <1>0, <1>1, LeastIn DEF Days
  <2>2. {e \in lane[s].left : e < d} = {}
    BY <1>0, <2>1 DEF Days
  <2>3. Cardinality({e \in lane[s].left : e < d}) = 0
    BY <2>2, FS_EmptySet
  <2> QED
    BY <1>0, <2>3 DEF Group
<1>2. ASSUME s \in Covers PROVE Group(s) = lane[s].left
  <2>1. GroupSize[s] >= LastDay
    BY <1>2, CatchUpAssumption
  <2>2. \A d \in lane[s].left : Cardinality({e \in lane[s].left : e < d}) < GroupSize[s]
    BY <1>0, <2>1, EarlierFew, CatchUpAssumption
  <2> QED
    BY <2>2 DEF Group
<1> QED
  BY <1>1, <1>2 DEF Group

LEMMA EndingType ==
  ASSUME TypeOK, NEW s \in Sectors, lane[s].left # {}
  PROVE  Ending(s, Group(s)) \in Days
<1>1. lane[s].left \in SUBSET Days /\ today \in Days
  BY DEF TypeOK, LaneStates
<1>2. Group(s) \in SUBSET Days /\ Group(s) # {}
  BY <1>1, GroupPart
<1> QED
  BY <1>1, <1>2, LatestIn DEF Ending

LEMMA RebuiltType ==
  ASSUME TypeOK, NEW s \in Sectors
  PROVE  Rebuilt(s, Group(s)) \in SUBSET Days /\ {today} \in SUBSET Days
<1>1. lane[s].left \in SUBSET Days /\ today \in Days
  BY DEF TypeOK, LaneStates
<1> QED
  BY <1>1, GroupPart DEF Rebuilt

-----------------------------------------------------------------------------
(* Types *)

LEMMA LaneType ==
  ASSUME TypeOK, NEW s \in Sectors, NEW w \in LaneStates, SetLane(s, w)
  PROVE  lane' \in [Sectors -> LaneStates]
BY DEF TypeOK, SetLane

(* What the bookkeeping writes. *)
LEMMA RecordType ==
  ASSUME NEW rec \in Record
  PROVE  Failed(rec) \in Record /\ NoRecord \in Record
BY CatchUpAssumption DEF Record, Failed, Lesser, NoRecord

LEMMA BookedType ==
  ASSUME TypeOK, NEW s \in Sectors
  PROVE  Booked(s) \in [Days -> Record]
<1> SUFFICES ASSUME NEW d \in Days PROVE Booked(s)[d] \in Record
  BY DEF Booked
<1>1. copy[s][d] \in Record
  BY DEF TypeOK, Files
<1>2. Failed(copy[s][d]) \in Record /\ NoRecord \in Record
  BY <1>1, RecordType
<1> QED
  BY <1>1, <1>2 DEF Booked

LEMMA TallyType ==
  ASSUME TypeOK, NEW s \in Sectors
  PROVE  Tally(s) \in [Days -> 0 .. PermanentAfter + 1]
<1>1. \A q \in Sectors, d \in Days : misses[q][d] \in 0 .. PermanentAfter + 1
  BY DEF TypeOK
<1>2. \A d \in Days : Lesser(misses[s][d] + 1, PermanentAfter + 1) \in 0 .. PermanentAfter + 1
  BY <1>1, CatchUpAssumption DEF Lesser
<1> QED
  BY <1>1, <1>2 DEF Tally

(* Commands change what is published of the sessions they rebuild, and     *)
(* forgive the failures of those whose artifact verifies.                  *)
LEMMA RebuildType ==
  ASSUME TypeOK, NEW s \in Sectors, NEW D \in SUBSET Days, NEW ends \in SUBSET (0 .. LastDay),
         Rebuild(s, D, ends)
  PROVE  /\ good' \in [Sectors -> SUBSET Days] /\ healthy' \in [Sectors -> SUBSET Days]
         /\ root' \in [Sectors -> 0 .. LastDay]
         /\ misses' \in [Sectors -> [Days -> 0 .. PermanentAfter + 1]]
<1>1. PICK built \in SUBSET D : good' = [good EXCEPT ![s] = (@ \ D) \cup built]
  BY DEF Rebuild
<1>2. PICK passed \in SUBSET D : healthy' = [healthy EXCEPT ![s] = (@ \ D) \cup passed]
  BY DEF Rebuild
<1>3. good' \in [Sectors -> SUBSET Days] /\ healthy' \in [Sectors -> SUBSET Days]
  BY <1>1, <1>2 DEF TypeOK
<1>4. root' \in [Sectors -> 0 .. LastDay]
  BY DEF Rebuild, TypeOK
<1>5. [d \in Days |-> IF d \in good'[s] THEN 0 ELSE misses[s][d]] \in [Days -> 0 .. PermanentAfter + 1]
  <2>1. \A d \in Days : misses[s][d] \in 0 .. PermanentAfter + 1 /\ 0 \in 0 .. PermanentAfter + 1
    BY CatchUpAssumption DEF TypeOK
  <2> QED
    BY <2>1
<1>6. misses' \in [Sectors -> [Days -> 0 .. PermanentAfter + 1]]
  BY <1>5 DEF Rebuild, TypeOK
<1> QED
  BY <1>3, <1>4, <1>6

LEMMA RebuildEffect ==
  ASSUME TypeOK, NEW s \in Sectors, NEW D \in SUBSET Days, NEW ends, Rebuild(s, D, ends)
  PROVE  /\ \A d \in Days \ D : d \in Complete(s)' <=> d \in Complete(s)
         /\ \A q \in Sectors \ {s} : /\ good'[q] = good[q] /\ healthy'[q] = healthy[q]
                                     /\ root'[q] = root[q] /\ misses'[q] = misses[q]
         /\ \A d \in Days : misses'[s][d] = IF d \in good'[s] THEN 0 ELSE misses[s][d]
<1>1. PICK built \in SUBSET D : good' = [good EXCEPT ![s] = (@ \ D) \cup built]
  BY DEF Rebuild
<1>2. PICK passed \in SUBSET D : healthy' = [healthy EXCEPT ![s] = (@ \ D) \cup passed]
  BY DEF Rebuild
<1>3. good'[s] = (good[s] \ D) \cup built /\ healthy'[s] = (healthy[s] \ D) \cup passed
  BY <1>1, <1>2 DEF TypeOK
<1>4. \A d \in Days \ D : d \in Complete(s)' <=> d \in Complete(s)
  BY <1>3 DEF Complete
<1>5. ASSUME NEW q \in Sectors \ {s}
      PROVE  good'[q] = good[q] /\ healthy'[q] = healthy[q] /\ root'[q] = root[q] /\ misses'[q] = misses[q]
  BY <1>1, <1>2 DEF Rebuild, TypeOK
<1>6. misses'[s] = [d \in Days |-> IF d \in good'[s] THEN 0 ELSE misses[s][d]]
  BY DEF Rebuild, TypeOK
<1> QED
  BY <1>4, <1>5, <1>6

LEMMA EndsType ==
  ASSUME NEW w \in LaneStates, NEW status \in Accepted \cup {"UNKNOWN", "FAIL"}
  PROVE  Ends(w, status) \in LaneStates
BY DEF Ends, LaneStates

LEMMA FileType ==
  ASSUME NEW file \in Files, NEW s \in Sectors, NEW f \in [Days -> Record]
  PROVE  [file EXCEPT ![s] = f] \in Files
BY DEF Files

(* The operator's file is the one that was loaded, with one record changed. *)
LEMMA CliWrites ==
  ASSUME TypeOK, CliSave
  PROVE  /\ markers' = [q \in Sectors |-> [d \in Days |-> markers'[q][d]]]
         /\ \A q \in Sectors, d \in Days :
               markers'[q][d] \in {cli.copy[q][d], [cli.copy[q][d] EXCEPT !.by = "operator"], NoRecord}
<1> DEFINE rec == IF cli.op = "mark" THEN [cli.copy[cli.sector][cli.day] EXCEPT !.by = "operator"]
                  ELSE NoRecord
           file == [cli.copy[cli.sector] EXCEPT ![cli.day] = rec]
<1>1. markers' = [cli.copy EXCEPT ![cli.sector] = file]
  BY DEF CliSave
<1>2. cli.copy \in [Sectors -> [Days -> Record]]
  BY DEF TypeOK, Files
<1>3. ASSUME NEW q \in Sectors
      PROVE  /\ markers'[q] = [d \in Days |-> markers'[q][d]]
             /\ \A d \in Days :
                   markers'[q][d] \in {cli.copy[q][d], [cli.copy[q][d] EXCEPT !.by = "operator"], NoRecord}
  <2>1. CASE q = cli.sector
    <3>1. markers'[q] = [cli.copy[q] EXCEPT ![cli.day] = rec]
      BY <1>1, <1>2, <2>1
    <3>2. rec \in {[cli.copy[q][cli.day] EXCEPT !.by = "operator"], NoRecord}
      BY <2>1
    <3> HIDE DEF rec
    <3>3. cli.copy[q] \in [Days -> Record]
      BY <1>2
    <3>4. \A d \in Days : markers'[q][d] = IF d = cli.day THEN rec ELSE cli.copy[q][d]
      BY <3>1, <3>3
    <3>5. markers'[q] = [d \in Days |-> markers'[q][d]]
      BY <3>1, <3>3
    <3> QED
      BY <3>2, <3>4, <3>5
  <2>2. CASE q # cli.sector
    <3>1. markers'[q] = cli.copy[q] /\ cli.copy[q] \in [Days -> Record]
      BY <1>1, <1>2, <2>2
    <3> QED
      BY <3>1
  <2> QED
    BY <2>1, <2>2
<1>4. markers' = [q \in Sectors |-> markers'[q]]
  BY <1>1, <1>2
<1> QED
  BY <1>3, <1>4

LEMMA NoneTypes == NoFile \in Files /\ NoLane \in LaneStates /\ NoRecord \in Record
<1>1. NoRecord \in Record
  BY CatchUpAssumption DEF NoRecord, Record
<1>2. NoFile \in Files
  BY <1>1 DEF NoFile, Files
<1>3. NoLane \in LaneStates
  BY DEF NoLane, LaneStates
<1> QED
  BY <1>1, <1>2, <1>3

LEMMA TypeInit == Init => TypeOK
<1> SUFFICES ASSUME Init PROVE TypeOK
  OBVIOUS
<1> USE CatchUpAssumption
<1>1. /\ today \in Days /\ root \in [Sectors -> 0 .. LastDay]
      /\ good \in [Sectors -> SUBSET Days] /\ healthy \in [Sectors -> SUBSET Days]
  BY DEF Init, Days
<1>2. misses \in [Sectors -> [Days -> 0 .. PermanentAfter + 1]] /\ faults \in 0 .. MaxFaults
  BY DEF Init
<1>3. run \in [on : BOOLEAN, from : Froms \cup {0}, weekly : BOOLEAN] /\ glock \in Sectors \cup {Nobody}
  BY DEF Init, NoRun
<1>4. markers \in Files /\ copy \in Files /\ lane \in [Sectors -> LaneStates]
  BY NoneTypes DEF Init
<1>5. cli \in [op : {"none", "mark", "clear"}, sector : Sectors \cup {Nobody}, day : 0 .. LastDay,
               copy : Files]
  BY NoneTypes DEF Init, NoCli
<1> QED
  BY <1>1, <1>2, <1>3, <1>4, <1>5 DEF TypeOK

LEMMA TypeStep == TypeOK /\ [Next]_vars => TypeOK'
<1> SUFFICES ASSUME TypeOK, [Next]_vars PROVE TypeOK'
  OBVIOUS
<1> USE CatchUpAssumption DEF diskVars
<1>types. \A s \in Sectors : lane[s] \in LaneStates
  BY DEF TypeOK
<1>1. ASSUME NEW s \in Sectors, Plan(s) PROVE TypeOK'
  <2>1. PICK w \in LaneStates : SetLane(s, w)
    <3>1. Actionable(s) \subseteq Days
      BY DEF Actionable
    <3> QED
      BY <1>1, <3>1 DEF Plan, NoLane, LaneStates
  <2>2. lane' \in [Sectors -> LaneStates]
    BY <2>1, LaneType
  <2> QED
    BY <1>1, <2>2 DEF Plan, TypeOK
<1>2. ASSUME NEW s \in Sectors, Prerequisite(s) PROVE TypeOK'
  <2>1. PICK w \in LaneStates : SetLane(s, w)
    <3>1. [lane[s] EXCEPT !.st = "groups"] \in LaneStates
      BY <1>types DEF LaneStates
    <3>2. Ends(lane[s], "FAIL") \in LaneStates
      BY <1>types, EndsType
    <3> QED
      BY <1>2, <3>1, <3>2 DEF Prerequisite
  <2>2. lane' \in [Sectors -> LaneStates]
    BY <2>1, LaneType
  <2> QED
    BY <1>2, <2>2 DEF Prerequisite, TypeOK
<1>ends. \A s \in Sectors : root[s] \in 0 .. LastDay /\ today \in 0 .. LastDay /\ 0 \in 0 .. LastDay
                           /\ Days \subseteq 0 .. LastDay
  BY DEF TypeOK, Days
<1>rebuilt. ASSUME NEW s \in Sectors, NEW D \in SUBSET Days, NEW ends \in SUBSET (0 .. LastDay),
                   Rebuild(s, D, ends), NEW w \in LaneStates, SetLane(s, w),
                   UNCHANGED <<today, markers, run, glock, copy, cli, faults>>
            PROVE  TypeOK'
  <2>1. lane' \in [Sectors -> LaneStates]
    BY <1>rebuilt, LaneType
  <2>2. /\ good' \in [Sectors -> SUBSET Days] /\ healthy' \in [Sectors -> SUBSET Days]
        /\ root' \in [Sectors -> 0 .. LastDay]
        /\ misses' \in [Sectors -> [Days -> 0 .. PermanentAfter + 1]]
    BY <1>rebuilt, RebuildType
  <2> QED
    BY <1>rebuilt, <2>1, <2>2 DEF TypeOK
<1>3. ASSUME NEW s \in Sectors, BackfillOk(s) PROVE TypeOK'
  <2> DEFINE G == Group(s)
             w == [lane[s] EXCEPT !.left = @ \ G, !.failed = @ \cup {d \in G : ~Stands(s, d)'}]
             D == Rebuilt(s, G)
             ends == {Ending(s, G), 0}
  <2>1. G \subseteq Days /\ D \in SUBSET Days
    BY <1>types, GroupPart, RebuiltType DEF LaneStates
  <2>2. w \in LaneStates
    BY <1>types, <2>1 DEF LaneStates
  <2>3. Ending(s, G) \in Days
    BY <1>3, EndingType DEF BackfillOk
  <2>4. ends \in SUBSET (0 .. LastDay)
    BY <2>3, <1>ends
  <2>5. /\ Rebuild(s, D, ends) /\ SetLane(s, w)
        /\ UNCHANGED <<today, markers, run, glock, copy, cli, faults>>
    BY <1>3 DEF BackfillOk
  <2> HIDE DEF G, w, D, ends
  <2> QED
    BY <2>1, <2>2, <2>4, <2>5, <1>rebuilt
<1>4. ASSUME NEW s \in Sectors, BackfillFails(s) PROVE TypeOK'
  <2> DEFINE G == Group(s)
             w == [lane[s] EXCEPT !.left = @ \ G, !.failed = @ \cup G]
             D == Rebuilt(s, G)
             ends == {root[s], 0} \cup D
             v == IF s \in Covers THEN Ends(w, "FAIL") ELSE w
  <2>1. G \subseteq Days /\ D \in SUBSET Days
    BY <1>types, GroupPart, RebuiltType DEF LaneStates
  <2>2. w \in LaneStates
    BY <1>types, <2>1 DEF LaneStates
  <2>3. v \in LaneStates
    BY <2>2, EndsType
  <2>4. ends \in SUBSET (0 .. LastDay)
    BY <2>1, <1>ends
  <2>5. /\ Rebuild(s, D, ends) /\ SetLane(s, v)
        /\ UNCHANGED <<today, markers, run, glock, copy, cli, faults>>
    BY <1>4 DEF BackfillFails
  <2> HIDE DEF G, w, D, ends, v
  <2> QED
    BY <2>1, <2>3, <2>4, <2>5, <1>rebuilt
<1>5. ASSUME NEW s \in Sectors, Target(s) PROVE TypeOK'
  <2>1. PICK status \in Accepted \cup {"UNKNOWN", "FAIL"} : SetLane(s, Ends(lane[s], status))
    BY <1>5 DEF Target, Accepted
  <2>2. Ends(lane[s], status) \in LaneStates
    BY <1>types, EndsType
  <2>3. lane' \in [Sectors -> LaneStates]
    BY <2>1, <2>2, LaneType
  <2>4. UNCHANGED <<today, markers, run, glock, copy, cli, faults>>
    BY <1>5 DEF Target
  <2>5. CASE \E ends \in SUBSET (0 .. LastDay) : Rebuild(s, {today}, ends)
    BY <2>1, <2>2, <2>4, <2>5, <1>rebuilt, RebuiltType
  <2>6. CASE UNCHANGED <<good, healthy, root, misses>>
    BY <2>3, <2>4, <2>6 DEF TypeOK
  <2> QED
    <3>1. {today, 0} \in SUBSET (0 .. LastDay) /\ {root[s], 0, today} \in SUBSET (0 .. LastDay)
      BY <1>ends
    <3> QED
      BY <1>5, <2>5, <2>6, <3>1 DEF Target
<1>6. ASSUME NEW s \in Sectors, BookLoad(s) \/ TidyLoad(s) PROVE TypeOK'
  <2>1. /\ [lane[s] EXCEPT !.st = "booksave"] \in LaneStates
        /\ [lane[s] EXCEPT !.st = "tidysave"] \in LaneStates
    BY <1>types DEF LaneStates
  <2>2. lane' \in [Sectors -> LaneStates]
    BY <1>6, <2>1, LaneType DEF BookLoad, TidyLoad
  <2> QED
    BY <1>6, <2>2 DEF BookLoad, TidyLoad, Load, TypeOK
<1>7. ASSUME NEW s \in Sectors, BookSave(s) PROVE TypeOK'
  <2>1. [lane[s] EXCEPT !.st = "tidy"] \in LaneStates
    BY <1>types DEF LaneStates
  <2>2. lane' \in [Sectors -> LaneStates]
    BY <1>7, <2>1, LaneType DEF BookSave
  <2>3. markers' \in Files
    BY <1>7, BookedType, FileType DEF BookSave, TypeOK
  <2>4. misses' \in [Sectors -> [Days -> 0 .. PermanentAfter + 1]]
    BY <1>7, TallyType DEF BookSave, TypeOK
  <2> QED
    BY <1>7, <2>2, <2>3, <2>4, NoneTypes DEF BookSave, TypeOK
<1>8. ASSUME NEW s \in Sectors, TidySave(s) PROVE TypeOK'
  <2>1. FinalStatus(lane[s]) \in Accepted \cup {"UNKNOWN", "FAIL"}
    BY <1>types DEF FinalStatus, LaneStates, Accepted
  <2>2. [lane[s] EXCEPT !.st = "done", !.status = FinalStatus(lane[s])] \in LaneStates
    BY <1>types, <2>1 DEF LaneStates
  <2>3. lane' \in [Sectors -> LaneStates]
    BY <1>8, <2>2, LaneType DEF TidySave
  <2>4. [d \in Days |-> IF d \in Resolved(s) THEN NoRecord ELSE copy[s][d]] \in [Days -> Record]
    BY NoneTypes DEF TypeOK, Files
  <2>5. markers' \in Files
    BY <1>8, <2>4, FileType DEF TidySave, TypeOK
  <2> QED
    BY <1>8, <2>3, <2>5, NoneTypes DEF TidySave, TypeOK
<1>9. ASSUME StartRun PROVE TypeOK'
  <2>1. [NoLane EXCEPT !.st = "plan"] \in LaneStates
    BY DEF NoLane, LaneStates
  <2>2. lane' \in [Sectors -> LaneStates]
    BY <1>9, <2>1 DEF StartRun
  <2>3. run' \in [on : BOOLEAN, from : Froms \cup {0}, weekly : BOOLEAN]
    BY <1>9 DEF StartRun
  <2>4. UNCHANGED <<today, good, healthy, root, markers, glock, copy, cli, misses, faults>>
    BY <1>9 DEF StartRun
  <2> QED
    BY <2>2, <2>3, <2>4 DEF TypeOK
<1>10. ASSUME EndRun \/ Crash PROVE TypeOK'
  <2>1. lane' \in [Sectors -> LaneStates] /\ NoRun \in [on : BOOLEAN, from : Froms \cup {0}, weekly : BOOLEAN]
    BY <1>10, NoneTypes DEF EndRun, Crash, NoRun
  <2>2. faults' \in 0 .. MaxFaults
    BY <1>10 DEF EndRun, Crash, Fault, TypeOK
  <2>3. glock' \in Sectors \cup {Nobody} /\ copy' \in Files /\ run' = NoRun
    BY <1>10, NoneTypes DEF EndRun, Crash, TypeOK
  <2>4. UNCHANGED <<today, good, healthy, root, markers, cli, misses>>
    BY <1>10 DEF EndRun, Crash
  <2>5. run' \in [on : BOOLEAN, from : Froms \cup {0}, weekly : BOOLEAN]
    BY <2>1, <2>3
  <2>6. cli' \in [op : {"none", "mark", "clear"}, sector : Sectors \cup {Nobody}, day : 0 .. LastDay,
                  copy : Files]
    BY <2>4 DEF TypeOK
  <2> QED
    BY <2>1, <2>2, <2>3, <2>4, <2>5, <2>6 DEF TypeOK
<1>11. ASSUME NextDay PROVE TypeOK'
  BY <1>11 DEF NextDay, TypeOK, Days
<1>12. ASSUME NEW s \in Sectors, NEW d \in Days, Spoil(s, d) PROVE TypeOK'
  <2>1. good' \in [Sectors -> SUBSET Days] /\ healthy' \in [Sectors -> SUBSET Days]
    BY <1>12 DEF Spoil, TypeOK
  <2> QED
    BY <1>12, <2>1 DEF Spoil, Fault, TypeOK
<1>13. ASSUME NEW s \in Sectors, NEW d \in OperatorDays, NEW op \in {"mark", "clear"}, CliLoad(op, s, d)
       PROVE TypeOK'
  <2>1. cli' \in [op : {"none", "mark", "clear"}, sector : Sectors \cup {Nobody}, day : 0 .. LastDay,
                  copy : Files]
    BY <1>13 DEF CliLoad, TypeOK, Days
  <2> QED
    BY <1>13, <2>1 DEF CliLoad, Fault, TypeOK
<1>14. ASSUME CliSave PROVE TypeOK'
  <2>1. misses' \in [Sectors -> [Days -> 0 .. PermanentAfter + 1]]
    BY <1>14 DEF CliSave
  <2>2. NoCli \in [op : {"none", "mark", "clear"}, sector : Sectors \cup {Nobody}, day : 0 .. LastDay,
                   copy : Files]
    BY NoneTypes DEF NoCli
  <2>3. markers' \in Files
    <3>1. ASSUME NEW q \in Sectors, NEW d \in Days PROVE markers'[q][d] \in Record
      <4>1. cli.copy[q][d] \in Record
        BY DEF TypeOK, Files
      <4>2. [cli.copy[q][d] EXCEPT !.by = "operator"] \in Record
        BY <4>1 DEF Record
      <4> QED
        BY <4>1, <4>2, <1>14, NoneTypes, CliWrites
    <3> QED
      BY <1>14, <3>1, CliWrites DEF Files
  <2> QED
    BY <1>14, <2>1, <2>2, <2>3 DEF CliSave, TypeOK
<1>15. CASE UNCHANGED vars
  BY <1>15 DEF vars, TypeOK
<1> QED
  BY <1>1, <1>2, <1>3, <1>4, <1>5, <1>6, <1>7, <1>8, <1>9, <1>10, <1>11, <1>12, <1>13, <1>14, <1>15
     DEF Next, LaneStep

-----------------------------------------------------------------------------
(* Lanes *)

(* A lane leaves the state of other sectors alone. *)
LEMMA Others ==
  ASSUME TypeOK, NEW s \in Sectors, LaneStep(s)
  PROVE  /\ UNCHANGED <<today, run, cli>>
         /\ \A q \in Sectors \ {s} :
               /\ lane'[q] = lane[q] /\ good'[q] = good[q] /\ healthy'[q] = healthy[q]
               /\ root'[q] = root[q] /\ misses'[q] = misses[q]
<1>0. lane \in [Sectors -> LaneStates]
  BY DEF TypeOK
<1>rebuilt. ASSUME NEW D \in SUBSET Days, NEW ends, Rebuild(s, D, ends), NEW q \in Sectors \ {s}
            PROVE  /\ good'[q] = good[q] /\ healthy'[q] = healthy[q]
                   /\ root'[q] = root[q] /\ misses'[q] = misses[q]
  BY <1>rebuilt, RebuildEffect
<1>days. Rebuilt(s, Group(s)) \in SUBSET Days /\ {today} \in SUBSET Days
  BY RebuiltType
<1> USE DEF diskVars, SetLane
<1>1. CASE Plan(s) \/ Prerequisite(s)
  BY <1>0, <1>1 DEF Plan, Prerequisite
<1>2. CASE BackfillOk(s)
  BY <1>2, <1>0, <1>days, <1>rebuilt DEF BackfillOk
<1>3. CASE BackfillFails(s)
  BY <1>3, <1>0, <1>days, <1>rebuilt DEF BackfillFails
<1>4. CASE Target(s)
  BY <1>4, <1>0, <1>days, <1>rebuilt DEF Target
<1>5. CASE BookLoad(s) \/ TidyLoad(s)
  BY <1>0, <1>5 DEF BookLoad, TidyLoad
<1>6. CASE BookSave(s) \/ TidySave(s)
  BY <1>0, <1>6 DEF BookSave, TidySave, TypeOK
<1> QED
  BY <1>1, <1>2, <1>3, <1>4, <1>5, <1>6 DEF LaneStep

(* The lane that an action moves, and where to. *)
LEMMA Moves ==
  ASSUME TypeOK, NEW s \in Sectors
  PROVE  /\ Plan(s) => lane[s].st = "plan" /\ lane'[s].st \in Working
         /\ Prerequisite(s) => lane[s].st = "pre" /\ lane'[s].st \in {"groups", "tidy", "book"}
         /\ BackfillOk(s) => lane[s].st = "groups" /\ lane'[s].st = "groups"
         /\ BackfillFails(s) => lane[s].st = "groups" /\ lane'[s].st \in {"groups", "tidy", "book"}
         /\ Target(s) => lane[s].st = "groups" /\ lane'[s].st \in {"tidy", "book"}
         /\ BookLoad(s) => lane[s].st = "book" /\ lane'[s].st = "booksave"
         /\ BookSave(s) => lane[s].st = "booksave" /\ lane'[s].st = "tidy"
         /\ TidyLoad(s) => lane[s].st = "tidy" /\ lane'[s].st = "tidysave"
         /\ TidySave(s) => lane[s].st = "tidysave" /\ lane'[s].st = "done"
<1>0. lane \in [Sectors -> LaneStates]
  BY DEF TypeOK
<1> USE <1>0 DEF SetLane, LaneStates
<1>1. Plan(s) => lane[s].st = "plan" /\ lane'[s].st \in Working
  BY DEF Plan, NoLane, Working
<1>2. Prerequisite(s) => lane[s].st = "pre" /\ lane'[s].st \in {"groups", "tidy", "book"}
  BY DEF Prerequisite, Ends
<1>3. BackfillOk(s) => lane[s].st = "groups" /\ lane'[s].st = "groups"
  BY DEF BackfillOk
<1>4. BackfillFails(s) => lane[s].st = "groups" /\ lane'[s].st \in {"groups", "tidy", "book"}
  BY DEF BackfillFails, Ends
<1>5. Target(s) => lane[s].st = "groups" /\ lane'[s].st \in {"tidy", "book"}
  <2> SUFFICES ASSUME Target(s) PROVE lane[s].st = "groups" /\ lane'[s].st \in {"tidy", "book"}
    OBVIOUS
  <2>1. lane[s].st = "groups" /\ \E status \in Accepted \cup {"FAIL"} : lane' = [lane EXCEPT ![s] = Ends(lane[s], status)]
    BY DEF Target, Accepted
  <2> QED
    BY <2>1 DEF Ends
<1>6. BookLoad(s) => lane[s].st = "book" /\ lane'[s].st = "booksave"
  BY DEF BookLoad
<1>7. BookSave(s) => lane[s].st = "booksave" /\ lane'[s].st = "tidy"
  BY DEF BookSave
<1>8. TidyLoad(s) => lane[s].st = "tidy" /\ lane'[s].st = "tidysave"
  BY DEF TidyLoad
<1>9. TidySave(s) => lane[s].st = "tidysave" /\ lane'[s].st = "done"
  BY DEF TidySave
<1> QED
  BY <1>1, <1>2, <1>3, <1>4, <1>5, <1>6, <1>7, <1>8, <1>9

LEMMA RunStep == TypeOK /\ RunInv /\ [Next]_vars => RunInv'
<1> SUFFICES ASSUME TypeOK, RunInv, [Next]_vars PROVE RunInv'
  OBVIOUS
<1> DEFINE Saving == {"booksave", "tidysave"}
<1>1. ASSUME NEW s \in Sectors, LaneStep(s) PROVE RunInv'
  <2>1. run.on /\ run' = run
    <3>1. lane[s].st # "off"
      BY <1>1, Moves DEF LaneStep
    <3> QED
      BY <1>1, <3>1, Others DEF RunInv, NoLane
  <2>2. \A q \in Sectors \ {s} : lane'[q] = lane[q]
    BY <1>1, Others
  <2>3. CASE BookLoad(s) \/ TidyLoad(s)
    <3>1. glock = Nobody /\ glock' = s
      BY <2>3 DEF BookLoad, TidyLoad, Load
    <3> QED
      BY <2>1, <2>2, <3>1, CatchUpAssumption DEF RunInv
  <2>4. CASE BookSave(s) \/ TidySave(s)
    <3>1. lane[s].st \in Saving /\ lane'[s].st \notin Saving
      BY <2>4, Moves
    <3>2. glock = s
      BY <3>1 DEF RunInv
    <3> QED
      BY <2>1, <2>2, <3>1, <3>2 DEF RunInv
  <2>5. CASE Plan(s) \/ Prerequisite(s) \/ BackfillOk(s) \/ BackfillFails(s) \/ Target(s)
    <3>1. lane'[s].st \notin Saving
      BY <2>5, Moves DEF Working
    <3>2. glock' = glock
      BY <2>5 DEF Plan, Prerequisite, BackfillOk, BackfillFails, Target
    <3> QED
      BY <2>1, <2>2, <3>1, <3>2 DEF RunInv
  <2> QED
    BY <1>1, <2>3, <2>4, <2>5 DEF LaneStep
<1>2. ASSUME StartRun \/ EndRun \/ Crash PROVE RunInv'
  <2>1. CASE StartRun
    <3>1. run'.on /\ \A s \in Sectors : lane'[s].st = "plan"
      BY <2>1 DEF StartRun, NoLane
    <3> QED
      BY <3>1 DEF RunInv
  <2>2. CASE EndRun \/ Crash
    <3>1. \A s \in Sectors : lane'[s] = NoLane
      BY <2>2 DEF EndRun, Crash
    <3>2. NoLane.st = "off"
      BY DEF NoLane
    <3> QED
      BY <3>1, <3>2 DEF RunInv
  <2> QED
    BY <1>2, <2>1, <2>2
<1>3. ASSUME NextDay \/ CliSave \/ (\E s \in Sectors, d \in Days : Spoil(s, d))
             \/ (\E s \in Sectors, d \in OperatorDays, op \in {"mark", "clear"} : CliLoad(op, s, d))
             \/ UNCHANGED vars
      PROVE  RunInv'
  BY <1>3 DEF NextDay, CliSave, Spoil, CliLoad, vars, diskVars, RunInv
<1> QED
  BY <1>1, <1>2, <1>3 DEF Next

(* A plan depends on the sector and the run. *)
LEMMA PlanStands ==
  ASSUME NEW q \in Sectors, lane'[q] = lane[q], good'[q] = good[q], healthy'[q] = healthy[q],
         root'[q] = root[q], UNCHANGED <<today, run>>, PlanInv(q), ReportInv(q)
  PROVE  PlanInv(q)' /\ ReportInv(q)'
<1>1. Complete(q)' = Complete(q)
  BY DEF Complete
<1> QED
  BY <1>1 DEF PlanInv, ReportInv, InWindow, WindowStart

LEMMA PlanIdle ==
  ASSUME NEW q \in Sectors, lane'[q] \in {NoLane, [NoLane EXCEPT !.st = "plan"]}
  PROVE  PlanInv(q)' /\ ReportInv(q)'
BY DEF PlanInv, ReportInv, NoLane, Working, After, Booking

LEMMA PlanStep ==
  TypeOK /\ RunInv /\ (\A s \in Sectors : PlanInv(s) /\ ReportInv(s)) /\ [Next]_vars
    => \A s \in Sectors : PlanInv(s)' /\ ReportInv(s)'
<1> SUFFICES ASSUME TypeOK, RunInv, \A s \in Sectors : PlanInv(s) /\ ReportInv(s), [Next]_vars,
                    NEW q \in Sectors
             PROVE  PlanInv(q)' /\ ReportInv(q)'
  OBVIOUS
<1>types. lane[q] \in LaneStates /\ lane \in [Sectors -> LaneStates] /\ today \in Nat
          /\ good \in [Sectors -> SUBSET Days] /\ today \in Days
  BY DEF TypeOK, Days
<1>window. UNCHANGED <<today, run>> => WindowStart' = WindowStart
  BY DEF WindowStart
<1>complete. UNCHANGED <<good, healthy>> => Complete(q)' = Complete(q)
  BY DEF Complete
<1>stands. \A d \in Days : Stands(q, d)' => d \in Complete(q)'
  BY DEF Stands, Verifies, Complete
<1>lane. ASSUME NEW s \in Sectors, LaneStep(s), s # q PROVE PlanInv(q)' /\ ReportInv(q)'
  BY <1>lane, Others, PlanStands
<1>next. LaneStep(q) => UNCHANGED <<today, run>>
  BY Others
<1> USE DEF SetLane
<1>1. ASSUME Plan(q) PROVE PlanInv(q)' /\ ReportInv(q)'
  <2> DEFINE dates == Actionable(q) \ Tombstones(q)
  <2>1. /\ lane'[q].left = dates /\ lane'[q].dates = dates /\ lane'[q].failed = {}
        /\ lane'[q].permanent = Actionable(q) \cap Tombstones(q)
        /\ lane'[q].st = IF q \in Weekly /\ (run.weekly \/ dates \cap WeekStarts # {})
                          THEN "pre" ELSE "groups"
    BY <1>1, <1>types DEF Plan, NoLane
  <2>2. UNCHANGED <<today, run>> /\ Complete(q)' = Complete(q)
    BY <1>1, <1>complete DEF Plan, diskVars
  <2>3. lane'[q].st \notin After
    BY <2>1 DEF After, Booking
  <2> QED
    BY <2>1, <2>2, <2>3, <1>window DEF PlanInv, ReportInv, InWindow, Actionable
<1>2. ASSUME Prerequisite(q) PROVE PlanInv(q)' /\ ReportInv(q)'
  <2>1. /\ UNCHANGED <<today, run, root>> /\ Complete(q)' = Complete(q)
        /\ lane[q].st = "pre" /\ q \in Weekly
    BY <1>2, <1>complete DEF Prerequisite, diskVars, PlanInv
  <2>2. CASE lane'[q] = [lane[q] EXCEPT !.st = "groups"]
    BY <2>1, <2>2, <1>types, <1>window
       DEF PlanInv, ReportInv, InWindow, LaneStates, Working, After, Booking
  <2>3. CASE lane'[q] = Ends(lane[q], "FAIL")
    BY <2>1, <2>3, <1>types, <1>window
       DEF PlanInv, ReportInv, InWindow, LaneStates, Working, After, Booking, Ends, Accepted
  <2> QED
    BY <1>2, <1>types, <2>2, <2>3 DEF Prerequisite
<1>group. /\ Group(q) \subseteq lane[q].left /\ (q \in Covers => Group(q) = lane[q].left)
          /\ Rebuilt(q, Group(q)) \in SUBSET Days /\ Rebuilt(q, Group(q)) \subseteq Group(q) \cup {today}
  BY GroupPart, RebuiltType DEF Rebuilt
<1>3. ASSUME BackfillOk(q) PROVE PlanInv(q)' /\ ReportInv(q)'
  <2> DEFINE G == Group(q)
  <2>1. /\ Rebuild(q, Rebuilt(q, G), {Ending(q, G), 0})
        /\ SetLane(q, [lane[q] EXCEPT !.left = @ \ G, !.failed = @ \cup {d \in G : ~Stands(q, d)'}])
    BY <1>3 DEF BackfillOk
  <2>2. /\ lane'[q].left = lane[q].left \ G
        /\ lane'[q].failed = lane[q].failed \cup {d \in G : ~Stands(q, d)'}
        /\ lane'[q].dates = lane[q].dates /\ lane'[q].permanent = lane[q].permanent
        /\ lane'[q].st = "groups" /\ lane[q].st = "groups"
    BY <2>1, <1>3, <1>types DEF LaneStates, BackfillOk
  <2>3. \A d \in Days \ (G \cup {today}) : d \in Complete(q)' <=> d \in Complete(q)
    BY <2>1, <1>group, RebuildEffect
  <2>4. UNCHANGED <<today, run>> /\ WindowStart' = WindowStart
    BY <1>3, <1>window DEF BackfillOk
  <2>5. G \subseteq lane[q].dates /\ lane[q].dates \subseteq Days /\ today \notin lane[q].dates
    BY <1>types, <1>group DEF PlanInv, LaneStates
  <2> HIDE DEF G
  <2>6. /\ lane'[q].left \subseteq lane'[q].dates /\ lane'[q].failed \subseteq lane'[q].dates
        /\ \A d \in lane'[q].dates : d < today
    BY <2>2, <2>5 DEF PlanInv
  <2>7. lane'[q].dates \subseteq Complete(q)' \cup lane'[q].left \cup lane'[q].failed
    <3> SUFFICES ASSUME NEW d \in lane[q].dates, d \notin lane'[q].left, d \notin lane'[q].failed
                 PROVE  d \in Complete(q)'
      BY <2>2
    <3>1. d \in Days /\ d # today
      BY <2>5
    <3>2. CASE d \in G
      BY <2>2, <3>1, <3>2, <1>stands
    <3>3. CASE d \notin G
      <4>1. d \in Complete(q)
        BY <2>2, <3>3 DEF PlanInv, Working
      <4> QED
        BY <2>3, <3>1, <3>3, <4>1
    <3> QED
      BY <3>2, <3>3
  <2>8. \A d \in Days : InWindow(d) => d \in Complete(q)' \cup lane'[q].dates \cup lane'[q].permanent
    <3> SUFFICES ASSUME NEW d \in Days, InWindow(d), d \notin lane[q].dates, d \notin lane[q].permanent
                 PROVE  d \in Complete(q)'
      BY <2>2
    <3>1. d # today /\ d \notin G
      BY <2>5, <1>types DEF InWindow
    <3>2. d \in Complete(q)
      BY <2>2 DEF PlanInv, Working
    <3> QED
      BY <2>3, <3>1, <3>2
  <2> QED
    BY <2>2, <2>4, <2>6, <2>7, <2>8 DEF PlanInv, ReportInv, InWindow, Working, After, Booking
<1>4. ASSUME BackfillFails(q) PROVE PlanInv(q)' /\ ReportInv(q)'
  <2> DEFINE G == Group(q)
             w == [lane[q] EXCEPT !.left = @ \ G, !.failed = @ \cup G]
  <2>1. \E ends : Rebuild(q, Rebuilt(q, G), ends)
    BY <1>4 DEF BackfillFails
  <2>2. UNCHANGED <<today, run>> /\ WindowStart' = WindowStart /\ lane[q].st = "groups"
    BY <1>4, <1>window DEF BackfillFails
  <2>3. lane'[q] = IF q \in Covers THEN Ends(w, "FAIL") ELSE w
    BY <1>4, <1>types DEF BackfillFails, SetLane
  <2>4. /\ lane'[q].left = lane[q].left \ G /\ lane'[q].failed = lane[q].failed \cup G
        /\ lane'[q].dates = lane[q].dates /\ lane'[q].permanent = lane[q].permanent
        /\ IF q \in Covers THEN lane'[q].st \in {"tidy", "book"} /\ lane'[q].status = "FAIL"
           ELSE lane'[q].st = "groups"
    BY <2>2, <2>3, <1>types DEF LaneStates, Ends
  <2>5. G \subseteq lane[q].dates /\ lane[q].dates \subseteq Days /\ today \notin lane[q].dates
    BY <1>types, <1>group DEF PlanInv, LaneStates
  <2>6. \A d \in Days \ (G \cup {today}) : d \in Complete(q)' <=> d \in Complete(q)
    BY <2>1, <1>group, RebuildEffect
  <2>7. q \in Covers => G = lane[q].left
    BY <1>group
  <2> HIDE DEF G, w
  <2>8. /\ lane'[q].left \subseteq lane'[q].dates /\ lane'[q].failed \subseteq lane'[q].dates
        /\ \A d \in lane'[q].dates : d < today
    BY <2>4, <2>5 DEF PlanInv
  <2>9. lane'[q].dates \subseteq Complete(q)' \cup lane'[q].left \cup lane'[q].failed
    <3> SUFFICES ASSUME NEW d \in lane[q].dates, d \notin lane'[q].left, d \notin lane'[q].failed
                 PROVE  d \in Complete(q)'
      BY <2>4
    <3>1. d \in Complete(q) /\ d \notin G
      BY <2>2, <2>4 DEF PlanInv, Working
    <3> QED
      BY <2>5, <2>6, <3>1
  <2>10. q \in Covers => lane'[q].dates \subseteq Complete(q)' \cup lane'[q].failed
    BY <2>4, <2>7, <2>9
  <2>11. \A d \in Days : InWindow(d) => d \in Complete(q)' \cup lane'[q].dates \cup lane'[q].permanent
    <3> SUFFICES ASSUME NEW d \in Days, InWindow(d), d \notin lane[q].dates, d \notin lane[q].permanent
                 PROVE  d \in Complete(q)'
      BY <2>4
    <3>1. d # today /\ d \notin G
      BY <2>5, <1>types DEF InWindow
    <3>2. d \in Complete(q)
      BY <2>2 DEF PlanInv, Working
    <3> QED
      BY <2>6, <3>1, <3>2
  <2> QED
    BY <2>2, <2>4, <2>8, <2>9, <2>10, <2>11
       DEF PlanInv, ReportInv, InWindow, Working, After, Booking, Accepted
<1>5. ASSUME Target(q) PROVE PlanInv(q)' /\ ReportInv(q)'
  <2>1. UNCHANGED <<today, run>> /\ WindowStart' = WindowStart
        /\ lane[q].st = "groups" /\ lane[q].left = {}
    BY <1>5, <1>window DEF Target
  <2>2. PICK status \in Accepted \cup {"FAIL"} :
          /\ lane'[q] = Ends(lane[q], status)
          /\ status \in Accepted => Verifies(q, today)'
    <3>1. Verifies(q, today) /\ UNCHANGED <<today, good, healthy, root>> => Verifies(q, today)'
      BY DEF Verifies
    <3> QED
      BY <1>5, <2>1, <3>1, <1>types DEF Target, Accepted
  <2>3. /\ lane'[q].left = {} /\ lane'[q].failed = lane[q].failed
        /\ lane'[q].dates = lane[q].dates /\ lane'[q].permanent = lane[q].permanent
        /\ lane'[q].st \in {"tidy", "book"} /\ lane'[q].status = status
    BY <2>1, <2>2, <1>types DEF LaneStates, Ends
  <2>4. \A d \in Days \ {today} : d \in Complete(q)' <=> d \in Complete(q)
    <3>1. CASE \E ends : Rebuild(q, {today}, ends)
      BY <3>1, <1>types, RebuildEffect
    <3>2. CASE UNCHANGED <<good, healthy>>
      BY <3>2, <1>complete
    <3> QED
      BY <1>5, <3>1, <3>2 DEF Target
  <2>5. lane[q].dates \subseteq Days /\ today \notin lane[q].dates
    BY <1>types DEF PlanInv, LaneStates
  <2>6. lane[q].dates \subseteq Complete(q) \cup lane[q].failed
    BY <2>1 DEF PlanInv, Working
  <2>7. lane'[q].dates \subseteq Complete(q)' \cup lane'[q].failed
    BY <2>3, <2>4, <2>5, <2>6
  <2>8. status \in Accepted => today \in Complete(q)' /\ (q \in Stamped => root'[q] = today)
    <3>1. q \in Stamped => q \notin Dated
      BY CatchUpAssumption
    <3> QED
      BY <2>1, <2>2, <3>1 DEF Verifies, Complete
  <2>9. \A d \in Days : InWindow(d) => d \in Complete(q)' \cup lane'[q].dates \cup lane'[q].permanent
    <3>1. \A d \in Days : InWindow(d) => d # today
      BY <1>types DEF InWindow
    <3> QED
      BY <2>1, <2>3, <2>4, <3>1 DEF PlanInv, Working
  <2>10. PlanInv(q)'
    BY <2>1, <2>3, <2>9 DEF PlanInv, InWindow, Working
  <2>11. ReportInv(q)'
    BY <2>1, <2>3, <2>7, <2>8 DEF ReportInv
  <2> QED
    BY <2>10, <2>11
<1>6. ASSUME BookLoad(q) \/ BookSave(q) \/ TidyLoad(q) PROVE PlanInv(q)' /\ ReportInv(q)'
  <2>1. UNCHANGED <<today, run, root>> /\ Complete(q)' = Complete(q) /\ WindowStart' = WindowStart
    BY <1>6, <1>window, <1>complete DEF BookLoad, BookSave, TidyLoad, diskVars
  <2>2. /\ lane'[q].left = lane[q].left /\ lane'[q].failed = lane[q].failed
        /\ lane'[q].dates = lane[q].dates /\ lane'[q].permanent = lane[q].permanent
        /\ lane'[q].status = lane[q].status
    BY <1>6, <1>types DEF BookLoad, BookSave, TidyLoad, LaneStates
  <2>3. /\ lane[q].st \in After /\ lane'[q].st \in After
        /\ lane'[q].st \notin Working \cup {"done"}
    BY <1>6, Moves DEF After, Booking, Working
  <2>4. PlanInv(q)'
    BY <2>1, <2>2, <2>3 DEF PlanInv, InWindow, Working
  <2>5. ReportInv(q)'
    BY <2>1, <2>2, <2>3 DEF ReportInv
  <2> QED
    BY <2>4, <2>5
<1>7. ASSUME TidySave(q) PROVE PlanInv(q)' /\ ReportInv(q)'
  <2>1. UNCHANGED <<today, run, root>> /\ Complete(q)' = Complete(q) /\ WindowStart' = WindowStart
    BY <1>7, <1>window, <1>complete DEF TidySave, diskVars
  <2>2. /\ lane'[q].left = lane[q].left /\ lane'[q].failed = lane[q].failed
        /\ lane'[q].dates = lane[q].dates /\ lane'[q].permanent = lane[q].permanent
        /\ lane'[q].status = FinalStatus(lane[q])
    BY <1>7, <1>types DEF TidySave, LaneStates
  <2>3. lane[q].st \in After /\ lane'[q].st = "done"
    BY <1>7, Moves DEF After, Booking
  <2>4. /\ FinalStatus(lane[q]) \in Accepted => lane[q].status \in Accepted
        /\ FinalStatus(lane[q]) \in {"PASS", "UP_TO_DATE"} => lane[q].failed = {}
    BY DEF FinalStatus, Accepted
  <2>5. PlanInv(q)'
    BY <2>1, <2>2, <2>3 DEF PlanInv, InWindow, Working, After, Booking
  <2>6. ReportInv(q)'
    BY <2>1, <2>2, <2>3, <2>4 DEF ReportInv
  <2> QED
    BY <2>5, <2>6
<1>8. ASSUME StartRun \/ EndRun \/ Crash PROVE PlanInv(q)' /\ ReportInv(q)'
  BY <1>8, PlanIdle DEF StartRun, EndRun, Crash
<1>9. ASSUME NextDay \/ (\E s \in Sectors, d \in Days : Spoil(s, d)) PROVE PlanInv(q)' /\ ReportInv(q)'
  BY <1>9, PlanIdle DEF NextDay, Spoil, RunInv
<1>10. ASSUME CliSave \/ UNCHANGED vars
              \/ (\E s \in Sectors, d \in OperatorDays, op \in {"mark", "clear"} : CliLoad(op, s, d))
       PROVE  PlanInv(q)' /\ ReportInv(q)'
  BY <1>10, PlanStands DEF CliSave, CliLoad, vars, diskVars
<1> QED
  BY <1>1, <1>2, <1>3, <1>4, <1>5, <1>6, <1>7, <1>8, <1>9, <1>10, <1>lane DEF Next, LaneStep

-----------------------------------------------------------------------------
(* Failures and their records *)

(* A rebuild records no failure, and forgives those of what verifies. *)
LEMMA MissesFall ==
  ASSUME TypeOK, NEW s \in Sectors, BackfillOk(s) \/ BackfillFails(s) \/ Target(s)
  PROVE  /\ \A q \in Sectors, d \in Days : misses'[q][d] = misses[q][d] \/ misses'[q][d] = 0
         /\ \A d \in Days : d \in good'[s] => misses'[s][d] = 0 \/ (d \in good[s] /\ misses'[s][d] = misses[s][d])
<1>0. Rebuilt(s, Group(s)) \in SUBSET Days /\ {today} \in SUBSET Days
  BY RebuiltType
<1>1. CASE \E D \in SUBSET Days : \E ends : Rebuild(s, D, ends)
  <2>1. /\ \A d \in Days : misses'[s][d] = IF d \in good'[s] THEN 0 ELSE misses[s][d]
        /\ \A q \in Sectors \ {s} : misses'[q] = misses[q]
    BY <1>1, RebuildEffect
  <2> QED
    BY <2>1
<1>2. CASE UNCHANGED <<good, misses>>
  BY <1>2
<1> QED
  BY <1>0, <1>1, <1>2 DEF BackfillOk, BackfillFails, Target

LEMMA MissStep == IInv /\ [Next]_vars => MissInv'
<1> SUFFICES ASSUME IInv, [Next]_vars PROVE MissInv'
  OBVIOUS
<1>types. /\ good \in [Sectors -> SUBSET Days] /\ PermanentAfter \in Nat \ {0}
          /\ \A q \in Sectors, d \in Days : misses[q][d] \in Nat
          /\ \A q \in Sectors : lane[q] \in LaneStates
  BY CatchUpAssumption DEF IInv, TypeOK
<1>parts. TypeOK /\ MissInv /\ RunInv /\ MarkerInv /\ \A q \in Sectors : PlanInv(q) /\ ReportInv(q)
  BY DEF IInv
<1> HIDE DEF IInv
<1>others. ASSUME NEW s \in Sectors, LaneStep(s), NEW q \in Sectors \ {s}
           PROVE  /\ \A d \in good'[q] : misses'[q][d] = 0
                  /\ (run'.from = 0 /\ q \notin Weekly /\ lane'[q].st \in Working \cup Booking) =>
                        \A d \in lane'[q].dates : misses'[q][d] < PermanentAfter
  BY <1>others, <1>parts, Others DEF MissInv
<1>own. ASSUME NEW s \in Sectors, LaneStep(s),
               \A d \in good'[s] : misses'[s][d] = 0,
               (run.from = 0 /\ s \notin Weekly /\ lane'[s].st \in Working \cup Booking) =>
                  \A d \in lane'[s].dates : misses'[s][d] < PermanentAfter
        PROVE  MissInv'
  BY <1>own, <1>others, <1>parts, Others DEF MissInv
<1>1. ASSUME NEW s \in Sectors, Plan(s) PROVE MissInv'
  <2>1. UNCHANGED <<good, misses, run>>
    BY <1>1 DEF Plan, diskVars
  <2>2. lane'[s].dates = Actionable(s) \ Tombstones(s)
    BY <1>1, <1>parts DEF Plan, SetLane, NoLane, TypeOK
  <2>3. ASSUME run.from = 0, s \notin Weekly, NEW d \in lane'[s].dates
        PROVE  misses[s][d] < PermanentAfter
    <3>1. d \in Days /\ d \notin Tombstones(s)
      BY <2>2, <2>3 DEF Actionable
    <3>2. markers[s][d] \in Record
      BY <3>1, <1>parts DEF TypeOK, Files
    <3>3. markers[s][d].by = "nobody"
      BY <2>3, <3>1, <3>2 DEF Tombstones, Record
    <3>4. markers[s][d].n # PermanentAfter
      BY <3>1, <3>3, <1>parts DEF MarkerInv, Formed
    <3>5. misses[s][d] <= markers[s][d].n
      BY <2>3, <3>1, <1>parts DEF MarkerInv, Counts
    <3>6. markers[s][d].n \in 0 .. PermanentAfter
      BY <3>2 DEF Record
    <3> QED
      BY <3>1, <3>4, <3>5, <3>6, <1>types
  <2>4. \A d \in good'[s] : misses'[s][d] = 0
    BY <2>1, <1>parts DEF MissInv
  <2> QED
    BY <2>1, <2>3, <2>4, <1>1, <1>own DEF LaneStep
<1>2. ASSUME NEW s \in Sectors, Prerequisite(s) \/ BookLoad(s) \/ TidyLoad(s) \/ TidySave(s)
      PROVE  MissInv'
  <2>1. UNCHANGED <<good, misses, run>>
    BY <1>2 DEF Prerequisite, BookLoad, TidyLoad, TidySave, diskVars
  <2>2. lane'[s].dates = lane[s].dates
    <3>0. lane \in [Sectors -> LaneStates]
      BY <1>parts DEF TypeOK
    <3>e. ASSUME NEW w \in LaneStates, NEW x PROVE Ends(w, x).dates = w.dates
      BY DEF Ends, LaneStates
    <3>1. CASE Prerequisite(s)
      <4>1. CASE SetLane(s, [lane[s] EXCEPT !.st = "groups"])
        <5>1. lane'[s] = [lane[s] EXCEPT !.st = "groups"]
          BY <4>1, <3>0 DEF SetLane
        <5> QED
          BY <5>1, <3>0 DEF LaneStates
      <4>2. CASE SetLane(s, Ends(lane[s], "FAIL"))
        <5>1. lane'[s] = Ends(lane[s], "FAIL")
          BY <4>2, <3>0 DEF SetLane
        <5> QED
          BY <5>1, <3>0, <3>e
      <4> QED
        BY <3>1, <4>1, <4>2 DEF Prerequisite
    <3> USE <1>parts DEF SetLane, TypeOK, LaneStates, Ends
    <3>3. CASE BookLoad(s) \/ TidyLoad(s)
      BY <3>3 DEF BookLoad, TidyLoad
    <3>4. CASE TidySave(s)
      BY <3>4 DEF TidySave
    <3> QED
      BY <1>2, <3>1, <3>3, <3>4
  <2>3. lane'[s].st \in Working \cup Booking => lane[s].st \in Working \cup Booking
    BY <1>2, <1>parts, Moves DEF Working, Booking
  <2>4. LaneStep(s)
    BY <1>2 DEF LaneStep
  <2> QED
    BY <2>1, <2>2, <2>3, <2>4, <1>own, <1>parts DEF MissInv
<1>3. ASSUME NEW s \in Sectors, BackfillOk(s) \/ BackfillFails(s) \/ Target(s) PROVE MissInv'
  <2>1. /\ \A d \in Days : misses'[s][d] = misses[s][d] \/ misses'[s][d] = 0
        /\ \A d \in Days : d \in good'[s] => misses'[s][d] = 0 \/ (d \in good[s] /\ misses'[s][d] = misses[s][d])
    BY <1>3, <1>parts, MissesFall
  <2>2. lane'[s].dates = lane[s].dates
    <3>e. ASSUME NEW w \in LaneStates, NEW x PROVE Ends(w, x).dates = w.dates
      BY DEF Ends, LaneStates
    <3>0. lane \in [Sectors -> LaneStates]
      BY <1>parts DEF TypeOK
    <3>1. CASE BackfillOk(s)
      BY <3>1, <3>0 DEF BackfillOk, SetLane, LaneStates
    <3>2. CASE Target(s)
      <4>1. \E status \in Accepted \cup {"FAIL"} : lane' = [lane EXCEPT ![s] = Ends(lane[s], status)]
        BY <3>2 DEF Target, SetLane, Accepted
      <4> QED
        BY <4>1, <3>0, <3>e
    <3>3. CASE BackfillFails(s)
      <4> DEFINE w == [lane[s] EXCEPT !.left = @ \ Group(s), !.failed = @ \cup Group(s)]
      <4>1. w \in LaneStates /\ w.dates = lane[s].dates
        <5>1. Group(s) \subseteq Days
          BY <1>parts, <3>0, GroupPart DEF LaneStates
        <5> QED
          BY <5>1, <3>0 DEF LaneStates
      <4>2. lane' = [lane EXCEPT ![s] = IF s \in Covers THEN Ends(w, "FAIL") ELSE w]
        BY <3>3 DEF BackfillFails, SetLane
      <4> HIDE DEF w
      <4> QED
        BY <4>1, <4>2, <3>0, <3>e
    <3> QED
      BY <1>3, <3>1, <3>2, <3>3
  <2>3. lane[s].st \in Working
    BY <1>3, <1>parts, Moves DEF Working
  <2>4. LaneStep(s)
    BY <1>3 DEF LaneStep
  <2>5. lane[s].dates \subseteq Days /\ good[s] \subseteq Days /\ good'[s] \subseteq Days
    <3>1. \/ \E D \in SUBSET Days : \E ends : Rebuild(s, D, ends)
          \/ good' = good
      BY <1>3, <1>parts, RebuiltType DEF BackfillOk, BackfillFails, Target
    <3>2. good'[s] \subseteq Days
      BY <3>1, <1>types DEF Rebuild
    <3> QED
      BY <3>2, <1>types DEF LaneStates
  <2>6. \A d \in good'[s] : misses'[s][d] = 0
    BY <2>1, <2>5, <1>parts DEF MissInv
  <2>7. (run.from = 0 /\ s \notin Weekly) => \A d \in lane'[s].dates : misses'[s][d] < PermanentAfter
    BY <2>1, <2>2, <2>3, <2>5, <1>parts, <1>types DEF MissInv
  <2> QED
    BY <2>4, <2>6, <2>7, <1>own
<1>4. ASSUME NEW s \in Sectors, BookSave(s) PROVE MissInv'
  <2>1. good' = good /\ misses' = [misses EXCEPT ![s] = Tally(s)] /\ LaneStep(s)
    BY <1>4 DEF BookSave, diskVars, LaneStep
  <2>2. lane'[s].st = "tidy"
    BY <1>4, <1>parts, Moves
  <2>3. ASSUME NEW d \in good'[s] PROVE misses'[s][d] = 0
    <3>1. d \in good[s] /\ d \in Days
      BY <2>1, <2>3, <1>types
    <3>2. misses'[s] = Tally(s)
      BY <2>1, <1>parts DEF TypeOK
    <3>3. misses'[s][d] = misses[s][d]
      BY <3>1, <3>2 DEF Tally
    <3> QED
      BY <3>1, <3>3, <1>parts DEF MissInv
  <2> QED
    BY <2>1, <2>2, <2>3, <1>own DEF Working, Booking
<1>5. ASSUME StartRun \/ EndRun \/ Crash PROVE MissInv'
  <2>1. UNCHANGED <<good, misses>>
    BY <1>5 DEF StartRun, EndRun, Crash, diskVars
  <2>2. \A q \in Sectors : lane'[q].st \in {"off", "plan"}
    BY <1>5 DEF StartRun, EndRun, Crash, NoLane
  <2> QED
    BY <2>1, <2>2, <1>parts DEF MissInv, Working, Booking
<1>6. ASSUME CliSave PROVE MissInv'
  <2>1. misses' = [q \in Sectors |-> [d \in Days |-> 0]] /\ UNCHANGED <<good, lane>>
    BY <1>6 DEF CliSave, diskVars
  <2> QED
    BY <2>1, <1>types DEF MissInv, LaneStates
<1>7. ASSUME NEW s \in Sectors, NEW d \in Days, Spoil(s, d) PROVE MissInv'
  <2>1. /\ \A q \in Sectors : good'[q] \subseteq good[q]
        /\ UNCHANGED <<misses, lane, run>>
    BY <1>7, <1>types DEF Spoil
  <2> QED
    BY <2>1, <1>parts DEF MissInv
<1>8. ASSUME NextDay \/ UNCHANGED vars
             \/ (\E s \in Sectors, d \in OperatorDays, op \in {"mark", "clear"} : CliLoad(op, s, d))
      PROVE  MissInv'
  BY <1>8, <1>parts DEF NextDay, CliLoad, vars, diskVars, MissInv
<1> QED
  BY <1>1, <1>2, <1>3, <1>4, <1>5, <1>6, <1>7, <1>8 DEF Next, LaneStep

(* Every action that writes the file writes records that are tombstoned at *)
(* the threshold and count what was recorded.                              *)
LEMMA BookedCounts ==
  ASSUME IInv, NEW s \in Sectors, BookSave(s)
  PROVE  Formed(markers') /\ (\A q \in Sectors \ Weekly, d \in Days : misses'[q][d] <= markers'[q][d].n)
<1>types. /\ \A q \in Sectors, d \in Days : misses[q][d] \in Nat /\ copy[q][d] \in Record
          /\ PermanentAfter \in Nat \ {0} /\ Nobody \notin Sectors
          /\ copy \in [Sectors -> [Days -> Record]]
  BY CatchUpAssumption DEF IInv, TypeOK, Files
<1>held. lane[s].st = "booksave" /\ glock = s
  BY DEF BookSave, IInv, RunInv
<1>1. /\ \A q \in Sectors \ {s} : markers'[q] = copy[q] /\ misses'[q] = misses[q]
      /\ markers'[s] = Booked(s) /\ misses'[s] = Tally(s)
  BY <1>types DEF BookSave, IInv, TypeOK
<1>2. Formed(copy) /\ \A q \in Sectors \ Weekly, d \in Days : misses[q][d] <= copy[q][d].n
  BY <1>types, <1>held DEF IInv, MarkerInv, Counts
<1>3. ASSUME NEW d \in Days
      PROVE  /\ Booked(s)[d].n = PermanentAfter => Booked(s)[d].by # "nobody"
             /\ s \notin Weekly => Tally(s)[d] <= Booked(s)[d].n
  <2> DEFINE c == copy[s][d]
             m == misses[s][d]
  <2>1. c \in Record /\ m \in Nat /\ c.n \in 0 .. PermanentAfter
        /\ (c.n = PermanentAfter => c.by # "nobody") /\ (s \notin Weekly => m <= c.n)
    BY <1>types, <1>2 DEF Record, Formed
  <2>2. CASE d \in lane[s].failed
    <3>1. Booked(s)[d] = Failed(c)
      BY <2>2 DEF Booked
    <3>2. Tally(s)[d] = IF run.from = 0 /\ d \notin good[s] THEN Lesser(m + 1, PermanentAfter + 1) ELSE m
      BY <2>2 DEF Tally
    <3>3. d \in lane[s].dates
      BY <2>2 DEF IInv, PlanInv
    <3>4. run.from = 0 /\ s \notin Weekly => m < PermanentAfter
      BY <3>3, <1>held DEF IInv, MissInv, Booking
    <3>5. /\ Failed(c).n = IF c.n + 1 < PermanentAfter THEN c.n + 1 ELSE PermanentAfter
          /\ Failed(c).by = IF c.n + 1 >= PermanentAfter /\ c.by = "nobody" THEN "auto" ELSE c.by
      BY DEF Failed, Lesser
    <3>6. Failed(c).n = PermanentAfter => Failed(c).by # "nobody"
      BY <3>5, <2>1, <1>types
    <3>7. s \notin Weekly => Tally(s)[d] <= Failed(c).n
      <4> HIDE DEF c, m
      <4> QED
        BY <3>2, <3>4, <3>5, <2>1, <1>types DEF Lesser
    <3> QED
      BY <3>1, <3>6, <3>7
  <2>3. CASE d \in lane[s].dates \ lane[s].failed
    <3>1. Booked(s)[d] = NoRecord /\ NoRecord.n = 0
      BY <2>3 DEF Booked, NoRecord
    <3>2. Tally(s)[d] = m
      BY <2>3 DEF Tally
    <3>3. s \notin Weekly => d \in good[s]
      BY <2>3, <1>held DEF IInv, ReportInv, After, Booking, Complete
    <3>4. s \notin Weekly => m = 0
      BY <3>3 DEF IInv, MissInv
    <3> QED
      BY <3>1, <3>2, <3>4, <1>types
  <2>4. CASE d \notin lane[s].dates /\ d \notin lane[s].failed
    BY <2>4, <2>1 DEF Booked, Tally
  <2> QED
    BY <2>2, <2>3, <2>4
<1>4. Formed(markers')
  BY <1>1, <1>2, <1>3 DEF Formed
<1>5. \A q \in Sectors \ Weekly, d \in Days : misses'[q][d] <= markers'[q][d].n
  BY <1>1, <1>2, <1>3
<1> QED
  BY <1>4, <1>5

LEMMA TidyCounts ==
  ASSUME IInv, NEW s \in Sectors, TidySave(s)
  PROVE  Formed(markers') /\ (\A q \in Sectors \ Weekly, d \in Days : misses'[q][d] <= markers'[q][d].n)
<1>types. /\ \A q \in Sectors, d \in Days : misses[q][d] \in Nat /\ copy[q][d] \in Record
          /\ PermanentAfter \in Nat \ {0} /\ Nobody \notin Sectors
          /\ copy \in [Sectors -> [Days -> Record]]
  BY CatchUpAssumption DEF IInv, TypeOK, Files
<1>held. glock = s
  BY DEF TidySave, IInv, RunInv
<1>1. misses' = misses
  BY DEF TidySave
<1>2. CASE markers' = markers
  BY <1>1, <1>2 DEF IInv, MarkerInv, Counts, Formed
<1>3. CASE markers' = [copy EXCEPT ![s] = [d \in Days |->
                          IF d \in Resolved(s) THEN NoRecord ELSE copy[s][d]]]
  <2>1. Formed(copy) /\ \A q \in Sectors \ Weekly, d \in Days : misses[q][d] <= copy[q][d].n
    BY <1>types, <1>held DEF IInv, MarkerInv, Counts
  <2>2. ASSUME NEW q \in Sectors, NEW d \in Days
        PROVE  markers'[q][d] = copy[q][d] \/ (markers'[q][d] = NoRecord /\ q = s /\ d \in good[s])
    BY <1>3, <1>types DEF Resolved
  <2>3. NoRecord.n = 0 /\ 0 # PermanentAfter /\ \A d \in good[s] : misses[s][d] = 0
    BY <1>types DEF NoRecord, IInv, MissInv
  <2>4. Formed(markers')
    BY <2>1, <2>2, <2>3 DEF Formed
  <2>5. \A q \in Sectors \ Weekly, d \in Days : misses'[q][d] <= markers'[q][d].n
    BY <1>1, <2>1, <2>2, <2>3
  <2> QED
    BY <2>4, <2>5
<1> QED
  BY <1>2, <1>3 DEF TidySave

LEMMA CliCounts ==
  ASSUME IInv, CliSave
  PROVE  Formed(markers') /\ (\A q \in Sectors \ Weekly, d \in Days : misses'[q][d] <= markers'[q][d].n)
<1>1. /\ TypeOK /\ Formed(cli.copy)
      /\ \A q \in Sectors, d \in Days : cli.copy[q][d] \in Record /\ cli.copy[q][d].n \in Nat
      /\ PermanentAfter \in Nat \ {0}
  BY CatchUpAssumption DEF IInv, MarkerInv, TypeOK, Files, Record
<1>2. ASSUME NEW q \in Sectors, NEW d \in Days
      PROVE  /\ markers'[q][d].n = PermanentAfter => markers'[q][d].by # "nobody"
             /\ 0 <= markers'[q][d].n
  <2>1. CASE markers'[q][d] = cli.copy[q][d]
    BY <1>1, <2>1 DEF Formed
  <2>2. CASE markers'[q][d] = [cli.copy[q][d] EXCEPT !.by = "operator"]
    BY <1>1, <2>2 DEF Record
  <2>3. CASE markers'[q][d] = NoRecord
    BY <1>1, <2>3 DEF NoRecord
  <2> QED
    BY <1>1, <2>1, <2>2, <2>3, CliWrites
<1>3. \A q \in Sectors, d \in Days : misses'[q][d] = 0
  BY DEF CliSave
<1> QED
  BY <1>2, <1>3 DEF Formed

LEMMA MarkerStep == IInv /\ TypeOK' /\ [Next]_vars => MarkerInv'
<1> SUFFICES ASSUME IInv, TypeOK', [Next]_vars PROVE MarkerInv'
  OBVIOUS
<1>types. /\ \A q \in Sectors, d \in Days :
                 misses[q][d] \in Nat /\ markers[q][d].n \in Nat /\ copy[q][d].n \in Nat
          /\ Nobody \notin Sectors
  BY CatchUpAssumption DEF IInv, TypeOK, Files, Record
<1>parts. TypeOK /\ MarkerInv /\ RunInv
  BY DEF IInv
<1>none. Formed(NoFile)
  BY CatchUpAssumption DEF Formed, NoFile, NoRecord
<1>1. ASSUME NEW s \in Sectors, BookSave(s) \/ TidySave(s) PROVE MarkerInv'
  <2>1. copy' = NoFile /\ glock' = Nobody /\ cli' = cli
    BY <1>1 DEF BookSave, TidySave
  <2>2. Formed(markers') /\ (\A q \in Sectors \ Weekly, d \in Days : misses'[q][d] <= markers'[q][d].n)
    BY <1>1, BookedCounts, TidyCounts
  <2> QED
    BY <2>1, <2>2, <1>none, <1>parts DEF MarkerInv, Formed, Counts
<1>2. ASSUME CliSave PROVE MarkerInv'
  <2>1. cli'.copy = NoFile /\ copy' = copy /\ glock' = glock
        /\ (\A q \in Sectors, d \in Days : misses'[q][d] = 0)
    BY <1>2 DEF CliSave, NoCli
  <2>2. Formed(markers') /\ (\A q \in Sectors \ Weekly, d \in Days : misses'[q][d] <= markers'[q][d].n)
    BY <1>2, CliCounts
  <2> QED
    BY <2>1, <2>2, <1>none, <1>parts, <1>types DEF MarkerInv, Formed, Counts
<1>3. ASSUME NEW s \in Sectors, BookLoad(s) \/ TidyLoad(s) PROVE MarkerInv'
  <2>1. copy' = markers /\ UNCHANGED <<markers, misses, cli>>
    BY <1>3 DEF BookLoad, TidyLoad, Load
  <2> QED
    BY <2>1, <1>parts DEF MarkerInv, Formed, Counts
<1>4. ASSUME NEW s \in Sectors, BackfillOk(s) \/ BackfillFails(s) \/ Target(s) PROVE MarkerInv'
  <2>1. UNCHANGED <<markers, copy, cli, glock>>
    BY <1>4 DEF BackfillOk, BackfillFails, Target
  <2>2. \A q \in Sectors, d \in Days : misses'[q][d] = misses[q][d] \/ misses'[q][d] = 0
    BY <1>4, <1>parts, MissesFall
  <2> QED
    BY <2>1, <2>2, <1>parts, <1>types DEF MarkerInv, Formed, Counts
<1>5. ASSUME NEW s \in Sectors, Plan(s) \/ Prerequisite(s) PROVE MarkerInv'
  <2>1. UNCHANGED <<markers, copy, cli, glock, misses>>
    BY <1>5 DEF Plan, Prerequisite
  <2> QED
    BY <2>1, <1>parts DEF MarkerInv, Formed, Counts
<1>6. ASSUME StartRun \/ EndRun \/ NextDay \/ UNCHANGED vars \/ (\E s \in Sectors, d \in Days : Spoil(s, d))
      PROVE  MarkerInv'
  <2>1. UNCHANGED <<markers, copy, cli, glock, misses>>
    BY <1>6 DEF StartRun, EndRun, NextDay, Spoil, vars
  <2> QED
    BY <2>1, <1>parts DEF MarkerInv, Formed, Counts
<1>7. ASSUME Crash PROVE MarkerInv'
  <2>1. copy' = NoFile /\ glock' = Nobody /\ UNCHANGED <<markers, cli, misses>>
    BY <1>7 DEF Crash
  <2> QED
    BY <2>1, <1>none, <1>parts DEF MarkerInv, Formed, Counts
<1>8. ASSUME NEW s \in Sectors, NEW d \in OperatorDays, NEW op \in {"mark", "clear"}, CliLoad(op, s, d)
      PROVE  MarkerInv'
  <2>1. cli'.copy = markers /\ UNCHANGED <<markers, copy, glock, misses>>
    BY <1>8 DEF CliLoad
  <2> QED
    BY <2>1, <1>parts DEF MarkerInv, Formed, Counts
<1> QED
  BY <1>1, <1>2, <1>3, <1>4, <1>5, <1>6, <1>7, <1>8 DEF Next, LaneStep

-----------------------------------------------------------------------------
LEMMA IInit == Init => IInv
<1> SUFFICES ASSUME Init PROVE IInv
  OBVIOUS
<1>1. TypeOK
  BY TypeInit
<1>2. \A s \in Sectors : lane[s] = NoLane /\ good[s] = {}
  BY DEF Init
<1>3. RunInv
  BY <1>2 DEF RunInv, NoLane
<1>4. \A s \in Sectors : PlanInv(s) /\ ReportInv(s)
  BY <1>2 DEF PlanInv, ReportInv, NoLane, Working, After, Booking
<1>5. MarkerInv
  BY CatchUpAssumption DEF Init, MarkerInv, Formed, Counts, NoFile, NoRecord, NoCli
<1>6. MissInv
  BY <1>2 DEF MissInv, NoLane, Working, Booking
<1> QED
  BY <1>1, <1>3, <1>4, <1>5, <1>6 DEF IInv

(* The invariant: types, who holds the file's lock, what a lane planned    *)
(* and reports, and what the marker file counts.                           *)
THEOREM Invariance == Spec => []IInv
<1>1. IInv /\ [Next]_vars => IInv'
  <2> SUFFICES ASSUME IInv, [Next]_vars PROVE IInv'
    OBVIOUS
  <2>1. TypeOK'
    BY TypeStep DEF IInv
  <2>2. RunInv'
    BY RunStep DEF IInv
  <2>3. \A s \in Sectors : PlanInv(s)' /\ ReportInv(s)'
    BY PlanStep DEF IInv
  <2>4. MarkerInv' /\ MissInv'
    BY <2>1, MarkerStep, MissStep
  <2> QED
    BY <2>1, <2>2, <2>3, <2>4 DEF IInv
<1> QED
  BY <1>1, IInit, PTL DEF Spec

(* Every variable keeps its type. *)
THEOREM TypeCorrect == Spec => []TypeOK
<1>1. IInv => TypeOK
  BY DEF IInv
<1> QED
  BY <1>1, Invariance, PTL

(* GapsAreGivenUp: run_catch_up_sector, clear_resolved_auto_gap_records    *)
(* and the operator's commands never let a session whose artifact does not *)
(* verify be booked as failed more often than the threshold in a row.      *)
THEOREM GapsAreFinite == Spec => []GapsAreGivenUp
<1>1. IInv => GapsAreGivenUp
  <2> SUFFICES ASSUME IInv, NEW s \in Sectors \ Weekly, NEW d \in Days
               PROVE  misses[s][d] <= PermanentAfter
    BY DEF GapsAreGivenUp
  <2>1. misses[s][d] <= markers[s][d].n
    BY DEF IInv, MarkerInv, Counts
  <2>2. markers[s][d].n \in 0 .. PermanentAfter /\ misses[s][d] \in Nat
    BY CatchUpAssumption DEF IInv, TypeOK, Files, Record
  <2> QED
    BY <2>1, <2>2, CatchUpAssumption
<1> QED
  BY <1>1, Invariance, PTL

(* CleanPassClosesGaps: PASS and UP_TO_DATE leave no session of the window *)
(* that is neither complete nor reported as a permanent gap.               *)
THEOREM CleanPassesCloseGaps == Spec => []CleanPassClosesGaps
<1>1. IInv => CleanPassClosesGaps
  <2> SUFFICES ASSUME IInv, NEW s \in Sectors, lane[s].st = "done",
                      lane[s].status \in {"PASS", "UP_TO_DATE"},
                      NEW d \in Days, WindowStart <= d, d <= today
               PROVE  d \in Complete(s) \cup lane[s].permanent
    BY DEF CleanPassClosesGaps
  <2>1. PlanInv(s) /\ ReportInv(s) /\ today \in Nat /\ d \in Nat
    BY CatchUpAssumption DEF IInv, TypeOK, Days
  <2>2. lane[s].failed = {} /\ lane[s].dates \subseteq Complete(s) /\ today \in Complete(s)
    BY <2>1 DEF ReportInv, After, Accepted
  <2>3. CASE d = today
    BY <2>2, <2>3
  <2>4. CASE d < today
    BY <2>1, <2>2, <2>4 DEF PlanInv, InWindow, After
  <2> QED
    BY <2>1, <2>3, <2>4
<1> QED
  BY <1>1, Invariance, PTL

(* AcceptedOnTarget: what run_catch_up_sector accepts is published for the *)
(* target, and the tables behind it describe the target.                   *)
THEOREM AcceptedIsOnTarget == Spec => []AcceptedOnTarget
<1>1. IInv => AcceptedOnTarget
  BY CatchUpAssumption DEF IInv, ReportInv, After, AcceptedOnTarget, Complete
<1> QED
  BY <1>1, Invariance, PTL

(* OperatorMarksStand: a lane drops an operator's tombstone only from a    *)
(* file it loaded before the mark, or for a session it had planned.        *)
THEOREM OperatorMarksAreKept == Spec => OperatorMarksStand
<1> DEFINE Kept ==
      \A q \in Sectors, d \in Days :
         (markers[q][d].by = "operator" /\ markers'[q][d].by # "operator" /\ cli.op = cli'.op) =>
            \E s \in Sectors :
                \/ glock = s /\ copy[q][d].by # "operator"
                \/ s = q /\ lane[s].st = "booksave" /\ d \in lane[s].dates
<1>1. IInv /\ [Next]_vars => Kept
  <2> SUFFICES ASSUME IInv, [Next]_vars, NEW q \in Sectors, NEW d \in Days,
                      markers[q][d].by = "operator", markers'[q][d].by # "operator", cli.op = cli'.op
               PROVE  \E s \in Sectors :
                         \/ glock = s /\ copy[q][d].by # "operator"
                         \/ s = q /\ lane[s].st = "booksave" /\ d \in lane[s].dates
    OBVIOUS
  <2>types. copy \in [Sectors -> [Days -> Record]]
    BY DEF IInv, TypeOK, Files
  <2>1. CASE \E s \in Sectors : BookSave(s)
    <3>1. PICK s \in Sectors : BookSave(s)
      BY <2>1
    <3>2. glock = s /\ lane[s].st = "booksave" /\ lane[s].failed \subseteq lane[s].dates
      BY <3>1 DEF BookSave, IInv, RunInv, PlanInv
    <3>3. markers' = [copy EXCEPT ![s] = Booked(s)]
      BY <3>1 DEF BookSave
    <3>4. CASE q = s /\ d \in lane[s].dates
      BY <3>2, <3>4
    <3>5. CASE q = s /\ d \notin lane[s].dates
      <4>1. markers'[q][d] = copy[q][d]
        BY <3>2, <3>3, <3>5, <2>types DEF Booked
      <4> QED
        BY <3>2, <4>1
    <3>6. CASE q # s
      <4>1. markers'[q][d] = copy[q][d]
        BY <3>3, <3>6, <2>types
      <4> QED
        BY <3>2, <4>1
    <3> QED
      BY <3>4, <3>5, <3>6
  <2>2. CASE \E s \in Sectors : TidySave(s)
    <3>1. PICK s \in Sectors : TidySave(s)
      BY <2>2
    <3>2. glock = s
      BY <3>1 DEF TidySave, IInv, RunInv
    <3>3. markers'[q][d] = copy[q][d] \/ copy[q][d].by # "operator"
      BY <3>1, <2>types DEF TidySave, Resolved
    <3> QED
      BY <3>2, <3>3
  <2>3. CASE CliSave
    BY <2>3 DEF CliSave, NoCli
  <2>4. CASE UNCHANGED markers
    BY <2>4
  <2> QED
    <3>1. \A s \in Sectors : LaneStep(s) => BookSave(s) \/ TidySave(s) \/ UNCHANGED markers
      BY DEF LaneStep, Plan, Prerequisite, BackfillOk, BackfillFails, Target, BookLoad, TidyLoad
    <3>2. StartRun \/ EndRun \/ NextDay \/ Crash => UNCHANGED markers
      BY DEF StartRun, EndRun, NextDay, Crash
    <3>3. \A s \in Sectors, e \in Days : Spoil(s, e) => UNCHANGED markers
      BY DEF Spoil
    <3>4. \A s \in Sectors, e \in OperatorDays, op \in {"mark", "clear"} : CliLoad(op, s, e) => UNCHANGED markers
      BY DEF CliLoad
    <3>5. UNCHANGED vars => UNCHANGED markers
      BY DEF vars
    <3> QED
      BY <2>1, <2>2, <2>3, <2>4, <3>1, <3>2, <3>3, <3>4, <3>5 DEF Next
<1>2. Kept => [Kept]_vars
  OBVIOUS
<1> HIDE DEF Kept
<1>3. IInv /\ [Next]_vars => [Kept]_vars
  BY <1>1, <1>2
<1>4. Spec => [][Kept]_vars
  BY <1>3, Invariance, PTL DEF Spec
<1> QED
  BY <1>4 DEF Kept, OperatorMarksStand
=============================================================================
