----------------------- MODULE PortfolioPipelineProofs ------------------------
(***************************************************************************)
(* Freshness of the run directory for any group lists that satisfy         *)
(* PlansAssumption, any number of runs, and any faults: an accepted gate,  *)
(* and an accepted final report, stand on what is on disk.                 *)
(***************************************************************************)
EXTENDS PortfolioPipeline, TLAPS

(***************************************************************************)
(* What holds in the run directory, between any two steps of a script      *)
(***************************************************************************)
(* Stages whose files are read by others, and gates that are kept by       *)
(* invalidation alone: the orchestrator does not hash their inputs again.  *)
Sources == {"scores", "risk", "optimizer", "costs", "rotation", "macro", "bl", "ledger"}
Listed == Stages \ (ByPath \cup NotInvalidated)

(* No such gate reads the files of p. *)
Unread(d, p) == \A c \in Listed : p \in Reads(c) => d.seal[c] # "PASS"

Typed(d) ==
    d \in [built : SUBSET Scripts, seal : [Stages -> {"none", "PASS", "FAIL"}],
           outdated : SUBSET Stages, torn : SUBSET (SingleStages \cup KeepsGate),
           marker : BOOLEAN, filtered : BOOLEAN]

(* A gate that passed was sealed over what is there, by scripts that had   *)
(* their inputs; risk is the last to go, and the report goes before it.    *)
Current(d) == \A c \in Listed : d.seal[c] = "PASS" => c \notin d.outdated
Backed(d) == \A c \in Listed : \A p \in Reads(c) : d.seal[c] = "PASS" => <<p, "build">> \in d.built
Whole(d) ==
    \A p \in Sources : d.seal[p] = "PASS" /\ p \notin d.torn => <<p, "build">> \in d.built
Ranked(d) == d.seal["costs"] = "PASS" \/ d.seal["final"] = "PASS" => d.seal["risk"] = "PASS"
Reported(d) ==
    Accepts(d, "final_report") => \A p \in {"scores", "risk", "final"} : d.seal[p] = "PASS"
DirInv(d) == Typed(d) /\ Current(d) /\ Backed(d) /\ Whole(d) /\ Ranked(d) /\ Reported(d)

(* From d to e gates were only lost, and the optimizer's book was kept.    *)
Eroded(d, e) ==
    /\ \A p \in Stages : e.seal[p] = "PASS" => d.seal[p] = "PASS"
    /\ <<"optimizer", "build">> \in d.built => <<"optimizer", "build">> \in e.built

(***************************************************************************)
(* The tables                                                              *)
(***************************************************************************)
(* A builder comes first in its stage and the others follow it at once.    *)
Kinds == {"build", "spread", "seal"}
Builders == Sources \cup {"sleeves", "exits", "earnings"}

Before(s) == IF s = <<"risk", "seal">> THEN <<"risk", "spread">> ELSE <<s[1], "build">>

Shape(h) ==
    /\ h \in Seq(Stages \X Kinds) /\ Len(h) \in 1..5 /\ DOMAIN h = 1..Len(h)
    /\ \A k \in 1..Len(h) :
          /\ h[k][2] = "spread" => h[k][1] = "risk"
          /\ h[k][2] = "build" => h[k][1] \in Builders
    /\ h[1][1] \in Builders => h[1][2] = "build"
    /\ \A k \in 2..Len(h) : h[k][1] \in Builders /\ h[k][2] # "build" =>
          h[k - 1] = Before(h[k])
    /\ \A k \in 1..Len(h) : h[k][2] # "seal" =>
          k + 1 \in 2..Len(h) /\ h[k + 1][1] = h[k][1] /\ h[k + 1][2] # "build"

LEMMA GroupNames ==
    DOMAIN Groups = {"scores", "risk", "optimizer", "costs", "rotation", "macro", "macro_contract",
        "bl", "sleeves", "ledger", "exits", "payout", "governor", "bootstrap_final", "final",
        "earnings", "monitor", "monitor_filter", "final_report"}
  BY DEF Groups

LEMMA Shapes == ASSUME NEW g \in DOMAIN Groups PROVE Shape(Groups[g])
  <1> USE DEF Groups, Shape, Before, Stages, Sources, Kinds, Builders
  <1>1. CASE g = "scores" BY <1>1
  <1>2. CASE g = "risk" BY <1>2
  <1>3. CASE g = "optimizer" BY <1>3
  <1>4. CASE g = "costs" BY <1>4
  <1>5. CASE g = "rotation" BY <1>5
  <1>6. CASE g = "macro" BY <1>6
  <1>7. CASE g = "macro_contract" BY <1>7
  <1>8. CASE g = "bl" BY <1>8
  <1>9. CASE g = "sleeves" BY <1>9
  <1>10. CASE g = "ledger" BY <1>10
  <1>11. CASE g = "exits" BY <1>11
  <1>12. CASE g = "payout" BY <1>12
  <1>13. CASE g = "governor" BY <1>13
  <1>14. CASE g = "bootstrap_final" BY <1>14
  <1>15. CASE g = "final" BY <1>15
  <1>16. CASE g = "earnings" BY <1>16
  <1>17. CASE g = "monitor" BY <1>17
  <1>18. CASE g = "monitor_filter" BY <1>18
  <1>19. CASE g = "final_report" BY <1>19
  <1> HIDE DEF Groups, Shape, Before, Stages, Sources, Kinds, Builders
  <1> QED BY <1>1, <1>2, <1>3, <1>4, <1>5, <1>6, <1>7, <1>8, <1>9, <1>10, <1>11, <1>12, <1>13,
             <1>14, <1>15, <1>16, <1>17, <1>18, <1>19, GroupNames

LEMMA SourceGroups ==
    ASSUME NEW p \in Sources
    PROVE  p \in DOMAIN Groups /\ Groups[p][1] = <<p, "build">>
  <1> USE DEF Groups, Sources
  <1>1. CASE p = "scores" BY <1>1
  <1>2. CASE p = "risk" BY <1>2
  <1>3. CASE p = "optimizer" BY <1>3
  <1>4. CASE p = "costs" BY <1>4
  <1>5. CASE p = "rotation" BY <1>5
  <1>6. CASE p = "macro" BY <1>6
  <1>7. CASE p = "bl" BY <1>7
  <1>8. CASE p = "ledger" BY <1>8
  <1> HIDE DEF Groups
  <1> QED BY <1>1, <1>2, <1>3, <1>4, <1>5, <1>6, <1>7, <1>8

LEMMA ScriptOf ==
    ASSUME NEW g \in DOMAIN Groups, NEW k \in 1..Len(Groups[g])
    PROVE  Groups[g][k] \in Scripts
  <1>1. DOMAIN Groups[g] = 1..Len(Groups[g]) BY Shapes DEF Shape
  <1>2. Groups[g][k] \in Range(Groups[g]) BY <1>1 DEF Range
  <1> QED BY <1>2 DEF Scripts

LEMMA ScriptShape ==
    ASSUME NEW s \in Scripts
    PROVE  /\ s \in Stages \X Kinds
           /\ s[2] = "spread" => s[1] = "risk"
           /\ s[2] = "build" => s[1] \in Builders
  <1>1. PICK g \in DOMAIN Groups : s \in Range(Groups[g]) BY DEF Scripts
  <1>2. PICK k \in DOMAIN Groups[g] : s = Groups[g][k] BY <1>1 DEF Range
  <1>3. Shape(Groups[g]) BY Shapes
  <1> QED BY <1>2, <1>3 DEF Shape

LEMMA SourceScript == ASSUME NEW p \in Sources PROVE <<p, "build">> \in Scripts
  <1>1. p \in DOMAIN Groups /\ Groups[p][1] = <<p, "build">> BY SourceGroups
  <1>2. 1 \in 1..Len(Groups[p]) BY <1>1, Shapes DEF Shape
  <1> QED BY <1>1, <1>2, ScriptOf

LEMMA SourceReads ==
    ASSUME NEW c \in Listed, NEW p \in Reads(c)
    PROVE  p \in Sources
  BY DEF Listed, Stages, ByPath, NotInvalidated, Reads, Sources, RiskReads, OptimizerReads,
         CostReads, RotationReads, MacroReads, BlReads, SleeveReads, ExitReads, ExitBookReads,
         PayoutReads, GovernorReads, FinalReads

Consumer(c) == IF c = "bootstrap" THEN "final" ELSE c

LEMMA ReadersDepend ==
    ASSUME NEW c \in Listed, NEW p \in Reads(c)
    PROVE  Consumer(c) \in Dependencies(<<p, "build">>)
  <1>1. p \in Sources BY SourceReads
  <1> QED BY <1>1 DEF Listed, Stages, ByPath, NotInvalidated, Reads, Sources, Dependencies, Consumer,
         RiskReads, OptimizerReads, CostReads, RotationReads, MacroReads, BlReads, SleeveReads,
         ExitReads, PayoutReads, GovernorReads, FinalReads

LEMMA FileTable ==
    /\ Len(Files) = 13
    /\ Files[1] = <<"bl", "bl">> /\ Files[2] = <<"costs", "costs">>
    /\ Files[3] = <<"exits", "exits">> /\ Files[4] = <<"exits", "exit_book">>
    /\ Files[5] = <<"final", "final">> /\ Files[6] = <<"final", "bootstrap">>
    /\ Files[7] = <<"governor", "governor">> /\ Files[8] = <<"macro", "macro">>
    /\ Files[9] = <<"optimizer", "optimizer">> /\ Files[10] = <<"payout", "payout">>
    /\ Files[11] = <<"risk", "risk">> /\ Files[12] = <<"rotation", "rotation">>
    /\ Files[13] = <<"sleeves", "sleeves">>
  BY DEF Files

LEMMA UnlinkedBy ==
    ASSUME NEW s, NEW k \in 1..13, NEW n \in k..13, Files[k][1] \in Dependencies(s)
    PROVE  Files[k][2] \in Unlinked(s, n)
  BY DEF Unlinked

LEMMA UnlinkedStages == ASSUME NEW s, NEW n \in 0..13 PROVE Unlinked(s, n) \in SUBSET Stages
  <1> SUFFICES ASSUME NEW k \in 1..n PROVE Files[k][2] \in Stages BY DEF Unlinked
  <1> QED BY FileTable DEF Stages

(* Every gate that is kept by its digests alone and reads p is unlinked.   *)
LEMMA ReadersUnlinked ==
    ASSUME NEW c \in Listed, NEW p \in Reads(c)
    PROVE  c \in Unlinked(<<p, "build">>, 13)
  <1>1. Consumer(c) \in Dependencies(<<p, "build">>) BY ReadersDepend
  <1>2. PICK k \in 1..13 : Files[k] = <<Consumer(c), c>>
    BY FileTable DEF Listed, Stages, ByPath, NotInvalidated, Consumer, Reads
  <1> QED BY <1>1, <1>2, UnlinkedBy

(* The risk gate goes last: never under costs or a book still sealed.      *)
LEMMA RiskUnlinkedLast ==
    ASSUME NEW s \in Scripts, NEW n \in 0..13, "risk" \in Unlinked(s, n)
    PROVE  "costs" \in Unlinked(s, n) /\ "final" \in Unlinked(s, n) /\ MarksReport(s)
  <1>1. PICK k \in 1..n : "risk" = Files[k][2] /\ Files[k][1] \in Dependencies(s) BY DEF Unlinked
  <1>2. k = 11 BY <1>1, FileTable
  <1>3. "risk" \in Dependencies(s) BY <1>1, <1>2, FileTable
  <1>4. "costs" \in Dependencies(s) /\ "final" \in Dependencies(s)
    BY <1>3 DEF Dependencies
  <1> QED BY <1>2, <1>4, FileTable, UnlinkedBy DEF MarksReport

(***************************************************************************)
(* The run directory                                                       *)
(***************************************************************************)
LEMMA WithoutFields ==
    ASSUME NEW d, Typed(d), NEW C \in SUBSET Stages
    PROVE  /\ Typed(Without(d, C))
           /\ Without(d, C).built = d.built
           /\ Without(d, C).seal = [p \in Stages |-> IF p \in C THEN "none" ELSE d.seal[p]]
           /\ Without(d, C).outdated = (d.outdated \cup {c \in ByPath : Reads(c) \cap C # {}}) \ C
           /\ Without(d, C).torn = d.torn \ C
           /\ Without(d, C).marker = d.marker /\ Without(d, C).filtered = d.filtered
  <1> DEFINE out == (d.outdated \cup {c \in ByPath : Reads(c) \cap C # {}}) \ C
             seal == [p \in Stages |-> IF p \in C THEN "none" ELSE d.seal[p]]
  <1>1. out \in SUBSET Stages BY DEF Typed, ByPath, Stages
  <1>2. seal \in [Stages -> {"none", "PASS", "FAIL"}] BY DEF Typed
  <1>3. Without(d, C) = [d EXCEPT !.seal = seal, !.outdated = out, !.torn = d.torn \ C]
    BY DEF Without, Typed
  <1> HIDE DEF out, seal
  <1>4. Typed(Without(d, C))
    <2>1. d.torn \ C \in SUBSET (SingleStages \cup KeepsGate) BY DEF Typed
    <2>2. Without(d, C) = [d EXCEPT !.seal = seal, !.outdated = out, !.torn = d.torn \ C] BY <1>3
    <2> QED BY <1>1, <1>2, <2>1, <2>2 DEF Typed
  <1>5. /\ Without(d, C).built = d.built /\ Without(d, C).seal = seal
        /\ Without(d, C).outdated = out /\ Without(d, C).torn = d.torn \ C
        /\ Without(d, C).marker = d.marker /\ Without(d, C).filtered = d.filtered
    BY <1>3 DEF Typed
  <1> QED BY <1>4, <1>5 DEF out, seal

(* Gates may go at any time, risk only with its costs and its book.        *)
LEMMA WithoutInv ==
    ASSUME NEW d, DirInv(d), NEW C \in SUBSET Stages,
           "risk" \in C => d.marker /\ ("costs" \in C \/ d.seal["costs"] # "PASS")
                                  /\ ("final" \in C \/ d.seal["final"] # "PASS")
    PROVE  DirInv(Without(d, C)) /\ Eroded(d, Without(d, C))
  <1> DEFINE e == Without(d, C)
  <1>1. /\ Typed(e) /\ e.built = d.built
        /\ e.seal = [p \in Stages |-> IF p \in C THEN "none" ELSE d.seal[p]]
        /\ e.outdated = (d.outdated \cup {c \in ByPath : Reads(c) \cap C # {}}) \ C
        /\ e.torn = d.torn \ C /\ e.marker = d.marker
    BY WithoutFields DEF DirInv
  <1> HIDE DEF e
  <1>2. \A p \in Stages : e.seal[p] = "PASS" => d.seal[p] = "PASS" /\ p \notin C BY <1>1
  <1>3. Current(e) BY <1>1, <1>2 DEF DirInv, Current, Listed
  <1>4. Backed(e) BY <1>1, <1>2 DEF DirInv, Backed, Listed
  <1>5. Whole(e) BY <1>1, <1>2 DEF DirInv, Whole, Sources, Stages
  <1>6. Ranked(e) BY <1>1, <1>2 DEF DirInv, Ranked, Stages
  <1>7. Reported(e)
    <2>1. SUFFICES ASSUME Accepts(e, "final_report")
                   PROVE  \A p \in {"scores", "risk", "final"} : e.seal[p] = "PASS"
      BY DEF Reported
    <2>2. "final_report" \in Stages /\ "final_report" \in ByPath BY DEF Stages, ByPath
    <2>3. Reads("final_report") = ReportReads BY DEF Reads
    <2>4. "final_report" \notin C /\ ReportReads \cap C = {} /\ ~e.marker
      BY <2>1, <2>2, <2>3, <1>1, <1>2 DEF Accepts
    <2>5. Accepts(d, "final_report") BY <2>1, <2>2, <2>4, <1>1, <1>2 DEF Accepts
    <2>6. "risk" \notin C BY <2>4, <1>1
    <2> QED BY <2>4, <2>5, <2>6, <1>1 DEF DirInv, Reported, ReportReads, Stages
  <1>8. Eroded(d, e) BY <1>1, <1>2 DEF Eroded
  <1> QED BY <1>1, <1>3, <1>4, <1>5, <1>6, <1>7, <1>8 DEF DirInv, e

(* Marking the report stale, or nothing, changes no gate.                  *)
LEMMA MarkInv ==
    ASSUME NEW d, DirInv(d)
    PROVE  LET e == [d EXCEPT !.marker = TRUE] IN
           DirInv(e) /\ Eroded(d, e) /\ e.seal = d.seal /\ e.built = d.built /\ e.marker = TRUE
  <1> DEFINE e == [d EXCEPT !.marker = TRUE]
  <1>1. /\ Typed(e) /\ e.built = d.built /\ e.seal = d.seal /\ e.outdated = d.outdated
        /\ e.torn = d.torn /\ e.marker = TRUE
    BY DEF DirInv, Typed
  <1> HIDE DEF e
  <1>2. Current(e) /\ Backed(e) /\ Whole(e) /\ Ranked(e) /\ Reported(e)
    BY <1>1 DEF DirInv, Current, Backed, Whole, Ranked, Reported, Accepts
  <1> QED BY <1>1, <1>2 DEF DirInv, Eroded, e

LEMMA ErodedTwice ==
    ASSUME NEW d, NEW e, NEW f, Eroded(d, e), Eroded(e, f)
    PROVE  Eroded(d, f)
  BY DEF Eroded

LEMMA ErodedSelf == ASSUME NEW d PROVE Eroded(d, d)
  BY DEF Eroded

LEMMA UnreadEroded ==
    ASSUME NEW d, NEW e, NEW p, Eroded(d, e), Unread(d, p)
    PROVE  Unread(e, p)
  BY DEF Eroded, Unread, Listed

(* invalidate_dependents, cut off anywhere, breaks nothing.                *)
LEMMA InvalidatedInv ==
    ASSUME NEW d, DirInv(d), NEW s \in Scripts, NEW n \in 0..13
    PROVE  LET e == InvalidatedUpTo(d, s, n) IN
           /\ DirInv(e) /\ Eroded(d, e) /\ e.built = d.built
           /\ \A p \in Stages : e.seal[p] = IF p \in Unlinked(s, n) THEN "none" ELSE d.seal[p]
           /\ MarksReport(s) => e.marker = TRUE
  <1> DEFINE m == Marked(d, s)
  <1>1. /\ DirInv(m) /\ Eroded(d, m) /\ m.seal = d.seal /\ m.built = d.built
        /\ MarksReport(s) => m.marker = TRUE
    <2>1. CASE MarksReport(s)
      <3>1. m = [d EXCEPT !.marker = TRUE] BY <2>1 DEF Marked
      <3> HIDE DEF m
      <3> QED BY <3>1, MarkInv
    <2>2. CASE ~MarksReport(s) BY <2>2, ErodedSelf DEF Marked
    <2> QED BY <2>1, <2>2
  <1> HIDE DEF m
  <1>2. Unlinked(s, n) \in SUBSET Stages BY UnlinkedStages
  <1>3. "risk" \in Unlinked(s, n) =>
            m.marker /\ "costs" \in Unlinked(s, n) /\ "final" \in Unlinked(s, n)
    BY <1>1, RiskUnlinkedLast
  <1>4. DirInv(Without(m, Unlinked(s, n))) /\ Eroded(m, Without(m, Unlinked(s, n)))
    BY <1>1, <1>2, <1>3, WithoutInv
  <1>5. Eroded(d, Without(m, Unlinked(s, n))) BY <1>1, <1>4, ErodedTwice
  <1>6. Typed(m) BY <1>1 DEF DirInv
  <1> DEFINE e == Without(m, Unlinked(s, n))
  <1>7. /\ e.built = m.built /\ e.marker = m.marker
        /\ e.seal = [p \in Stages |-> IF p \in Unlinked(s, n) THEN "none" ELSE m.seal[p]]
    BY <1>2, <1>6, WithoutFields
  <1>8. e = InvalidatedUpTo(d, s, n) BY DEF InvalidatedUpTo, m
  <1> HIDE DEF e
  <1> QED BY <1>1, <1>4, <1>5, <1>7, <1>8 DEF e

(* A write is harmless as long as no gate that is kept reads the file.     *)
LEMMA RewrittenInv ==
    ASSUME NEW d, DirInv(d), NEW p \in Stages, Unread(d, p)
    PROVE  LET e == Rewritten(d, p) IN
           /\ DirInv(e) /\ e.built = d.built /\ e.seal = d.seal /\ Eroded(d, e)
           /\ e.outdated = d.outdated \cup {c \in Readers(p) : d.seal[c] # "none"}
           /\ e.torn = d.torn /\ e.marker = d.marker
  <1> DEFINE e == Rewritten(d, p)
             hit == {c \in Readers(p) : d.seal[c] # "none"}
  <1>1. hit \in SUBSET Stages BY DEF Readers
  <1>2. /\ e.built = d.built /\ e.seal = d.seal /\ e.outdated = d.outdated \cup hit
        /\ e.torn = d.torn /\ e.marker = d.marker /\ Typed(e)
    BY <1>1 DEF Rewritten, DirInv, Typed
  <1>3. \A c \in Listed : d.seal[c] = "PASS" => c \notin hit BY DEF Unread, Readers
  <1> HIDE DEF hit, e
  <1>4. Current(e) BY <1>2, <1>3 DEF DirInv, Current
  <1>5. Backed(e) /\ Whole(e) /\ Ranked(e) BY <1>2 DEF DirInv, Backed, Whole, Ranked
  <1>6. Reported(e) BY <1>2 DEF DirInv, Reported, Accepts
  <1> QED BY <1>2, <1>4, <1>5, <1>6 DEF DirInv, Eroded, e, hit

(* What a PASS stands on, and what has to be gone for a FAIL of risk.      *)
Founded(d, p) ==
    /\ p \in Listed => \A q \in Reads(p) : <<q, "build">> \in d.built
    /\ p \in Sources => <<p, "build">> \in d.built
    /\ p \in {"costs", "final"} => d.seal["risk"] = "PASS"
    /\ p = "final_report" => \A q \in {"scores", "risk", "final"} : d.seal[q] = "PASS"
Baseless(d) ==
    d.seal["costs"] # "PASS" /\ d.seal["final"] # "PASS" /\ ~Accepts(d, "final_report")

(* A seal is written over files that no kept gate reads.                   *)
LEMMA SealedInv ==
    ASSUME NEW d, DirInv(d), NEW p \in Stages, NEW a \in {"PASS", "FAIL"}, Unread(d, p),
           a = "PASS" => Founded(d, p), a = "FAIL" /\ p = "risk" => Baseless(d)
    PROVE  /\ DirInv(Sealed(d, p, a)) /\ Sealed(d, p, a).built = d.built
           /\ \A q \in Stages : Sealed(d, p, a).seal[q] = IF q = p THEN a ELSE d.seal[q]
  <1> DEFINE e == Sealed(d, p, a)
             hit == {c \in Readers(p) : d.seal[c] # "none"}
  <1>0. p \notin Readers(p)
    BY DEF Readers, Reads, RiskReads, OptimizerReads, CostReads, RotationReads, MacroReads, BlReads,
           SleeveReads, ExitReads, ExitBookReads, PayoutReads, GovernorReads, FinalReads,
           EarningsReads, UniverseReads, MonitorReads, OverlayReads, ReportReads
  <1>1. hit \in SUBSET Stages BY DEF Readers
  <1>2. /\ e.built = d.built /\ e.seal = [d.seal EXCEPT ![p] = a]
        /\ e.outdated = (d.outdated \ {p}) \cup hit
        /\ e.torn = d.torn \ {p} /\ e.marker = d.marker /\ Typed(e)
    <2> DEFINE m == [d EXCEPT !.seal[p] = a, !.outdated = @ \ {p}, !.torn = @ \ {p}]
    <2>1. /\ Typed(m) /\ m.built = d.built /\ m.seal = [d.seal EXCEPT ![p] = a]
          /\ m.outdated = d.outdated \ {p} /\ m.torn = d.torn \ {p} /\ m.marker = d.marker
      BY DEF DirInv, Typed
    <2>2. {c \in Readers(p) : m.seal[c] # "none"} = hit
      BY <2>1, <1>0 DEF DirInv, Typed, Readers
    <2>3. e = Rewritten(m, p) BY DEF Sealed
    <2> HIDE DEF m, e, hit
    <2>4. e = [m EXCEPT !.outdated = @ \cup hit, !.filtered = @ /\ p # "overlay"]
      BY <2>2, <2>3 DEF Rewritten
    <2> QED BY <1>1, <2>1, <2>4 DEF Typed
  <1>3. \A q \in Stages : e.seal[q] = IF q = p THEN a ELSE d.seal[q] BY <1>2 DEF DirInv, Typed
  <1>4. \A c \in Listed : d.seal[c] = "PASS" => c \notin hit BY DEF Unread, Readers
  <1>5. p \notin hit BY <1>0
  <1>6. \A c \in Readers(p) : d.seal[c] # "none" => c \in hit OBVIOUS
  <1> HIDE DEF hit, e
  <1>7. Current(e)
    <2> SUFFICES ASSUME NEW c \in Listed, e.seal[c] = "PASS" PROVE c \notin e.outdated
      BY DEF Current
    <2>1. CASE c = p BY <2>1, <1>2, <1>5
    <2>2. CASE c # p BY <2>2, <1>2, <1>3, <1>4 DEF Listed, DirInv, Current
    <2> QED BY <2>1, <2>2
  <1>8. Backed(e)
    <2> SUFFICES ASSUME NEW c \in Listed, NEW q \in Reads(c), e.seal[c] = "PASS"
                 PROVE  <<q, "build">> \in e.built
      BY DEF Backed
    <2>1. CASE c = p BY <2>1, <1>2, <1>3 DEF Founded, Listed
    <2>2. CASE c # p BY <2>2, <1>2, <1>3 DEF Listed, DirInv, Backed
    <2> QED BY <2>1, <2>2
  <1>9. Whole(e)
    <2> SUFFICES ASSUME NEW q \in Sources, e.seal[q] = "PASS", q \notin e.torn
                 PROVE  <<q, "build">> \in e.built
      BY DEF Whole
    <2>0. q \in Stages BY DEF Sources, Stages
    <2>1. CASE q = p BY <2>0, <2>1, <1>2, <1>3 DEF Founded
    <2>2. CASE q # p BY <2>0, <2>2, <1>2, <1>3 DEF DirInv, Whole
    <2> QED BY <2>1, <2>2
  <1>10. Ranked(e)
    <2>0. {"costs", "final", "risk"} \subseteq Stages BY DEF Stages
    <2>1. CASE p = "risk" BY <2>0, <2>1, <1>3 DEF DirInv, Ranked, Baseless
    <2>2. CASE p # "risk" BY <2>0, <2>2, <1>3 DEF DirInv, Ranked, Founded
    <2> QED BY <2>1, <2>2
  <1>11. Reported(e)
    <2>0. {"scores", "final", "risk", "final_report"} \subseteq Stages BY DEF Stages
    <2>1. SUFFICES ASSUME Accepts(e, "final_report")
                   PROVE  \A q \in {"scores", "risk", "final"} : e.seal[q] = "PASS"
      BY DEF Reported
    <2>2. e.seal["final_report"] = "PASS" /\ "final_report" \notin e.outdated /\ ~e.marker
      BY <2>1 DEF Accepts, ByPath
    <2>3. CASE p = "final_report" BY <2>0, <2>2, <2>3, <1>3 DEF Founded
    <2>4. CASE p # "final_report"
      <3>1. Accepts(d, "final_report") BY <2>0, <2>2, <2>4, <1>2, <1>3 DEF Accepts
      <3>2. "final_report" \notin Readers(p) BY <2>0, <2>2, <2>4, <1>2, <1>3, <1>6
      <3>3. p \notin ReportReads BY <3>2, <2>0 DEF Readers, Reads
      <3>4. p = "risk" => a # "FAIL" BY <3>1 DEF Baseless
      <3> QED BY <3>1, <3>3, <3>4, <2>0, <1>3 DEF DirInv, Reported, ReportReads
    <2> QED BY <2>3, <2>4
  <1> QED BY <1>2, <1>3, <1>7, <1>8, <1>9, <1>10, <1>11 DEF DirInv, e

LEMMA UnreadOthers == ASSUME NEW d, NEW p, p \notin Sources PROVE Unread(d, p)
  BY SourceReads DEF Unread

(* After its invalidation nothing kept reads what a builder is to write.   *)
LEMMA UnlinkedUnread ==
    ASSUME NEW d, DirInv(d), NEW s \in Scripts, s[2] = "build"
    PROVE  Unread(InvalidatedUpTo(d, s, 13), s[1])
  <1>1. s = <<s[1], "build">> BY ScriptShape
  <1>2. \A p \in Stages : InvalidatedUpTo(d, s, 13).seal[p]
                             = IF p \in Unlinked(s, 13) THEN "none" ELSE d.seal[p]
    <2>1. 13 \in 0..13 OBVIOUS
    <2> QED BY <2>1, InvalidatedInv
  <1>3. \A c \in Listed : s[1] \in Reads(c) => c \in Unlinked(s, 13) BY <1>1, ReadersUnlinked
  <1> QED BY <1>2, <1>3 DEF Unread, Listed

LEMMA RiskDepends ==
    ASSUME NEW s \in Scripts, s[1] = "risk"
    PROVE  /\ "costs" \in Unlinked(s, 13) /\ "final" \in Unlinked(s, 13) /\ MarksReport(s)
  <1>1. s[2] \in Kinds BY ScriptShape
  <1>2. "costs" \in Dependencies(s) /\ "final" \in Dependencies(s) BY <1>1 DEF Dependencies, Kinds
  <1> QED BY <1>2, UnlinkedBy, FileTable DEF MarksReport

(* A forced script removes what its stage had.                             *)
LEMMA ClearedInv ==
    ASSUME NEW d, DirInv(d), NEW s \in Scripts,
           s[1] = "risk" => d.marker = TRUE /\ Baseless(d),
           s[2] = "build" /\ s[1] \in KeepsGate => Unread(d, s[1])
    PROVE  /\ DirInv(Cleared(d, s)) /\ Eroded(d, Cleared(d, s))
           /\ Cleared(d, s).marker = d.marker
           /\ s[2] # "build" => Cleared(d, s).built = d.built
           /\ s[1] \in SingleStages => Cleared(d, s).seal = d.seal
           /\ \A p \in Stages : p # s[1] => Cleared(d, s).seal[p] = d.seal[p]
  <1>1. s[1] \in Stages /\ s = <<s[1], s[2]>> BY ScriptShape
  <1>2. CASE s[1] \in SingleStages BY <1>2, ErodedSelf DEF Cleared
  <1>3. CASE s[1] \notin SingleStages /\ s[2] = "build" /\ s[1] \in KeepsGate
    <2> DEFINE e == Cleared(d, s)
               torn == {p \in {s[1]} : d.seal[p] # "none"}
    <2>1. e = [d EXCEPT !.built = @ \ {s}, !.torn = @ \cup torn] BY <1>3 DEF Cleared
    <2>2. torn \in SUBSET KeepsGate BY <1>3
    <2> HIDE DEF e
    <2>3. /\ Typed(e) /\ e.built = d.built \ {s} /\ e.seal = d.seal /\ e.outdated = d.outdated
          /\ e.torn = d.torn \cup torn /\ e.marker = d.marker
      BY <2>1, <2>2 DEF DirInv, Typed
    <2>4. Current(e) /\ Ranked(e) BY <2>3 DEF DirInv, Current, Ranked
    <2>5. Reported(e) BY <2>3 DEF DirInv, Reported, Accepts
    <2>6. Backed(e) BY <2>3, <1>1, <1>3 DEF DirInv, Backed, Unread
    <2>7. Whole(e) BY <2>3, <1>1 DEF DirInv, Whole
    <2>8. Eroded(d, e) BY <2>3, <1>1, <1>3 DEF Eroded, KeepsGate
    <2> QED BY <2>3, <2>4, <2>5, <2>6, <2>7, <2>8, <1>3 DEF DirInv, e
  <1>4. CASE s[1] \notin SingleStages /\ ~(s[2] = "build" /\ s[1] \in KeepsGate)
    <2>1. Cleared(d, s) = Without(d, {s[1]}) BY <1>4 DEF Cleared
    <2>2. {s[1]} \in SUBSET Stages BY <1>1
    <2>3. "risk" \in {s[1]} => d.marker /\ d.seal["costs"] # "PASS" /\ d.seal["final"] # "PASS"
      BY DEF Baseless
    <2>4. Typed(d) BY DEF DirInv
    <2>5. DirInv(Cleared(d, s)) /\ Eroded(d, Cleared(d, s)) BY <2>1, <2>2, <2>3, WithoutInv
    <2>6. /\ Cleared(d, s).built = d.built /\ Cleared(d, s).marker = d.marker
          /\ Cleared(d, s).seal = [p \in Stages |-> IF p \in {s[1]} THEN "none" ELSE d.seal[p]]
      BY <2>1, <2>2, <2>4, WithoutFields
    <2> QED BY <2>5, <2>6, <1>4
  <1> QED BY <1>2, <1>3, <1>4

(* What a forced script has done before it starts its work.                *)
LEMMA PreparedInv ==
    ASSUME NEW d, DirInv(d), NEW s \in Scripts
    PROVE  LET e == Prepared(d, s) IN
           /\ DirInv(e) /\ Eroded(d, e)
           /\ s[2] # "build" => e.built = d.built
           /\ s[2] = "build" => Unread(e, s[1])
           /\ s[1] = "risk" => Baseless(e)
           /\ \A p \in Stages : p # s[1] /\ p \notin Unlinked(s, 13) => e.seal[p] = d.seal[p]
  <1>0. Len(Files) = 13 /\ 13 \in 0..13 BY FileTable
  <1>1. CASE s[2] = "build" /\ s[1] \in OwnFirst
    <2> DEFINE m == Cleared(d, s)
    <2>1. s[1] # "risk" /\ s[1] \notin KeepsGate BY <1>1 DEF OwnFirst, KeepsGate
    <2>2. DirInv(m) /\ Eroded(d, m) /\ \A p \in Stages : p # s[1] => m.seal[p] = d.seal[p]
      BY <2>1, ClearedInv
    <2> HIDE DEF m
    <2>3. Prepared(d, s) = InvalidatedUpTo(m, s, 13) BY <1>0, <1>1 DEF Prepared, Invalidated, m
    <2>4. Unread(InvalidatedUpTo(m, s, 13), s[1]) BY <2>2, <1>1, UnlinkedUnread
    <2>5. /\ DirInv(InvalidatedUpTo(m, s, 13)) /\ Eroded(m, InvalidatedUpTo(m, s, 13))
          /\ \A p \in Stages : InvalidatedUpTo(m, s, 13).seal[p]
                                = IF p \in Unlinked(s, 13) THEN "none" ELSE m.seal[p]
      <3>1. DirInv(m) /\ s \in Scripts /\ 13 \in 0..13 BY <2>2
      <3> QED BY <3>1, InvalidatedInv
    <2>6. Eroded(d, InvalidatedUpTo(m, s, 13)) BY <2>2, <2>5, ErodedTwice
    <2> QED BY <1>1, <2>1, <2>2, <2>3, <2>4, <2>5, <2>6
  <1>2. CASE ~(s[2] = "build" /\ s[1] \in OwnFirst)
    <2> DEFINE m == InvalidatedUpTo(d, s, 13)
    <2>1. /\ DirInv(m) /\ Eroded(d, m) /\ m.built = d.built
          /\ \A p \in Stages : m.seal[p] = IF p \in Unlinked(s, 13) THEN "none" ELSE d.seal[p]
          /\ MarksReport(s) => m.marker = TRUE
      BY <1>0, InvalidatedInv
    <2>2. s[2] = "build" => Unread(m, s[1]) BY UnlinkedUnread
    <2>3. Prepared(d, s) = Cleared(m, s) BY <1>0, <1>2 DEF Prepared, Invalidated
    <2> HIDE DEF m
    <2>4. ASSUME s[1] = "risk" PROVE m.marker = TRUE /\ Baseless(m)
      <3>1. m.marker = TRUE /\ m.seal["costs"] = "none" /\ m.seal["final"] = "none"
        BY <2>1, <2>4, RiskDepends DEF Stages
      <3> QED BY <3>1 DEF Baseless, Accepts
    <2>5. /\ DirInv(Cleared(m, s)) /\ Eroded(m, Cleared(m, s))
          /\ Cleared(m, s).marker = m.marker
          /\ s[2] # "build" => Cleared(m, s).built = m.built
          /\ \A p \in Stages : p # s[1] => Cleared(m, s).seal[p] = m.seal[p]
      BY <2>1, <2>2, <2>4, ClearedInv
    <2>6. Eroded(d, Cleared(m, s)) BY <2>1, <2>5, ErodedTwice
    <2>7. s[2] = "build" => Unread(Cleared(m, s), s[1]) BY <2>2, <2>5, UnreadEroded
    <2>8. s[1] = "risk" => Baseless(Cleared(m, s))
      BY <2>4, <2>5 DEF Baseless, Accepts, Eroded, Stages
    <2> QED BY <2>1, <2>3, <2>5, <2>6, <2>7, <2>8
  <1> QED BY <1>1, <1>2

(* And the directories it leaves when it stops before that.                *)
LEMMA PreparingInv ==
    ASSUME NEW d, DirInv(d), NEW s \in Scripts, NEW e \in Preparing(d, s)
    PROVE  DirInv(e) /\ Eroded(d, e)
  <1>0. Len(Files) = 13 BY FileTable
  <1> DEFINE first == IF s[2] = "build" /\ s[1] \in OwnFirst THEN Cleared(d, s) ELSE d
  <1>1. DirInv(first) /\ Eroded(d, first)
    <2>1. s[1] \in OwnFirst => s[1] # "risk" /\ s[1] \notin KeepsGate BY DEF OwnFirst, KeepsGate
    <2> QED BY <2>1, ClearedInv, ErodedSelf
  <1>2. \/ e \in {d, first, Prepared(d, s)}
        \/ \E n \in 0..13 : e = InvalidatedUpTo(first, s, n)
    BY <1>0 DEF Preparing
  <1> HIDE DEF first
  <1>3. CASE e \in {d, first, Prepared(d, s)} BY <1>1, <1>3, PreparedInv, ErodedSelf
  <1>4. ASSUME NEW n \in 0..13, e = InvalidatedUpTo(first, s, n)
        PROVE  DirInv(e) /\ Eroded(d, e)
    BY <1>1, <1>4, InvalidatedInv, ErodedTwice
  <1> QED BY <1>2, <1>3, <1>4

LEMMA AnnouncedInv ==
    ASSUME NEW d, DirInv(d), NEW s, NEW force
    PROVE  LET e == Announced(d, s, force) IN
           DirInv(e) /\ Eroded(d, e) /\ e.seal = d.seal /\ e.built = d.built
           /\ (Baseless(d) => Baseless(e))
  <1> DEFINE e == Announced(d, s, force)
  <1>1. CASE e = d BY <1>1, ErodedSelf
  <1>2. CASE e = [d EXCEPT !.marker = TRUE]
    <2> HIDE DEF e
    <2>1. DirInv(e) /\ Eroded(d, e) /\ e.seal = d.seal /\ e.built = d.built /\ e.marker = TRUE
      BY <1>2, MarkInv
    <2> QED BY <2>1 DEF Baseless, Accepts, e
  <1> QED BY <1>1, <1>2 DEF Announced

LEMMA BegunInv ==
    ASSUME NEW d, DirInv(d), NEW s \in Scripts, Unread(d, s[1])
    PROVE  LET e == Begun(d, s) IN
           /\ DirInv(e) /\ Eroded(d, e) /\ e.seal = d.seal /\ Unread(e, s[1])
           /\ e.built = IF s[2] # "seal" THEN d.built \cup {s} ELSE d.built
           /\ (Baseless(d) => Baseless(e))
  <1> DEFINE e == Begun(d, s)
             torn == {p \in {s[1]} : d.seal[p] # "none"}
  <1>0. s[1] \in Stages BY ScriptShape
  <1>1. CASE s[2] # "seal"
    <2> DEFINE m == [d EXCEPT !.built = @ \cup {s}]
    <2>1. /\ Typed(m) /\ m.built = d.built \cup {s} /\ m.seal = d.seal
          /\ m.outdated = d.outdated /\ m.torn = d.torn /\ m.marker = d.marker
      BY DEF DirInv, Typed
    <2>2. e = Rewritten(m, s[1]) BY <1>1 DEF Begun
    <2> HIDE DEF m, e
    <2>3. Current(m) /\ Backed(m) /\ Whole(m) /\ Ranked(m) /\ Reported(m)
      BY <2>1 DEF DirInv, Current, Backed, Whole, Ranked, Reported, Accepts
    <2>4. DirInv(m) /\ Unread(m, s[1]) BY <2>1, <2>3 DEF DirInv, Unread
    <2>5. /\ DirInv(e) /\ e.built = m.built /\ e.seal = m.seal
          /\ e.marker = m.marker /\ m.outdated \subseteq e.outdated
      BY <1>0, <2>2, <2>4, RewrittenInv
    <2>6. Unread(e, s[1]) BY <2>4, <2>5 DEF Unread
    <2>7. Eroded(d, e) BY <2>1, <2>5 DEF Eroded
    <2>8. Baseless(d) => Baseless(e) BY <2>1, <2>5 DEF Baseless, Accepts
    <2> QED BY <1>1, <2>1, <2>5, <2>6, <2>7, <2>8 DEF e
  <1>2. CASE s[2] = "seal" /\ s[1] \in SingleStages \ {"final_report"}
    <2> DEFINE m == [d EXCEPT !.torn = @ \cup torn]
    <2>0. torn \in SUBSET SingleStages BY <1>2
    <2>1. /\ Typed(m) /\ m.built = d.built /\ m.seal = d.seal
          /\ m.outdated = d.outdated /\ m.torn = d.torn \cup torn /\ m.marker = d.marker
      BY <2>0 DEF DirInv, Typed
    <2>2. e = Rewritten(m, s[1]) BY <1>2 DEF Begun
    <2> HIDE DEF m, e, torn
    <2>3. Current(m) /\ Backed(m) /\ Whole(m) /\ Ranked(m) /\ Reported(m)
      BY <2>1 DEF DirInv, Current, Backed, Whole, Ranked, Reported, Accepts
    <2>4. DirInv(m) /\ Unread(m, s[1]) BY <2>1, <2>3 DEF DirInv, Unread
    <2>5. /\ DirInv(e) /\ e.built = m.built /\ e.seal = m.seal
          /\ e.marker = m.marker /\ m.outdated \subseteq e.outdated
      BY <1>0, <2>2, <2>4, RewrittenInv
    <2>6. Unread(e, s[1]) BY <2>4, <2>5 DEF Unread
    <2>7. Eroded(d, e) BY <2>1, <2>5 DEF Eroded
    <2>8. Baseless(d) => Baseless(e) BY <2>1, <2>5 DEF Baseless, Accepts
    <2> QED BY <1>2, <2>1, <2>5, <2>6, <2>7, <2>8 DEF e
  <1>3. CASE s[2] = "seal" /\ s[1] \notin SingleStages \ {"final_report"}
    BY <1>3, ErodedSelf DEF Begun
  <1> QED BY <1>1, <1>2, <1>3

(***************************************************************************)
(* The steps of a plan                                                     *)
(***************************************************************************)
LEMMA StepIn ==
    ASSUME NEW plan \in Seq(DOMAIN Groups), NEW a \in Steps(plan)
    PROVE  /\ a = <<a[1], a[2]>> /\ a[1] \in 1..Len(plan) /\ plan[a[1]] \in DOMAIN Groups
           /\ a[2] \in 1..Len(Groups[plan[a[1]]]) /\ a[1] \in Nat /\ a[2] \in Nat
           /\ Shape(Groups[plan[a[1]]]) /\ StepAt(plan, a) \in Scripts
  <1>1. PICK j \in DOMAIN plan : a \in {j} \X DOMAIN Groups[plan[j]] BY DEF Steps
  <1>2. j \in 1..Len(plan) /\ plan[j] \in DOMAIN Groups OBVIOUS
  <1>3. Shape(Groups[plan[j]]) BY <1>2, Shapes
  <1>4. a = <<a[1], a[2]>> /\ a[1] = j /\ a[2] \in 1..Len(Groups[plan[j]]) BY <1>1, <1>3 DEF Shape
  <1>5. StepAt(plan, a) \in Scripts BY <1>2, <1>4, ScriptOf DEF StepAt
  <1> QED BY <1>2, <1>3, <1>4, <1>5 DEF Shape

LEMMA InSteps ==
    ASSUME NEW plan \in Seq(DOMAIN Groups), NEW j \in 1..Len(plan),
           NEW k \in 1..Len(Groups[plan[j]])
    PROVE  <<j, k>> \in Steps(plan)
  <1>1. j \in DOMAIN plan /\ plan[j] \in DOMAIN Groups OBVIOUS
  <1>2. Shape(Groups[plan[j]]) BY <1>1, Shapes
  <1> QED BY <1>1, <1>2 DEF Steps, Shape

LEMMA DoneNone == ASSUME NEW plan \in Seq(DOMAIN Groups) PROVE Done(plan, <<0, 0>>) = {}
  <1> SUFFICES ASSUME NEW a \in Steps(plan) PROVE ~Earlier(a, <<0, 0>>) BY DEF Done
  <1> QED BY StepIn DEF Earlier

LEMMA DoneAfter ==
    ASSUME NEW plan \in Seq(DOMAIN Groups), NEW a \in Steps(plan)
    PROVE  Done(plan, <<a[1], a[2] + 1>>) = Done(plan, a) \cup {a}
  <1>1. a = <<a[1], a[2]>> /\ a[1] \in Nat /\ a[2] \in Nat BY StepIn
  <1>2. ASSUME NEW b \in Steps(plan)
        PROVE  Earlier(b, <<a[1], a[2] + 1>>) <=> Earlier(b, a) \/ b = a
    <2>1. b = <<b[1], b[2]>> /\ b[1] \in Nat /\ b[2] \in Nat BY StepIn
    <2>2. b = a <=> b[1] = a[1] /\ b[2] = a[2] BY <1>1, <2>1
    <2> QED BY <1>1, <2>1, <2>2 DEF Earlier
  <1> QED BY <1>2 DEF Done

LEMMA DoneGroup ==
    ASSUME NEW plan \in Seq(DOMAIN Groups), NEW g \in 0..Len(plan), NEW k \in Nat,
           g > 0 => k > Len(Groups[plan[g]])
    PROVE  /\ Done(plan, <<g + 1, 1>>) = Done(plan, <<g, k>>)
           /\ g = Len(plan) => Done(plan, <<g, k>>) = Steps(plan)
  <1>1. ASSUME NEW b \in Steps(plan)
        PROVE  /\ Earlier(b, <<g + 1, 1>>) <=> Earlier(b, <<g, k>>)
               /\ g = Len(plan) => Earlier(b, <<g, k>>)
    <2>1. /\ b[1] \in 1..Len(plan) /\ b[2] \in 1..Len(Groups[plan[b[1]]])
          /\ Len(Groups[plan[b[1]]]) \in Nat
      BY StepIn DEF Shape
    <2> QED BY <2>1 DEF Earlier
  <1> QED BY <1>1 DEF Done

LEMMA EarlierDone ==
    ASSUME NEW plan, NEW a, NEW b \in Done(plan, a)
    PROVE  b \in Steps(plan) /\ Earlier(b, a)
  BY DEF Done

(* A script and the one it follows in its stage are re-passes together.    *)
LEMMA StageRepeats ==
    ASSUME NEW plan \in Seq(DOMAIN Groups), NEW a \in Steps(plan), NEW b \in Steps(plan),
           b[1] = a[1], b[2] = a[2] + 1,
           StepAt(plan, b)[1] \in Builders, StepAt(plan, b)[2] # "build"
    PROVE  /\ StepAt(plan, a) = Before(StepAt(plan, b))
           /\ SelfForced(plan, b) => SelfForced(plan, a)
           /\ StepAt(plan, b) \notin NoForce => (SelfForced(plan, a) => SelfForced(plan, b))
  <1> DEFINE s == StepAt(plan, a)
             t == StepAt(plan, b)
  <1>1. /\ a[1] \in 1..Len(plan) /\ a[1] \in Nat /\ a[2] \in 1..Len(Groups[plan[a[1]]])
        /\ b[2] \in 1..Len(Groups[plan[b[1]]])
        /\ Shape(Groups[plan[b[1]]]) /\ s \in Scripts /\ t \in Scripts
    BY StepIn
  <1>2. s = Before(t)
    <2>0. Len(Groups[plan[b[1]]]) \in Nat /\ Len(Groups[plan[a[1]]]) \in Nat BY <1>1 DEF Shape
    <2>1. b[2] \in 2..Len(Groups[plan[b[1]]]) /\ b[2] - 1 = a[2] BY <1>1, <2>0
    <2>2. Groups[plan[b[1]]][b[2] - 1] = Before(Groups[plan[b[1]]][b[2]])
      BY <1>1, <2>1 DEF Shape, StepAt
    <2> QED BY <2>1, <2>2 DEF StepAt
  <1> HIDE DEF s, t
  <1>3. /\ s = <<s[1], s[2]>> /\ t = <<t[1], t[2]>> /\ s[1] = t[1] /\ t[1] \in Builders
        /\ s[2] \in Kinds \ {"seal"} /\ t[2] \in Kinds \ {"build"}
        /\ t[2] = "spread" => t[1] = "risk"
    BY <1>1, <1>2, ScriptShape DEF Before, t, Kinds
  <1>4. ScriptName(s) = s /\ ScriptName(t) = t
    BY <1>3 DEF ScriptName, Builders, Sources
  <1>5. ASSUME Repeats(plan, b) PROVE Repeats(plan, a)
    <2>1. PICK c \in Steps(plan) : c[1] < b[1] /\ ScriptName(StepAt(plan, c)) = t
      BY <1>4, <1>5 DEF Repeats, t
    <2>2. /\ c[1] \in 1..Len(plan) /\ c[2] \in 1..Len(Groups[plan[c[1]]])
          /\ Shape(Groups[plan[c[1]]]) /\ c[1] \in Nat
      BY StepIn
    <2>3. StepAt(plan, c) = t BY <2>1, <1>3 DEF ScriptName, Builders, Sources
    <2>4. c[2] \in 2..Len(Groups[plan[c[1]]]) BY <2>2, <2>3, <1>3 DEF Shape, StepAt
    <2>5. Groups[plan[c[1]]][c[2] - 1] = s BY <2>2, <2>3, <2>4, <1>2, <1>3 DEF Shape, StepAt
    <2>6. c[2] - 1 \in 1..Len(Groups[plan[c[1]]]) BY <2>2, <2>4 DEF Shape
    <2>7. <<c[1], c[2] - 1>> \in Steps(plan) BY <2>2, <2>6, InSteps
    <2>8. StepAt(plan, <<c[1], c[2] - 1>>) = s BY <2>5 DEF StepAt
    <2> QED BY <2>1, <2>7, <2>8 DEF Repeats, s
  <1>6. ASSUME Repeats(plan, a) PROVE Repeats(plan, b)
    <2>1. PICK c \in Steps(plan) : c[1] < a[1] /\ ScriptName(StepAt(plan, c)) = s
      BY <1>4, <1>6 DEF Repeats, s
    <2>2. /\ c[1] \in 1..Len(plan) /\ c[2] \in 1..Len(Groups[plan[c[1]]])
          /\ Shape(Groups[plan[c[1]]]) /\ c[1] \in Nat
      BY StepIn
    <2>3. StepAt(plan, c) = s BY <2>1, <1>3 DEF ScriptName, Builders, Sources
    <2> DEFINE h == Groups[plan[c[1]]]
               u == h[c[2] + 1]
    <2>4. h[c[2]] = s BY <2>3 DEF StepAt
    <2>5. c[2] + 1 \in 2..Len(h) /\ u[1] = s[1] /\ u[2] # "build"
      BY <2>2, <2>4, <1>3 DEF Shape
    <2>6. (c[2] + 1) - 1 = c[2] BY <2>2 DEF Shape
    <2>7. h[(c[2] + 1) - 1] = Before(u) BY <2>2, <2>5, <1>3 DEF Shape
    <2>8. c[2] + 1 \in 1..Len(h) BY <2>2, <2>5 DEF Shape
    <2>9. <<c[1], c[2] + 1>> \in Steps(plan) BY <2>2, <2>8, InSteps
    <2>10. u = StepAt(plan, <<c[1], c[2] + 1>>) BY DEF StepAt
    <2> HIDE DEF h, u
    <2>11. u \in Scripts BY <2>9, <2>10, StepIn
    <2>12. /\ u = <<u[1], u[2]>> /\ u[2] \in Kinds /\ Before(u) = s
           /\ u[2] = "spread" => u[1] = "risk"
      BY <2>11, <2>4, <2>6, <2>7, ScriptShape
    <2>13. u[2] = t[2]
      <3>1. CASE t[2] = "spread" BY <3>1, <2>5, <2>12, <1>2, <1>3 DEF Before, Kinds
      <3>2. CASE t[2] = "seal" BY <3>2, <2>5, <2>12, <1>2, <1>3 DEF Before, Kinds
      <3> QED BY <3>1, <3>2, <1>3 DEF Kinds
    <2>14. u = t BY <2>5, <2>12, <2>13, <1>3
    <2> QED BY <2>1, <2>9, <2>10, <2>14 DEF Repeats, t
  <1>7. s \notin NoForce BY <1>3 DEF NoForce
  <1> QED BY <1>2, <1>5, <1>6, <1>7 DEF SelfForced, s, t

(***************************************************************************)
(* The inductive invariant                                                 *)
(***************************************************************************)
RunRecords ==
    [on : BOOLEAN, request : Requests \cup {<<>>}, force : BOOLEAN, plan : Seq(DOMAIN Groups),
     g : Nat, k : Nat, recovery : BOOLEAN, soft : BOOLEAN, deferred : BOOLEAN, clean : BOOLEAN]

(* Where the run is in its plan. *)
Placed ==
    run.on => run.g \in 0..Len(run.plan) /\ (run.g > 0 => run.k \in 1..(Len(Groups[Group]) + 1))

(* The macro gate hashes the optimizer's book, which it does not ask for:  *)
(* the plan has the optimizer before it, and a book that was solved stays. *)
Ordered == \A a \in Seals(run.plan, "macro") : Done(run.plan, a) \cap Solving(run.plan) # {}
Solved ==
    run.on /\ Done(run.plan, Here) \cap Solving(run.plan) # {} =>
        <<"optimizer", "build">> \in dir.built

(* Past the builder of its stage, a run is in a stage that nothing kept    *)
(* reads: the builder invalidated it, or had nothing to overwrite.         *)
Seated ==
    AtScript /\ Script[1] \in Sources /\ Script[2] # "build" => Skips \/ Unread(dir, Script[1])
RunInv == Placed /\ Ordered /\ Solved /\ Seated
IInv == TypeOK /\ DirInv(dir) /\ RunInv

(* The script at hand is one of the plan.                                  *)
LEMMA AtWork ==
    ASSUME TypeOK, Placed, AtScript
    PROVE  /\ run.g \in 1..Len(run.plan) /\ Group \in DOMAIN Groups
           /\ run.k \in 1..Len(Groups[Group]) /\ run.plan \in Seq(DOMAIN Groups)
           /\ Script \in Scripts /\ Script = Groups[Group][run.k] /\ Shape(Groups[Group])
           /\ Here \in Steps(run.plan) /\ Here[1] = run.g /\ Here[2] = run.k
  <1>1. run.g \in 1..Len(run.plan) /\ run.plan \in Seq(DOMAIN Groups)
    BY DEF TypeOK, Placed, AtScript
  <1>2. Group \in DOMAIN Groups BY <1>1 DEF Group
  <1>3. Shape(Groups[Group]) BY <1>2, Shapes
  <1>4. run.k \in 1..Len(Groups[Group]) BY <1>1, <1>3 DEF Placed, AtScript, Shape
  <1>5. Here \in Steps(run.plan) BY <1>1, <1>4, InSteps DEF Here, Group
  <1>6. Script \in Scripts BY <1>1, <1>5, StepIn DEF Script
  <1> QED BY <1>1, <1>2, <1>3, <1>4, <1>5, <1>6 DEF Script, StepAt, Here, Group

LEMMA FewUnlinked ==
    ASSUME NEW s \in Scripts
    PROVE  /\ s[1] \in {"costs", "final", "final_report"} => "risk" \notin Unlinked(s, 13)
           /\ s[1] = "final_report" =>
                  "scores" \notin Unlinked(s, 13) /\ "final" \notin Unlinked(s, 13)
  <1>1. s[1] = "costs" => Dependencies(s) \subseteq {"bl", "sleeves", "exits", "payout", "governor", "final"}
    BY ScriptShape DEF Dependencies
  <1>2. s[1] \in {"final", "final_report"} => Dependencies(s) = {} BY ScriptShape DEF Dependencies
  <1>3. \A p \in Unlinked(s, 13) : \E k \in 1..13 : p = Files[k][2] /\ Files[k][1] \in Dependencies(s)
    BY DEF Unlinked
  <1> QED BY <1>1, <1>2, <1>3, FileTable

Started == Announced(IF Forced THEN Prepared(dir, Script) ELSE dir, Script, Forced)

(* When a script starts its work, no kept gate reads what it is to write:  *)
(* by force its readers were invalidated, and without it there was nothing *)
(* to read.                                                                *)
LEMMA StartedInv ==
    ASSUME IInv, AtScript, ~Skips, ~Refused
    PROVE  /\ DirInv(Started) /\ Eroded(dir, Started) /\ Unread(Started, Script[1])
           /\ Script[2] # "build" => Started.built = dir.built
           /\ Script = <<"risk", "seal">> => Baseless(Started)
           /\ \A p \in Stages : p # Script[1] /\ p \notin Unlinked(Script, 13) =>
                  Started.seal[p] = dir.seal[p]
  <1> DEFINE ready == IF Forced THEN Prepared(dir, Script) ELSE dir
  <1>1. Script \in Scripts /\ DirInv(dir) BY AtWork DEF IInv, RunInv
  <1>2. Script[1] \in Stages /\ Script[2] \in Kinds /\ Script = <<Script[1], Script[2]>>
    BY <1>1, ScriptShape
  <1>3. /\ DirInv(ready) /\ Eroded(dir, ready)
        /\ Script[2] # "build" => ready.built = dir.built
        /\ \A p \in Stages : p # Script[1] /\ p \notin Unlinked(Script, 13) =>
               ready.seal[p] = dir.seal[p]
    BY <1>1, PreparedInv, ErodedSelf
  <1>4. Unread(ready, Script[1])
    <2>1. CASE Script[1] \notin Sources BY <2>1, UnreadOthers
    <2>2. CASE Script[1] \in Sources /\ Script[2] # "build"
      <3>1. Unread(dir, Script[1]) BY <2>2 DEF IInv, RunInv, Seated
      <3> QED BY <3>1, <1>3, UnreadEroded
    <2>3. CASE Script[1] \in Sources /\ Script[2] = "build" /\ Forced
      BY <2>3, <1>1, PreparedInv
    <2>4. CASE Script[1] \in Sources /\ Script[2] = "build" /\ ~Forced
      <3>1. Script \notin dir.built BY <2>4 DEF Refused, Refuses, Unguarded, Sources
      <3>2. Script = <<Script[1], "build">> BY <1>2, <2>4
      <3>3. Unread(dir, Script[1]) BY <3>1, <3>2, <1>1 DEF DirInv, Backed, Unread
      <3> QED BY <3>3, <2>4
    <2> QED BY <2>1, <2>2, <2>3, <2>4
  <1>5. ASSUME Script = <<"risk", "seal">> PROVE Baseless(ready)
    <2>1. Script[1] = "risk" /\ Script[2] = "seal" BY <1>5
    <2>2. CASE Forced BY <2>1, <2>2, <1>1, PreparedInv
    <2>3. CASE ~Forced
      <3>1. dir.seal["risk"] = "none" BY <2>1, <2>3 DEF Refused, Refuses, Unguarded
      <3>2. Baseless(dir) BY <3>1, <1>1 DEF DirInv, Ranked, Reported, Baseless
      <3> QED BY <3>2, <2>3
    <2> QED BY <2>2, <2>3
  <1> HIDE DEF ready
  <1>6. Started = Announced(ready, Script, Forced) BY DEF Started, ready
  <1>7. /\ DirInv(Started) /\ Eroded(ready, Started) /\ Started.seal = ready.seal
        /\ Started.built = ready.built /\ (Baseless(ready) => Baseless(Started))
    BY <1>3, <1>6, AnnouncedInv
  <1>8. Eroded(dir, Started) BY <1>3, <1>7, ErodedTwice
  <1>9. Unread(Started, Script[1]) BY <1>4, <1>7, UnreadEroded
  <1> QED BY <1>3, <1>5, <1>7, <1>8, <1>9

(* A script that seals a PASS has what the seal stands on: the builders of *)
(* its inputs, whose gates it checked, and the optimizer for the macro.    *)
LEMMA StartedFounded ==
    ASSUME IInv, AtScript, ~Skips, ~Refused, Ready(dir, Script), Script[2] = "seal"
    PROVE  Founded(Started, Script[1])
  <1> DEFINE p == Script[1]
  <1>1. Script \in Scripts /\ DirInv(dir) /\ Here \in Steps(run.plan)
    BY AtWork DEF IInv, RunInv
  <1>2. p \in Stages /\ Script = <<p, "seal">> BY <1>1, ScriptShape
  <1>3. /\ Started.built = dir.built
        /\ \A q \in Stages : q # p /\ q \notin Unlinked(Script, 13) => Started.seal[q] = dir.seal[q]
    BY StartedInv
  <1>4. \A q \in Needs(p) : dir.seal[q] = "PASS" /\ q \notin dir.torn BY DEF Ready, Intact
  <1> HIDE DEF p
  <1>5. ASSUME p \in Listed, NEW q \in Reads(p) PROVE <<q, "build">> \in dir.built
    <2>0. q \in Sources BY <1>5, SourceReads
    <2>1. CASE q \in Needs(p) BY <2>0, <2>1, <1>1, <1>4 DEF DirInv, Whole
    <2>2. CASE q \notin Needs(p)
      <3>1. p = "macro" /\ q = "optimizer"
        BY <1>5, <2>2 DEF Listed, NotInvalidated, Needs, Reads, MacroReads
      <3>2. Here \in Seals(run.plan, "macro") BY <3>1, <1>1, <1>2 DEF Seals, Script
      <3>3. Done(run.plan, Here) \cap Solving(run.plan) # {} BY <3>2 DEF IInv, RunInv, Ordered
      <3> QED BY <3>1, <3>3 DEF IInv, RunInv, Solved, AtScript
    <2> QED BY <2>1, <2>2
  <1>6. p \in Sources => <<p, "build">> \in dir.built BY <1>2, SourceScript DEF Ready, p
  <1>7. p \in {"costs", "final"} => Started.seal["risk"] = "PASS"
    <2>1. "risk" \in Stages BY DEF Stages
    <2>2. CASE p = "costs"
      <3>1. "risk" \in Needs(p) BY <2>2 DEF Needs, Reads, CostReads
      <3> QED BY <2>1, <2>2, <3>1, <1>1, <1>3, <1>4, FewUnlinked DEF p
    <2>3. CASE p = "final"
      <3>1. "costs" \in Needs(p) BY <2>3 DEF Needs, Reads, FinalReads
      <3>2. dir.seal["risk"] = "PASS" BY <3>1, <1>1, <1>4 DEF DirInv, Ranked
      <3> QED BY <2>1, <2>3, <3>2, <1>1, <1>3, FewUnlinked DEF p
    <2> QED BY <2>2, <2>3
  <1>8. p = "final_report" => \A q \in {"scores", "risk", "final"} : Started.seal[q] = "PASS"
    <2>1. SUFFICES ASSUME p = "final_report"
                   PROVE  \A q \in {"scores", "risk", "final"} : Started.seal[q] = "PASS"
      OBVIOUS
    <2>2. "scores" \in Needs(p) /\ "final" \in Needs(p) BY <2>1 DEF Needs, Reads, ReportReads
    <2>3. \A q \in {"scores", "risk", "final"} : dir.seal[q] = "PASS"
      BY <2>2, <1>1, <1>4 DEF DirInv, Ranked
    <2>4. \A q \in {"scores", "risk", "final"} : q \notin Unlinked(Script, 13)
      BY <2>1, <1>1, FewUnlinked DEF p
    <2> QED BY <2>1, <2>3, <2>4, <1>3 DEF Stages
  <1> QED BY <1>3, <1>5, <1>6, <1>7, <1>8 DEF Founded, p

(* A script that succeeds, is cut short or fails keeps the directory sound.*)
LEMMA CompletedInv ==
    ASSUME IInv, AtScript, ~Skips, ~Refused, Ready(dir, Script)
    PROVE  LET e == Completed(Started, Script, Group) IN
           /\ DirInv(e)
           /\ Script[2] # "seal" => Unread(e, Script[1]) /\ Script \in e.built
           /\ <<"optimizer", "build">> \in dir.built => <<"optimizer", "build">> \in e.built
  <1> DEFINE d == Started
             e == Completed(Started, Script, Group)
             b == Begun(d, Script)
             p == Script[1]
  <1>1. Script \in Scripts BY AtWork DEF IInv, RunInv
  <1>2. p \in Stages /\ Script[2] \in Kinds /\ Script = <<p, Script[2]>> BY <1>1, ScriptShape
  <1>3. DirInv(d) /\ Eroded(dir, d) /\ Unread(d, p) BY StartedInv
  <1>4. Script[2] = "seal" => Founded(d, p) BY StartedFounded
  <1> HIDE DEF d, p
  <1>5. /\ DirInv(b) /\ Eroded(d, b) /\ b.seal = d.seal /\ Unread(b, p)
        /\ b.built = IF Script[2] # "seal" THEN d.built \cup {Script} ELSE d.built
    BY <1>1, <1>3, BegunInv DEF p
  <1> HIDE DEF b
  <1>6. CASE Script = <<"final_report", "seal">>
    <2> DEFINE m == Sealed(d, "final_report", "PASS")
    <2>0. p = "final_report" /\ Script[2] = "seal" BY <1>6 DEF p
    <2>1. /\ DirInv(m) /\ m.built = d.built
          /\ \A q \in Stages : m.seal[q] = IF q = "final_report" THEN "PASS" ELSE d.seal[q]
      BY <2>0, <1>2, <1>3, <1>4, SealedInv
    <2>2. e = [m EXCEPT !.marker = FALSE] BY <1>6 DEF Completed, Published, d
    <2> HIDE DEF m, e
    <2>3. /\ Typed(e) /\ e.built = m.built /\ e.seal = m.seal
          /\ e.outdated = m.outdated /\ e.torn = m.torn
      BY <2>1, <2>2 DEF DirInv, Typed
    <2>4. Current(e) /\ Backed(e) /\ Whole(e) /\ Ranked(e)
      BY <2>1, <2>3 DEF DirInv, Current, Backed, Whole, Ranked
    <2>5. Reported(e) BY <2>0, <2>1, <2>3, <1>4 DEF Reported, Founded, Stages
    <2> QED BY <2>0, <2>1, <2>3, <2>4, <2>5, <1>3 DEF DirInv, Eroded, e
  <1>7. CASE Script # <<"final_report", "seal">> /\ Script[2] = "seal"
    <2>1. e = Sealed(b, p, "PASS") BY <1>7 DEF Completed, b, p, d
    <2>2. Founded(b, p) BY <1>4, <1>5, <1>7 DEF Founded
    <2>3. DirInv(Sealed(b, p, "PASS")) /\ Sealed(b, p, "PASS").built = b.built
      BY <2>2, <1>2, <1>5, SealedInv
    <2> QED BY <2>1, <2>3, <1>3, <1>5, <1>7 DEF Eroded
  <1>8. CASE Script[2] # "seal" /\ p = "optimizer"
    <2>1. e = [b EXCEPT !.filtered = (Group = "monitor_filter")]
      BY <1>8, <1>2 DEF Completed, b, p, d
    <2> HIDE DEF e
    <2>2. /\ Typed(e) /\ e.built = b.built /\ e.seal = b.seal
          /\ e.outdated = b.outdated /\ e.torn = b.torn /\ e.marker = b.marker
      BY <2>1, <1>5 DEF DirInv, Typed
    <2>3. Current(e) /\ Backed(e) /\ Whole(e) /\ Ranked(e) /\ Reported(e)
      BY <2>2, <1>5 DEF DirInv, Current, Backed, Whole, Ranked, Reported, Accepts
    <2>4. Unread(e, p) BY <2>2, <1>5 DEF Unread
    <2> QED BY <2>2, <2>3, <2>4, <1>3, <1>5, <1>8 DEF DirInv, Eroded, e, p
  <1>9. CASE Script[2] # "seal" /\ p # "optimizer"
    <2>1. e = b BY <1>9, <1>2 DEF Completed, b, p, d
    <2> QED BY <2>1, <1>3, <1>5, <1>9 DEF Eroded, p
  <1> QED BY <1>6, <1>7, <1>8, <1>9 DEF e

LEMMA CutShortInv ==
    ASSUME IInv, AtScript, ~Skips, ~Refused, NEW e \in CutShort(dir, Script, Forced)
    PROVE  DirInv(e) /\ (Script[1] # "final_report" => Eroded(dir, e))
  <1> DEFINE d == Started
  <1>1. Script \in Scripts /\ DirInv(dir) BY AtWork DEF IInv, RunInv
  <1>2. DirInv(d) /\ Eroded(dir, d) /\ Unread(d, Script[1]) BY StartedInv
  <1>3. \/ e \in Preparing(dir, Script) \/ e = dir \/ e = d \/ e = Begun(d, Script)
        \/ Script[1] = "final_report" /\ Ready(d, Script) /\ e = Published(d)
    BY DEF CutShort, Started
  <1> HIDE DEF d
  <1>4. CASE e \in Preparing(dir, Script) BY <1>1, <1>4, PreparingInv
  <1>5. CASE e = dir \/ e = d BY <1>1, <1>2, <1>5, ErodedSelf
  <1>6. CASE e = Begun(d, Script)
    <2>1. DirInv(e) /\ Eroded(d, e) BY <1>1, <1>2, <1>6, BegunInv
    <2> QED BY <2>1, <1>2, ErodedTwice
  <1>7. CASE Script[1] = "final_report" /\ Ready(d, Script) /\ e = Published(d)
    <2>1. "final_report" \in Stages /\ "final_report" \notin Listed /\ "final_report" \notin Sources
      BY DEF Stages, Listed, ByPath, Sources
    <2>2. Unread(d, "final_report") BY <2>1, UnreadOthers
    <2>3. "scores" \in Needs("final_report") /\ "final" \in Needs("final_report")
      BY DEF Needs, Reads, ReportReads
    <2>4. d.seal["scores"] = "PASS" /\ d.seal["final"] = "PASS" BY <2>3, <1>7 DEF Ready, Intact
    <2>5. Founded(d, "final_report") BY <2>1, <2>4, <1>2 DEF Founded, DirInv, Ranked
    <2>6. DirInv(Sealed(d, "final_report", "PASS")) BY <2>1, <2>2, <2>5, <1>2, SealedInv
    <2> QED BY <2>6, <1>7 DEF Published
  <1> QED BY <1>3, <1>4, <1>5, <1>6, <1>7

LEMMA FailedInv ==
    ASSUME IInv, AtScript, ~Skips, ~Refused, NEW e \in Failed(dir, Script, Forced)
    PROVE  DirInv(e) /\ (Optional(Script) => Eroded(dir, e))
  <1> DEFINE d == Started
             b == Begun(d, Script)
  <1>1. Script \in Scripts BY AtWork DEF IInv, RunInv
  <1>2. Script[1] \in Stages /\ Script = <<Script[1], Script[2]>> BY <1>1, ScriptShape
  <1>3. DirInv(d) /\ Unread(d, Script[1]) /\ (Script = <<"risk", "seal">> => Baseless(d))
    BY StartedInv
  <1>4. \/ e \in CutShort(dir, Script, Forced)
        \/ Script[2] = "seal" /\ Script[1] # "final_report" /\ e = Sealed(b, Script[1], "FAIL")
    BY DEF Failed, Started
  <1> HIDE DEF d
  <1>5. DirInv(b) /\ Unread(b, Script[1]) /\ (Baseless(d) => Baseless(b)) BY <1>1, <1>3, BegunInv
  <1> HIDE DEF b
  <1>6. CASE e \in CutShort(dir, Script, Forced)
    <2>1. Optional(Script) => Script[1] # "final_report" BY <1>1, ScriptShape DEF Optional
    <2> QED BY <2>1, <1>6, CutShortInv
  <1>7. CASE Script[2] = "seal" /\ e = Sealed(b, Script[1], "FAIL")
    <2>1. Script[1] = "risk" => Baseless(b) BY <1>2, <1>3, <1>5, <1>7
    <2>2. DirInv(e) BY <2>1, <1>2, <1>5, <1>7, SealedInv
    <2> QED BY <2>2, <1>7 DEF Optional
  <1> QED BY <1>4, <1>6, <1>7

(* The run goes on to the next script of its group.                        *)
Advancing == AtScript /\ run' = [run EXCEPT !.k = @ + 1, !.soft = run'.soft]

LEMMA AdvanceDone ==
    ASSUME IInv, Advancing
    PROVE  /\ run'.on = run.on /\ run'.plan = run.plan /\ run'.g = run.g /\ run'.k = run.k + 1
           /\ run'.force = run.force /\ run'.request = run.request /\ run'.clean = run.clean
           /\ Group' = Group /\ Here' = <<Here[1], Here[2] + 1>>
           /\ Done(run.plan, Here') = Done(run.plan, Here) \cup {Here}
  <1>1. run.plan \in Seq(DOMAIN Groups) /\ Here \in Steps(run.plan)
    BY AtWork DEF IInv, RunInv, Advancing
  <1>2. /\ run'.on = run.on /\ run'.plan = run.plan /\ run'.g = run.g /\ run'.k = run.k + 1
        /\ run'.force = run.force /\ run'.request = run.request /\ run'.clean = run.clean
    BY DEF IInv, TypeOK, Advancing
  <1>3. Group' = Group /\ Here' = <<Here[1], Here[2] + 1>> BY <1>2 DEF Group, Here
  <1> QED BY <1>1, <1>2, <1>3, DoneAfter

(* The next script of a stage is forced by itself, and skipped over the    *)
(* same gate, as the one before it.                                        *)
LEMMA NextScript ==
    ASSUME IInv, Advancing, AtScript', Script'[1] \in Builders, Script'[2] # "build"
    PROVE  /\ Script = Before(Script') /\ Script[1] = Script'[1] /\ Script[2] # "seal"
           /\ SelfForced(run.plan, Here') => SelfForced(run.plan, Here)
           /\ Script' \notin NoForce =>
                  (SelfForced(run.plan, Here) => SelfForced(run.plan, Here'))
           /\ Skips /\ UNCHANGED dir => Skips'
  <1>1. /\ run.g \in 1..Len(run.plan) /\ run.plan \in Seq(DOMAIN Groups)
        /\ run.k \in 1..Len(Groups[Group]) /\ Here \in Steps(run.plan) /\ Shape(Groups[Group])
        /\ Here[1] = run.g /\ Here[2] = run.k
    BY AtWork DEF IInv, RunInv, Advancing
  <1>2. /\ run'.plan = run.plan /\ run'.g = run.g /\ run'.k = run.k + 1 /\ run'.force = run.force
        /\ Group' = Group /\ Here' = <<Here[1], Here[2] + 1>>
    BY AdvanceDone
  <1>3. run.k + 1 \in 1..Len(Groups[Group]) BY <1>1, <1>2 DEF AtScript, Shape
  <1>4. Here' \in Steps(run.plan) BY <1>1, <1>2, <1>3, InSteps DEF Group
  <1>5. Script' = StepAt(run.plan, Here') /\ Script = StepAt(run.plan, Here) BY <1>2 DEF Script
  <1>6. Here'[1] = Here[1] /\ Here'[2] = Here[2] + 1 BY <1>2
  <1>7. /\ Script = Before(Script')
        /\ SelfForced(run.plan, Here') => SelfForced(run.plan, Here)
        /\ Script' \notin NoForce =>
               (SelfForced(run.plan, Here) => SelfForced(run.plan, Here'))
    BY <1>1, <1>4, <1>5, <1>6, StageRepeats
  <1>8. Script[1] = Script'[1] /\ Script[2] # "seal" BY <1>7 DEF Before
  <1>9. Skips /\ UNCHANGED dir => Skips' BY <1>2, <1>7, <1>8 DEF Skips
  <1> QED BY <1>7, <1>8, <1>9

LEMMA NextSeated ==
    ASSUME IInv, Advancing,
           \/ Skips /\ UNCHANGED dir
           \/ Script[2] # "seal" /\ Unread(dir', Script[1])
           \/ Script[2] = "seal"
    PROVE  Seated'
  <1> SUFFICES ASSUME AtScript', Script'[1] \in Sources, Script'[2] # "build"
               PROVE  Skips' \/ Unread(dir', Script'[1])
    BY DEF Seated
  <1>1. Script'[1] \in Builders BY DEF Builders
  <1>2. Script[1] = Script'[1] /\ Script[2] # "seal" /\ (Skips /\ UNCHANGED dir => Skips')
    BY <1>1, NextScript
  <1> QED BY <1>2

LEMMA NextSolved ==
    ASSUME IInv, Advancing,
           <<"optimizer", "build">> \in dir.built => <<"optimizer", "build">> \in dir'.built,
           Script = <<"optimizer", "build">> => Script \in dir'.built
    PROVE  Solved'
  <1>1. /\ run'.on = run.on /\ run'.plan = run.plan
        /\ Done(run.plan, Here') = Done(run.plan, Here) \cup {Here}
    BY AdvanceDone
  <1>2. Here \in Solving(run.plan) => Script = <<"optimizer", "build">> BY DEF Solving, Script
  <1> QED BY <1>1, <1>2 DEF IInv, RunInv, Solved

LEMMA AdvanceStep ==
    ASSUME IInv, Advancing, DirInv(dir'), meta' = meta, statement' = statement, runs' = runs,
           faults' \in 0..MaxFaults, run'.soft \in BOOLEAN, Seated', Solved'
    PROVE  IInv'
  <1>1. run.g \in 1..Len(run.plan) /\ run.k \in 1..Len(Groups[Group])
    BY AtWork DEF IInv, RunInv, Advancing
  <1>2. /\ run'.g = run.g /\ run'.plan = run.plan /\ run'.k = run.k + 1 /\ run'.on = run.on
    BY AdvanceDone
  <1>3. TypeOK'
    <2>1. run' \in RunRecords
      <3>1. run \in RunRecords BY DEF IInv, TypeOK, RunRecords
      <3>2. \A b \in BOOLEAN : [run EXCEPT !.k = @ + 1, !.soft = b] \in RunRecords
        <4>1. run.k + 1 \in Nat BY <3>1 DEF RunRecords
        <4>2. ASSUME NEW b \in BOOLEAN PROVE [run EXCEPT !.k = run.k + 1, !.soft = b] \in RunRecords
          BY <3>1, <4>1 DEF RunRecords
        <4> QED BY <4>2
      <3> QED BY <3>2 DEF Advancing
    <2>2. dir' \in [built : SUBSET Scripts, seal : [Stages -> {"none", "PASS", "FAIL"}],
                    outdated : SUBSET Stages, torn : SUBSET Stages, marker : BOOLEAN,
                    filtered : BOOLEAN]
      BY DEF DirInv, Typed, SingleStages, KeepsGate, Stages
    <2> QED BY <2>1, <2>2 DEF IInv, TypeOK, RunRecords
  <1>4. Placed' BY <1>1, <1>2 DEF IInv, RunInv, Placed, Group
  <1>5. Ordered' BY <1>2 DEF IInv, RunInv, Ordered
  <1> QED BY <1>3, <1>4, <1>5 DEF IInv, RunInv

(* A run that is over has no place in its plan.                            *)
LEMMA EndStep ==
    ASSUME IInv, DirInv(dir'), NEW r, run' = Ended(r),
           r \in RunRecords,
           r.plan = run.plan, meta' \in Statuses, statement' = statement, runs' = runs,
           faults' \in 0..MaxFaults
    PROVE  IInv'
  <1>1. /\ run' \in RunRecords
        /\ run'.on = FALSE /\ run'.plan = run.plan
    BY DEF Ended, RunRecords
  <1>2. dir' \in [built : SUBSET Scripts, seal : [Stages -> {"none", "PASS", "FAIL"}],
                  outdated : SUBSET Stages, torn : SUBSET Stages, marker : BOOLEAN,
                  filtered : BOOLEAN]
    BY DEF DirInv, Typed, SingleStages, KeepsGate, Stages
  <1>3. TypeOK' BY <1>1, <1>2 DEF IInv, TypeOK, RunRecords
  <1>4. Placed' /\ Solved' /\ Seated' BY <1>1 DEF Placed, Solved, Seated, AtScript
  <1>5. Ordered' BY <1>1 DEF IInv, RunInv, Ordered
  <1> QED BY <1>3, <1>4, <1>5 DEF IInv, RunInv

(***************************************************************************)
(* Initiation and consecution                                              *)
(***************************************************************************)
LEMMA InitInv == Init => IInv
  <1> SUFFICES ASSUME Init PROVE IInv OBVIOUS
  <1>1. /\ run.on = FALSE /\ run.plan = <<>>
        /\ run \in RunRecords
    BY DEF Init, NoRun, RunRecords
  <1>2. /\ dir.built = {} /\ dir.outdated = {} /\ dir.torn = {} /\ dir.marker = FALSE
        /\ dir.seal = [p \in Stages |-> "none"] /\ Typed(dir)
    BY DEF Init, Empty, Typed
  <1>3. TypeOK BY <1>1, <1>2, ConstantsAssumption DEF Init, TypeOK, Typed, Statuses, Empty, RunRecords
  <1>4. \A p \in Stages : dir.seal[p] # "PASS" BY <1>2
  <1>5. DirInv(dir)
    BY <1>2, <1>4 DEF DirInv, Current, Backed, Whole, Ranked, Reported, Accepts, Listed, Sources, Stages
  <1>6. Ordered
    <2>1. DOMAIN run.plan = {} BY <1>1
    <2>2. Steps(run.plan) = {} BY <2>1 DEF Steps
    <2> QED BY <2>2 DEF Ordered, Seals
  <1>7. RunInv BY <1>1, <1>6 DEF RunInv, Placed, Solved, Seated, AtScript
  <1> QED BY <1>3, <1>5, <1>7 DEF IInv

LEMMA StepInv == IInv /\ [Next]_vars => IInv'
  <1> SUFFICES ASSUME IInv, [Next]_vars PROVE IInv' OBVIOUS
  <1>1. /\ DirInv(dir) /\ meta \in Statuses /\ faults \in 0..MaxFaults
        /\ MaxFaults \in Nat /\ MaxRuns \in Nat
        /\ run \in RunRecords
    BY ConstantsAssumption DEF IInv, TypeOK, RunRecords
  <1>2. ASSUME NEW request \in Requests, NEW force \in BOOLEAN, Begin(request, force)
        PROVE  IInv'
    <2> DEFINE plan == Plan(request)
    <2>1. /\ plan \in Seq(DOMAIN Groups)
          /\ \A a \in Seals(plan, "macro") : Done(plan, a) \cap Solving(plan) # {}
      <3>1. statement \in BOOLEAN /\ LedgerReady \in BOOLEAN BY DEF IInv, TypeOK, LedgerReady, Intact
      <3> QED BY <3>1, PlansAssumption DEF Plan
    <2> HIDE DEF plan
    <2>2. /\ run' \in RunRecords
          /\ run'.on /\ run'.plan = plan /\ run'.g = 0
      BY <1>2, <2>1 DEF Begin, NoRun, plan, RunRecords
    <2>3. TypeOK' BY <1>1, <1>2, <2>2 DEF Begin, IInv, TypeOK, Statuses, RunRecords
    <2>4. Placed' /\ Seated' BY <2>1, <2>2 DEF Placed, Seated, AtScript
    <2>6. Solved'
      <3>1. Here' = <<0, 0>> BY <1>2 DEF Begin, NoRun, Here
      <3> QED BY <2>1, <2>2, <3>1, DoneNone DEF Solved
    <2>5. Ordered' BY <2>1, <2>2 DEF Ordered
    <2> QED BY <1>1, <1>2, <2>3, <2>4, <2>5, <2>6 DEF Begin, IInv, RunInv
  <1>3. CASE NextGroup
    <2>1. CASE run.g = Len(run.plan)
      <3>1. Terminal \in Statuses BY DEF Terminal, Statuses
      <3> QED BY <3>1, <2>1, <1>1, <1>3, EndStep DEF NextGroup
    <2>2. CASE run.g # Len(run.plan)
      <3>1. run.on /\ run.g \in 0..Len(run.plan) /\ ~AtScript BY <1>3 DEF IInv, RunInv, Placed, NextGroup
      <3>2. run.g + 1 \in 1..Len(run.plan) BY <1>1, <2>2, <3>1
      <3>4. /\ run' \in RunRecords
            /\ run'.on = run.on /\ run'.plan = run.plan /\ run'.g = run.g + 1 /\ run'.k = 1
        <4>0. run.g + 1 \in Nat BY <1>1 DEF RunRecords
        <4>1. ASSUME NEW b \in BOOLEAN
              PROVE  LET r == [run EXCEPT !.g = run.g + 1, !.k = 1, !.recovery = b]
                     IN  /\ r \in RunRecords /\ r.on = run.on /\ r.plan = run.plan
                         /\ r.g = run.g + 1 /\ r.k = 1
          BY <1>1, <4>0 DEF RunRecords
        <4>2. run' = [run EXCEPT !.g = @ + 1, !.k = 1,
                         !.recovery = ~run.force /\ NeedsRecovery(run.plan[run.g + 1])]
          BY <1>3, <2>2 DEF NextGroup
        <4>3. (~run.force /\ NeedsRecovery(run.plan[run.g + 1])) \in BOOLEAN OBVIOUS
        <4> QED BY <4>1, <4>2, <4>3
      <3>5. Group' \in DOMAIN Groups BY <3>2, <3>4 DEF Group, RunRecords
      <3>6. Shape(Groups[Group']) BY <3>5, Shapes
      <3>7. UNCHANGED <<meta, dir, statement, runs, faults>> BY <1>3, <2>2 DEF NextGroup
      <3>8. TypeOK' BY <3>4, <3>7 DEF IInv, TypeOK, RunRecords
      <3>9. Placed' BY <3>2, <3>4, <3>6 DEF Placed, Shape
      <3>10. Ordered' BY <3>4 DEF IInv, RunInv, Ordered
      <3>11. Seated'
        <4>1. Script' = Groups[Group'][1] BY <3>4 DEF Script, StepAt, Here, Group
        <4> QED BY <4>1, <3>6 DEF Seated, Shape, Builders
      <3>12. Solved'
        <4>1. run.plan \in Seq(DOMAIN Groups) /\ run.k \in Nat BY <1>1 DEF RunRecords
        <4>2. run.g > 0 => run.k > Len(Groups[run.plan[run.g]])
          <5> SUFFICES ASSUME run.g > 0 PROVE run.k > Len(Groups[Group]) BY DEF Group
          <5>1. Group \in DOMAIN Groups BY <3>1, <4>1 DEF Group
          <5>2. Shape(Groups[Group]) BY <5>1, Shapes
          <5> QED BY <3>1, <4>1, <5>2 DEF AtScript, Shape
        <4>3. Done(run.plan, <<run.g + 1, 1>>) = Done(run.plan, <<run.g, run.k>>)
          BY <3>1, <4>1, <4>2, DoneGroup
        <4>4. Here' = <<run.g + 1, 1>> BY <3>4 DEF Here
        <4> QED BY <3>4, <3>7, <4>3, <4>4 DEF IInv, RunInv, Solved, Here
      <3> QED BY <1>1, <3>7, <3>8, <3>9, <3>10, <3>11, <3>12 DEF IInv, RunInv
    <2> QED BY <2>1, <2>2
  <1>4. CASE Skip
    <2>1. /\ AtScript /\ Skips /\ UNCHANGED <<meta, dir, statement, runs, faults>>
          /\ run' = [run EXCEPT !.k = @ + 1]
      BY <1>4 DEF Skip, Advance
    <2>2. Advancing /\ run'.soft \in BOOLEAN BY <2>1, <1>1 DEF RunRecords, Advancing
    <2>3. Seated' BY <2>1, <2>2, NextSeated
    <2>4. ASSUME Script = <<"optimizer", "build">> PROVE Script \in dir'.built
      <3>1. dir.seal["optimizer"] = "PASS" BY <2>1, <2>4 DEF Skips, Accepts
      <3>2. "optimizer" \notin dir.torn BY <1>1 DEF DirInv, Typed, SingleStages, KeepsGate
      <3>3. "optimizer" \in Sources BY DEF Sources
      <3> QED BY <2>1, <2>4, <3>1, <3>2, <3>3, <1>1 DEF DirInv, Whole
    <2>5. Solved' BY <2>1, <2>2, <2>4, NextSolved
    <2> QED BY <2>1, <2>2, <2>3, <2>5, <1>1, AdvanceStep
  <1>5. CASE Succeed
    <2>1. /\ AtScript /\ ~Skips /\ ~Refused /\ Ready(dir, Script)
          /\ dir' = Completed(Started, Script, Group)
          /\ UNCHANGED <<meta, statement, runs, faults>> /\ run' = [run EXCEPT !.k = @ + 1]
      BY <1>5 DEF Succeed, Advance, Started
    <2>2. Advancing /\ run'.soft \in BOOLEAN BY <2>1, <1>1 DEF RunRecords, Advancing
    <2>3. /\ DirInv(dir') /\ (Script[2] # "seal" => Unread(dir', Script[1]) /\ Script \in dir'.built)
          /\ <<"optimizer", "build">> \in dir.built => <<"optimizer", "build">> \in dir'.built
      BY <2>1, CompletedInv
    <2>4. Seated' BY <2>1, <2>2, <2>3, NextSeated
    <2>5. Script = <<"optimizer", "build">> => Script \in dir'.built BY <2>3
    <2>6. Solved' BY <2>1, <2>2, <2>3, <2>5, NextSolved
    <2> QED BY <2>1, <2>2, <2>3, <2>4, <2>6, <1>1, AdvanceStep
  <1>6. CASE Fail
    <2>1. AtScript /\ ~Skips /\ faults' \in 0..MaxFaults /\ UNCHANGED <<statement, runs>>
      BY <1>1, <1>6 DEF Fail
    <2>2. Script \in Scripts BY <2>1, AtWork DEF IInv, RunInv
    <2>3. DirInv(dir') /\ (Optional(Script) => Eroded(dir, dir'))
      <3>1. CASE Refused BY <3>1, <1>1, <1>6, ErodedSelf DEF Fail
      <3>2. CASE ~Refused
        <4>1. dir' \in Failed(dir, Script, Forced) BY <3>2, <1>6 DEF Fail
        <4> QED BY <4>1, <3>2, <2>1, FailedInv
      <3> QED BY <3>1, <3>2
    <2>4. CASE Optional(Script)
      <3>1. run' = [run EXCEPT !.k = @ + 1, !.soft = TRUE] /\ meta' = meta BY <2>4, <1>6 DEF Fail
      <3>2. Advancing /\ run'.soft \in BOOLEAN BY <2>1, <3>1, <1>1 DEF RunRecords, Advancing
      <3>3. Script[1] = "risk" /\ Script[2] = "spread" BY <2>2, <2>4, ScriptShape DEF Optional
      <3>4. Unread(dir, Script[1]) BY <2>1, <3>3 DEF IInv, RunInv, Seated, Sources
      <3>5. Unread(dir', Script[1]) BY <3>4, <2>3, <2>4, UnreadEroded
      <3>6. Seated' BY <2>1, <3>2, <3>3, <3>5, NextSeated
      <3>7. Solved'
        <4>1. <<"optimizer", "build">> \in dir.built => <<"optimizer", "build">> \in dir'.built
          BY <2>3, <2>4 DEF Eroded
        <4>2. Script # <<"optimizer", "build">> BY <3>3
        <4> QED BY <4>1, <4>2, <2>1, <3>2, NextSolved
      <3> QED BY <2>1, <2>3, <3>1, <3>2, <3>6, <3>7, AdvanceStep
    <2>5. CASE ~Optional(Script)
      <3> DEFINE r == [run EXCEPT !.clean = @ /\ (Refused \/ ~Ready(dir, Script))]
      <3>1. run' = Ended(r) /\ meta' = "FAIL" BY <2>5, <1>6 DEF Fail
      <3>2. /\ r \in RunRecords
            /\ r.plan = run.plan
        BY <1>1 DEF RunRecords
      <3>3. meta' \in Statuses BY <3>1 DEF Statuses
      <3> HIDE DEF r
      <3> QED BY <2>1, <2>3, <3>1, <3>2, <3>3, EndStep
    <2> QED BY <2>4, <2>5
  <1>7. CASE Stop
    <2> DEFINE r == [run EXCEPT !.clean = FALSE]
    <2>1. run' = Ended(r) /\ meta' \in Statuses /\ faults' \in 0..MaxFaults /\ UNCHANGED <<statement, runs>>
      BY <1>1, <1>7 DEF Stop, Statuses
    <2>2. /\ r \in RunRecords
          /\ r.plan = run.plan
      BY <1>1 DEF RunRecords
    <2>3. DirInv(dir')
      <3>1. CASE AtScript /\ ~Skips /\ ~Refused
        <4>1. dir' \in CutShort(dir, Script, Forced) BY <3>1, <1>7 DEF Stop
        <4> QED BY <4>1, <3>1, CutShortInv
      <3>2. CASE ~(AtScript /\ ~Skips /\ ~Refused) BY <3>2, <1>1, <1>7 DEF Stop
      <3> QED BY <3>1, <3>2
    <2> HIDE DEF r
    <2> QED BY <2>1, <2>2, <2>3, EndStep
  <1>8. CASE StatementArrives
    <2>1. UNCHANGED <<run, meta, dir, runs, faults>> /\ statement' = TRUE BY <1>8 DEF StatementArrives
    <2>2. TypeOK' BY <2>1 DEF IInv, TypeOK
    <2>3. RunInv'
      BY <2>1 DEF IInv, RunInv, Placed, Ordered, Solved, Seated, AtScript, Script, Group, Here, Skips
    <2> QED BY <1>1, <2>1, <2>2, <2>3 DEF IInv
  <1>9. CASE UNCHANGED vars
    <2>1. TypeOK' BY <1>9 DEF IInv, TypeOK, vars
    <2>2. RunInv'
      BY <1>9 DEF IInv, RunInv, Placed, Ordered, Solved, Seated, AtScript, Script, Group, Here, Skips, vars
    <2> QED BY <1>1, <1>9, <2>1, <2>2 DEF IInv, vars
  <1> QED BY <1>2, <1>3, <1>4, <1>5, <1>6, <1>7, <1>8, <1>9 DEF Next

(***************************************************************************)
(* The theorems                                                            *)
(***************************************************************************)
(* The invariant holds in every state of every sequence of pipeline runs.  *)
THEOREM Invariance == Spec => []IInv
  <1>1. Init => IInv BY InitInv
  <1>2. IInv /\ [Next]_vars => IInv' BY StepInv
  <1> QED BY <1>1, <1>2, PTL DEF Spec

(* The types of PortfolioPipeline.                                         *)
THEOREM TypeCorrect == Spec => []TypeOK
  <1>1. IInv => TypeOK BY DEF IInv
  <1> QED BY <1>1, Invariance, PTL

(* No gate that a resumed run of 18 accepts was sealed over other inputs   *)
(* than those on disk now.                                                 *)
THEOREM AcceptedGatesAreCurrent == Spec => []AcceptedIsCurrent
  <1>1. IInv => AcceptedIsCurrent
    BY DEF IInv, AcceptedIsCurrent, DirInv, Current, Accepts, Listed
  <1> QED BY <1>1, Invariance, PTL

(* No final report is accepted over a chain that is no longer sealed.      *)
THEOREM AcceptedReportsAreCurrent == Spec => []ReportIsCurrent
  <1>1. IInv => ReportIsCurrent
    <2> SUFFICES ASSUME IInv, Accepts(dir, "final_report"), NEW p \in {"scores", "risk", "final"}
                 PROVE  dir.seal[p] = "PASS" /\ p \notin dir.outdated
      BY DEF ReportIsCurrent
    <2>1. dir.seal[p] = "PASS" BY DEF IInv, DirInv, Reported
    <2>2. p \in Listed BY DEF Listed, Stages, ByPath, NotInvalidated
    <2> QED BY <2>1, <2>2 DEF IInv, DirInv, Current
  <1> QED BY <1>1, Invariance, PTL
================================================================================
