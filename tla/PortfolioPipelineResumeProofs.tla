-------------------- MODULE PortfolioPipelineResumeProofs ---------------------
(***************************************************************************)
(* What a cadence achieves, for any group lists that satisfy               *)
(* PlansAssumption, any number of runs, and any faults: a pass covers its  *)
(* plan, and a resumed run finishes.  The assumption says of a plan how    *)
(* its steps follow each other; here the directory is shown to agree with  *)
(* it at each step, whatever the earlier runs left behind.                 *)
(***************************************************************************)
EXTENDS PortfolioPipelineProofs

(***************************************************************************)
(* What a script changes, however far it gets: the stages it spares keep   *)
(* their gates and their freshness, no gate appears but its own, and what  *)
(* it leaves torn is its own stage.                                        *)
(***************************************************************************)
Spared(s) == {p \in Stages : p # s[1] /\ p \notin Undone(s)}
Affects(s, d, e) ==
    /\ \A p \in Spared(s) : e.seal[p] = d.seal[p] /\ (p \in e.outdated => p \in d.outdated)
    /\ "final_report" \in Spared(s) /\ e.marker => d.marker
    /\ \A p \in Stages : e.seal[p] = d.seal[p] \/ e.seal[p] = "none" \/ s = <<p, "seal">>
    /\ \A p : p \in e.torn => p \in d.torn \/ (p = s[1] /\ (s[2] = "seal" \/ p \in KeepsGate))
    /\ s[2] # "build" => d.built \subseteq e.built
    /\ s[1] # "overlay" /\ s # <<"optimizer", "build">> => e.filtered = d.filtered

LEMMA AffectsSelf == ASSUME NEW s, NEW d PROVE Affects(s, d, d)
  BY DEF Affects

LEMMA AffectsTwice ==
    ASSUME NEW s, NEW d, NEW e, NEW f, Affects(s, d, e), Affects(s, e, f)
    PROVE  Affects(s, d, f)
  <1>1. \A p \in Spared(s) : f.seal[p] = d.seal[p] /\ (p \in f.outdated => p \in d.outdated)
    BY DEF Affects
  <1>2. "final_report" \in Spared(s) /\ f.marker => d.marker BY DEF Affects
  <1>3. \A p \in Stages : f.seal[p] = d.seal[p] \/ f.seal[p] = "none" \/ s = <<p, "seal">>
    BY DEF Affects
  <1>4. \A p : p \in f.torn => p \in d.torn \/ (p = s[1] /\ (s[2] = "seal" \/ p \in KeepsGate))
    BY DEF Affects
  <1>5. s[2] # "build" => d.built \subseteq f.built BY DEF Affects
  <1>6. s[1] # "overlay" /\ s # <<"optimizer", "build">> => f.filtered = d.filtered
    BY DEF Affects
  <1> QED BY <1>1, <1>2, <1>3, <1>4, <1>5, <1>6 DEF Affects

LEMMA WithoutEffect ==
    ASSUME NEW d, Typed(d), NEW C \in SUBSET Stages
    PROVE  LET e == Without(d, C) IN
           /\ e.built = d.built /\ e.marker = d.marker /\ e.filtered = d.filtered
           /\ \A p \in Stages : e.seal[p] = IF p \in C THEN "none" ELSE d.seal[p]
           /\ \A p : p \in e.torn => p \in d.torn /\ p \notin C
           /\ \A p : p \in e.outdated =>
                  p \notin C /\ (p \in d.outdated \/ (p \in ByPath /\ Reads(p) \cap C # {}))
  <1> DEFINE out == (d.outdated \cup {c \in ByPath : Reads(c) \cap C # {}}) \ C
             seal == [p \in Stages |-> IF p \in C THEN "none" ELSE d.seal[p]]
             e == Without(d, C)
  <1>1. e = [d EXCEPT !.seal = seal, !.outdated = out, !.torn = d.torn \ C] BY DEF Without, Typed
  <1>2. \A p \in Stages : seal[p] = IF p \in C THEN "none" ELSE d.seal[p] OBVIOUS
  <1>3. \A p : p \in out =>
            p \notin C /\ (p \in d.outdated \/ (p \in ByPath /\ Reads(p) \cap C # {}))
    OBVIOUS
  <1> HIDE DEF out, seal, e
  <1>4. /\ e.built = d.built /\ e.marker = d.marker /\ e.filtered = d.filtered
        /\ e.seal = seal /\ e.outdated = out /\ e.torn = d.torn \ C
    BY <1>1 DEF Typed
  <1> QED BY <1>2, <1>3, <1>4 DEF e

LEMMA WithoutAffects ==
    ASSUME NEW s, NEW d, Typed(d), NEW C \in SUBSET Stages,
           C \subseteq Unlinked(s, 13) \cup {s[1]}
    PROVE  Affects(s, d, Without(d, C))
  <1> DEFINE e == Without(d, C)
  <1>1. /\ e.built = d.built /\ e.marker = d.marker /\ e.filtered = d.filtered
        /\ \A p \in Stages : e.seal[p] = IF p \in C THEN "none" ELSE d.seal[p]
        /\ \A p : p \in e.torn => p \in d.torn /\ p \notin C
        /\ \A p : p \in e.outdated =>
               p \notin C /\ (p \in d.outdated \/ (p \in ByPath /\ Reads(p) \cap C # {}))
    BY WithoutEffect
  <1> HIDE DEF e
  <1>2. ASSUME NEW p \in Spared(s)
        PROVE  /\ p \in Stages /\ p # s[1] /\ p \notin Unlinked(s, 13) /\ s[1] \notin Reads(p)
               /\ p \in ByPath => Reads(p) \cap Unlinked(s, 13) = {}
    BY FileTable DEF Spared, Undone, Readers
  <1>3. \A p \in Spared(s) : p \in Stages /\ p \notin C BY <1>2
  <1>4. ASSUME NEW p \in Spared(s), p \in ByPath PROVE Reads(p) \cap C = {}
    BY <1>2, <1>4
  <1>5. \A p \in Spared(s) : e.seal[p] = d.seal[p] /\ (p \in e.outdated => p \in d.outdated)
    BY <1>1, <1>3, <1>4
  <1> QED BY <1>1, <1>5 DEF Affects, e

LEMMA MarkAffects ==
    ASSUME NEW s, NEW d, Typed(d), MarksReport(s) \/ s[1] \in {"final", "final_report"}
    PROVE  Affects(s, d, [d EXCEPT !.marker = TRUE])
  <1> DEFINE e == [d EXCEPT !.marker = TRUE]
  <1>1. /\ e.built = d.built /\ e.torn = d.torn /\ e.filtered = d.filtered
        /\ e.outdated = d.outdated /\ e.seal = d.seal
    BY DEF Typed
  <1>2. "final_report" \notin Spared(s) BY DEF Spared, Undone
  <1> QED BY <1>1, <1>2 DEF Affects

LEMMA UnlinkedGrows ==
    ASSUME NEW s, NEW n \in 0..13 PROVE Unlinked(s, n) \subseteq Unlinked(s, 13)
  BY DEF Unlinked

LEMMA InvalidatedAffects ==
    ASSUME NEW d, DirInv(d), NEW s \in Scripts, NEW n \in 0..13
    PROVE  Affects(s, d, InvalidatedUpTo(d, s, n))
  <1> DEFINE m == Marked(d, s)
  <1>1. Typed(m) /\ Affects(s, d, m)
    <2>1. CASE MarksReport(s)
      <3>1. m = [d EXCEPT !.marker = TRUE] BY <2>1 DEF Marked
      <3> HIDE DEF m
      <3> QED BY <2>1, <3>1, MarkAffects, MarkInv DEF DirInv
    <2>2. CASE ~MarksReport(s) BY <2>2, AffectsSelf DEF Marked, DirInv
    <2> QED BY <2>1, <2>2
  <1> HIDE DEF m
  <1>2. Unlinked(s, n) \in SUBSET Stages BY UnlinkedStages
  <1>3. Affects(s, m, Without(m, Unlinked(s, n))) BY <1>1, <1>2, UnlinkedGrows, WithoutAffects
  <1> QED BY <1>1, <1>3, AffectsTwice DEF InvalidatedUpTo, m

LEMMA ClearedAffects ==
    ASSUME NEW d, Typed(d), NEW s \in Scripts
    PROVE  Affects(s, d, Cleared(d, s))
  <1>1. s[1] \in Stages /\ s = <<s[1], s[2]>> BY ScriptShape
  <1>2. CASE s[1] \in SingleStages BY <1>2, AffectsSelf DEF Cleared
  <1>3. CASE s[1] \notin SingleStages /\ s[2] = "build" /\ s[1] \in KeepsGate
    <2> DEFINE e == Cleared(d, s)
               torn == {p \in {s[1]} : d.seal[p] # "none"}
    <2>1. e = [d EXCEPT !.built = @ \ {s}, !.torn = @ \cup torn] BY <1>3 DEF Cleared
    <2>2. torn \subseteq {s[1]} OBVIOUS
    <2> HIDE DEF e, torn
    <2>3. /\ e.built = d.built \ {s} /\ e.seal = d.seal /\ e.outdated = d.outdated
          /\ e.torn = d.torn \cup torn /\ e.marker = d.marker /\ e.filtered = d.filtered
      BY <2>1 DEF Typed
    <2>4. \A p : p \in e.torn => p \in d.torn \/ (p = s[1] /\ p \in KeepsGate)
      BY <2>2, <2>3, <1>3
    <2>5. "final_report" \in Spared(s) /\ e.marker => d.marker BY <2>3
    <2> QED BY <2>3, <2>4, <2>5, <1>3 DEF Affects, e
  <1>4. CASE s[1] \notin SingleStages /\ ~(s[2] = "build" /\ s[1] \in KeepsGate)
    <2>1. Cleared(d, s) = Without(d, {s[1]}) BY <1>4 DEF Cleared
    <2>2. {s[1]} \in SUBSET Stages BY <1>1
    <2> QED BY <2>1, <2>2, WithoutAffects
  <1> QED BY <1>2, <1>3, <1>4

LEMMA FirstInv ==
    ASSUME NEW d, DirInv(d), NEW s \in Scripts, s[2] = "build", s[1] \in OwnFirst
    PROVE  DirInv(Cleared(d, s))
  <1>1. s[1] # "risk" /\ s[1] \notin KeepsGate BY DEF OwnFirst, KeepsGate
  <1> QED BY <1>1, ClearedInv

LEMMA PreparedAffects ==
    ASSUME NEW d, DirInv(d), NEW s \in Scripts
    PROVE  Affects(s, d, Prepared(d, s))
  <1>0. Len(Files) = 13 /\ 13 \in 0..13 BY FileTable
  <1>1. CASE s[2] = "build" /\ s[1] \in OwnFirst
    <2> DEFINE m == Cleared(d, s)
    <2>1. DirInv(m) /\ Affects(s, d, m) BY <1>1, FirstInv, ClearedAffects DEF DirInv
    <2> HIDE DEF m
    <2>2. Affects(s, m, InvalidatedUpTo(m, s, 13)) BY <2>1, <1>0, InvalidatedAffects
    <2>3. Affects(s, d, InvalidatedUpTo(m, s, 13)) BY <2>1, <2>2, AffectsTwice
    <2> QED BY <2>3, <1>0, <1>1 DEF Prepared, Invalidated, m
  <1>2. CASE ~(s[2] = "build" /\ s[1] \in OwnFirst)
    <2> DEFINE m == InvalidatedUpTo(d, s, 13)
    <2>1. Typed(m) /\ Affects(s, d, m) BY <1>0, InvalidatedAffects, InvalidatedInv DEF DirInv
    <2>2. Prepared(d, s) = Cleared(m, s) BY <1>0, <1>2 DEF Prepared, Invalidated
    <2> HIDE DEF m
    <2>3. Affects(s, m, Cleared(m, s)) BY <2>1, ClearedAffects
    <2> QED BY <2>1, <2>2, <2>3, AffectsTwice
  <1> QED BY <1>1, <1>2

LEMMA PreparingAffects ==
    ASSUME NEW d, DirInv(d), NEW s \in Scripts, NEW e \in Preparing(d, s)
    PROVE  Affects(s, d, e)
  <1>0. Len(Files) = 13 BY FileTable
  <1> DEFINE first == IF s[2] = "build" /\ s[1] \in OwnFirst THEN Cleared(d, s) ELSE d
  <1>1. DirInv(first) /\ Affects(s, d, first)
    BY FirstInv, ClearedAffects, AffectsSelf DEF DirInv
  <1>2. \/ e \in {d, first, Prepared(d, s)}
        \/ \E n \in 0..13 : e = InvalidatedUpTo(first, s, n)
    BY <1>0 DEF Preparing
  <1> HIDE DEF first
  <1>3. CASE e \in {d, first, Prepared(d, s)} BY <1>1, <1>3, PreparedAffects, AffectsSelf
  <1>4. ASSUME NEW n \in 0..13, e = InvalidatedUpTo(first, s, n)
        PROVE  Affects(s, d, e)
    <2>1. Affects(s, first, e) BY <1>1, <1>4, InvalidatedAffects
    <2> QED BY <2>1, <1>1, AffectsTwice
  <1> QED BY <1>2, <1>3, <1>4

LEMMA AnnouncedAffects ==
    ASSUME NEW d, Typed(d), NEW s, NEW force
    PROVE  Affects(s, d, Announced(d, s, force))
  <1>1. CASE s[1] = "final" \/ (s[1] = "final_report" /\ force)
    BY <1>1, MarkAffects DEF Announced
  <1>2. CASE ~(s[1] = "final" \/ (s[1] = "final_report" /\ force))
    BY <1>2, AffectsSelf DEF Announced
  <1> QED BY <1>1, <1>2

LEMMA RewrittenFields ==
    ASSUME NEW d, Typed(d), NEW p
    PROVE  LET e == Rewritten(d, p) IN
           /\ Typed(e) /\ e.built = d.built /\ e.seal = d.seal /\ e.torn = d.torn
           /\ e.outdated = d.outdated \cup {c \in Readers(p) : d.seal[c] # "none"}
           /\ e.marker = d.marker /\ (p # "overlay" => e.filtered = d.filtered)
  <1> DEFINE hit == {c \in Readers(p) : d.seal[c] # "none"}
  <1>1. hit \in SUBSET Stages BY DEF Readers
  <1>2. Rewritten(d, p) = [d EXCEPT !.outdated = @ \cup hit, !.filtered = @ /\ p # "overlay"]
    BY DEF Rewritten
  <1>3. d.outdated \cup hit \in SUBSET Stages /\ (d.filtered /\ p # "overlay") \in BOOLEAN
    BY <1>1 DEF Typed
  <1> DEFINE out == d.outdated \cup hit
             filtered == d.filtered /\ p # "overlay"
             e == Rewritten(d, p)
  <1>4. e = [d EXCEPT !.outdated = out, !.filtered = filtered] BY <1>2 DEF Typed
  <1>5. filtered \in BOOLEAN /\ (p # "overlay" => filtered = d.filtered) BY DEF Typed
  <1>6. out \in SUBSET Stages BY <1>3
  <1> HIDE DEF hit, e, filtered, out
  <1>7. Typed(e) BY <1>4, <1>5, <1>6 DEF Typed
  <1>8. /\ e.built = d.built /\ e.seal = d.seal /\ e.torn = d.torn /\ e.outdated = out
        /\ e.marker = d.marker /\ e.filtered = filtered
    BY <1>4 DEF Typed
  <1> QED BY <1>5, <1>7, <1>8 DEF e, hit, out

LEMMA RewrittenAffects ==
    ASSUME NEW s, NEW d, Typed(d) PROVE Affects(s, d, Rewritten(d, s[1]))
  <1> DEFINE e == Rewritten(d, s[1])
  <1>1. /\ e.built = d.built /\ e.seal = d.seal /\ e.torn = d.torn /\ e.marker = d.marker
        /\ e.outdated = d.outdated \cup {c \in Readers(s[1]) : d.seal[c] # "none"}
        /\ s[1] # "overlay" => e.filtered = d.filtered
    BY RewrittenFields
  <1>2. \A p \in Spared(s) : p \notin Readers(s[1]) BY DEF Spared, Undone
  <1> QED BY <1>1, <1>2 DEF Affects

LEMMA BegunAffects ==
    ASSUME NEW d, Typed(d), NEW s \in Scripts
    PROVE  Affects(s, d, Begun(d, s)) /\ Typed(Begun(d, s))
  <1>0. s[1] \in Stages /\ s = <<s[1], s[2]>> BY ScriptShape
  <1>1. CASE s[2] # "seal"
    <2> DEFINE m == [d EXCEPT !.built = @ \cup {s}]
    <2>1. Begun(d, s) = Rewritten(m, s[1]) BY <1>1 DEF Begun
    <2>2. /\ Typed(m) /\ m.built = d.built \cup {s} /\ m.seal = d.seal /\ m.outdated = d.outdated
          /\ m.torn = d.torn /\ m.marker = d.marker /\ m.filtered = d.filtered
      BY DEF Typed
    <2> HIDE DEF m
    <2>3. Affects(s, d, m) BY <2>2 DEF Affects
    <2>4. Affects(s, m, Rewritten(m, s[1])) BY <2>2, RewrittenAffects
    <2> QED BY <2>1, <2>2, <2>3, <2>4, AffectsTwice, RewrittenFields
  <1>2. CASE s[2] = "seal" /\ s[1] \in SingleStages \ {"final_report"}
    <2> DEFINE torn == {p \in {s[1]} : d.seal[p] # "none"}
               m == [d EXCEPT !.torn = @ \cup torn]
    <2>0. torn \in SUBSET SingleStages /\ torn \subseteq {s[1]} BY <1>2
    <2>1. Begun(d, s) = Rewritten(m, s[1]) BY <1>2 DEF Begun
    <2> HIDE DEF torn
    <2>2. /\ Typed(m) /\ m.built = d.built /\ m.seal = d.seal /\ m.outdated = d.outdated
          /\ m.torn = d.torn \cup torn /\ m.marker = d.marker /\ m.filtered = d.filtered
      BY <2>0 DEF Typed
    <2> HIDE DEF m
    <2>3. Affects(s, d, m)
      <3>1. \A p : p \in m.torn => p \in d.torn \/ (p = s[1] /\ s[2] = "seal")
        BY <2>0, <2>2, <1>2
      <3> QED BY <3>1, <2>2 DEF Affects
    <2>4. Affects(s, m, Rewritten(m, s[1])) BY <2>2, RewrittenAffects
    <2> QED BY <2>1, <2>2, <2>3, <2>4, AffectsTwice, RewrittenFields
  <1>3. CASE s[2] = "seal" /\ s[1] \notin SingleStages \ {"final_report"}
    BY <1>3, AffectsSelf DEF Begun
  <1> QED BY <1>1, <1>2, <1>3

LEMMA SealedTyped ==
    ASSUME NEW d, Typed(d), NEW p \in Stages, NEW a \in {"PASS", "FAIL"}
    PROVE  Typed(Sealed(d, p, a))
  <1> DEFINE m == [d EXCEPT !.seal[p] = a, !.outdated = @ \ {p}, !.torn = @ \ {p}]
  <1>1. Typed(m) BY DEF Typed
  <1>2. Sealed(d, p, a) = Rewritten(m, p) BY DEF Sealed
  <1> HIDE DEF m
  <1> QED BY <1>1, <1>2, RewrittenFields

LEMMA SealedEffect ==
    ASSUME NEW d, Typed(d), NEW p \in Stages, NEW a \in {"PASS", "FAIL"}
    PROVE  LET e == Sealed(d, p, a) IN
           /\ e.built = d.built /\ e.marker = d.marker
           /\ \A q \in Stages : e.seal[q] = IF q = p THEN a ELSE d.seal[q]
           /\ \A q : q \in e.torn => q \in d.torn /\ q # p
           /\ \A q : q \in e.outdated => q # p /\ (q \in d.outdated \/ q \in Readers(p))
           /\ p # "overlay" => e.filtered = d.filtered
  <1> DEFINE m == [d EXCEPT !.seal[p] = a, !.outdated = @ \ {p}, !.torn = @ \ {p}]
             e == Rewritten(m, p)
  <1>0. p \notin Readers(p)
    BY DEF Readers, Reads, RiskReads, OptimizerReads, CostReads, RotationReads, MacroReads, BlReads,
           SleeveReads, ExitReads, ExitBookReads, PayoutReads, GovernorReads, FinalReads,
           EarningsReads, UniverseReads, MonitorReads, OverlayReads, ReportReads
  <1>1. /\ Typed(m) /\ m.built = d.built /\ m.seal = [d.seal EXCEPT ![p] = a]
        /\ m.outdated = d.outdated \ {p} /\ m.torn = d.torn \ {p} /\ m.marker = d.marker
        /\ m.filtered = d.filtered
    BY DEF Typed
  <1>2. Sealed(d, p, a) = e BY DEF Sealed
  <1>3. \A q \in Stages : m.seal[q] = IF q = p THEN a ELSE d.seal[q] BY <1>1 DEF Typed
  <1> HIDE DEF m
  <1>4. /\ e.built = m.built /\ e.seal = m.seal /\ e.torn = m.torn
        /\ e.outdated = m.outdated \cup {c \in Readers(p) : m.seal[c] # "none"}
        /\ e.marker = m.marker /\ (p # "overlay" => e.filtered = m.filtered)
    BY <1>1, RewrittenFields
  <1> HIDE DEF e
  <1>5. \A q : q \in e.torn => q \in d.torn /\ q # p BY <1>1, <1>4
  <1>6. \A q : q \in e.outdated => q # p /\ (q \in d.outdated \/ q \in Readers(p))
    BY <1>0, <1>1, <1>4
  <1> QED BY <1>1, <1>2, <1>3, <1>4, <1>5, <1>6

LEMMA SealedAffects ==
    ASSUME NEW d, Typed(d), NEW s \in Scripts, s[2] = "seal", NEW a \in {"PASS", "FAIL"}
    PROVE  Affects(s, d, Sealed(d, s[1], a))
  <1> DEFINE p == s[1]
             e == Sealed(d, p, a)
  <1>1. p \in Stages /\ s = <<p, "seal">> BY ScriptShape
  <1>3. \A q \in Spared(s) : q \in Stages /\ q # p /\ q \notin Readers(p)
    BY DEF Spared, Undone
  <1> HIDE DEF p
  <1>2. /\ e.built = d.built /\ e.marker = d.marker
        /\ \A q \in Stages : e.seal[q] = IF q = p THEN a ELSE d.seal[q]
        /\ \A q : q \in e.torn => q \in d.torn /\ q # p
        /\ \A q : q \in e.outdated => q # p /\ (q \in d.outdated \/ q \in Readers(p))
        /\ p # "overlay" => e.filtered = d.filtered
    BY <1>1, SealedEffect
  <1> HIDE DEF e
  <1> QED BY <1>1, <1>2, <1>3 DEF Affects, e, p
(***************************************************************************)
(* What the current script changes                                         *)
(***************************************************************************)
LEMMA PreparedPurges ==
    ASSUME NEW d, DirInv(d), NEW s \in Scripts, NEW p \in Unlinked(s, 13), p # s[1]
    PROVE  Prepared(d, s).seal[p] = "none"
  <1>0. Len(Files) = 13 /\ 13 \in 0..13 /\ p \in Stages BY FileTable, UnlinkedStages
  <1>1. ASSUME NEW m, DirInv(m) PROVE InvalidatedUpTo(m, s, 13).seal[p] = "none"
    <2>1. \A q \in Stages : InvalidatedUpTo(m, s, 13).seal[q]
                               = IF q \in Unlinked(s, 13) THEN "none" ELSE m.seal[q]
      BY <1>0, <1>1, InvalidatedInv
    <2> QED BY <2>1, <1>0
  <1>2. CASE s[2] = "build" /\ s[1] \in OwnFirst
    <2> DEFINE m == Cleared(d, s)
    <2>1. DirInv(m) BY <1>2, FirstInv
    <2> HIDE DEF m
    <2>2. InvalidatedUpTo(m, s, 13).seal[p] = "none" BY <2>1, <1>1
    <2> QED BY <2>2, <1>0, <1>2 DEF Prepared, Invalidated, m
  <1>3. CASE ~(s[2] = "build" /\ s[1] \in OwnFirst)
    <2> DEFINE m == InvalidatedUpTo(d, s, 13)
    <2>1. m.seal[p] = "none" BY <1>1
    <2>2. Typed(m) BY <1>0, InvalidatedInv DEF DirInv
    <2>3. Prepared(d, s) = Cleared(m, s) BY <1>0, <1>3 DEF Prepared, Invalidated
    <2> HIDE DEF m
    <2>4. Affects(s, m, Cleared(m, s)) BY <2>2, ClearedAffects
    <2>5. s # <<p, "seal">> OBVIOUS
    <2> QED BY <2>1, <2>3, <2>4, <2>5, <1>0 DEF Affects
  <1> QED BY <1>2, <1>3

LEMMA OwnKept == ASSUME NEW s \in Scripts PROVE s[1] \notin Unlinked(s, 13)
  <1>1. \A p \in Unlinked(s, 13) : \E k \in 1..13 : p = Files[k][2] /\ Files[k][1] \in Dependencies(s)
    BY DEF Unlinked
  <1>2. s[1] \in Stages /\ s[2] \in Kinds /\ (s[2] = "spread" => s[1] = "risk") BY ScriptShape
  <1>3. s[1] \notin Dependencies(s) /\ (s[1] = "exit_book" => "exits" \notin Dependencies(s))
        /\ (s[1] = "bootstrap" => Dependencies(s) = {})
    BY <1>2 DEF Dependencies, Stages, Kinds
  <1> QED BY <1>1, <1>3, FileTable

(* A script is never stopped over its own files: it was skipped over an    *)
(* accepted gate, or forced.                                               *)
LEMMA NeverRefused == ASSUME ~Skips PROVE ~Refused
  <1> SUFFICES ASSUME Refused PROVE FALSE OBVIOUS
  <1>1. Refuses /\ Script[1] \notin Unguarded /\ ~Forced BY DEF Refused
  <1>2. Script \notin NoForce BY <1>1 DEF NoForce, Unguarded
  <1>3. ~run.force /\ ~SelfForced(run.plan, Here) BY <1>1, <1>2 DEF Forced, Asked
  <1>4. ~Repeats(run.plan, Here) BY <1>2, <1>3 DEF SelfForced, Script
  <1>5. Accepts(dir, Script[1]) BY <1>1, <1>2, <1>4 DEF Forced
  <1> QED BY <1>3, <1>5 DEF Skips

LEMMA StartedAffects ==
    ASSUME IInv, AtScript, ~Skips
    PROVE  /\ Affects(Script, dir, Started) /\ Typed(Started)
           /\ SelfForced(run.plan, Here) =>
                  \A p \in Unlinked(Script, 13) : p \in Stages /\ Started.seal[p] = "none"
  <1> DEFINE ready == IF Forced THEN Prepared(dir, Script) ELSE dir
  <1>1. Script \in Scripts /\ DirInv(dir) /\ ~Refused BY AtWork, NeverRefused DEF IInv, RunInv
  <1>2. DirInv(ready) /\ Affects(Script, dir, ready)
    BY <1>1, PreparedInv, PreparedAffects, AffectsSelf
  <1>3. SelfForced(run.plan, Here) => Forced BY DEF Forced, Asked, SelfForced, Script
  <1>4. SelfForced(run.plan, Here) =>
            \A p \in Unlinked(Script, 13) : p \in Stages /\ ready.seal[p] = "none"
    <2> SUFFICES ASSUME SelfForced(run.plan, Here), NEW p \in Unlinked(Script, 13)
                 PROVE  p \in Stages /\ ready.seal[p] = "none"
      OBVIOUS
    <2>1. p # Script[1] BY <1>1, OwnKept
    <2>2. 13 \in 0..13 OBVIOUS
    <2> QED BY <2>1, <2>2, <1>1, <1>3, PreparedPurges, UnlinkedStages
  <1> HIDE DEF ready
  <1>5. Started = Announced(ready, Script, Forced) BY DEF Started, ready
  <1>6. Affects(Script, ready, Started) BY <1>2, <1>5, AnnouncedAffects DEF DirInv
  <1>7. Started.seal = ready.seal BY <1>2, <1>5, AnnouncedInv
  <1>8. Typed(Started) BY <1>1, StartedInv DEF DirInv
  <1> QED BY <1>2, <1>4, <1>6, <1>7, <1>8, AffectsTwice

(* What a script that ran to its end has done: its seal is accepted, what  *)
(* it purged by force is gone, and the optimizer's book is filtered or not.*)
Worked(e) ==
    /\ Script[2] = "seal" =>
           Accepts(e, Script[1]) /\ Script[1] \notin e.outdated /\ Script[1] \notin e.torn
    /\ SelfForced(run.plan, Here) /\ Script[2] # "spread" =>
           \A p \in Unlinked(Script, 13) : e.seal[p] = "none"
    /\ Script = <<"optimizer", "build">> /\ Group = "monitor_filter" => e.filtered

LEMMA CompletedAffects ==
    ASSUME IInv, AtScript, ~Skips, Ready(dir, Script)
    PROVE  LET e == Completed(Started, Script, Group) IN Affects(Script, dir, e) /\ Worked(e)
  <1> DEFINE d == Started
             e == Completed(d, Script, Group)
             b == Begun(d, Script)
             p == Script[1]
  <1>1. Script \in Scripts BY AtWork DEF IInv, RunInv
  <1>2. /\ p \in Stages /\ Script = <<p, Script[2]>> /\ (Script[2] = "spread" => p = "risk")
        /\ p \notin Unlinked(Script, 13)
    BY <1>1, ScriptShape, OwnKept
  <1>3. /\ Affects(Script, dir, d) /\ Typed(d)
        /\ SelfForced(run.plan, Here) =>
               \A q \in Unlinked(Script, 13) : q \in Stages /\ d.seal[q] = "none"
    BY StartedAffects
  <1> HIDE DEF d, p
  <1>4. Affects(Script, d, b) /\ Typed(b) BY <1>1, <1>3, BegunAffects
  <1> HIDE DEF b
  <1>5. /\ Affects(Script, d, e)
        /\ Script[2] = "seal" => Accepts(e, p) /\ p \notin e.outdated /\ p \notin e.torn
        /\ Script = <<"optimizer", "build">> /\ Group = "monitor_filter" => e.filtered
    <2>1. CASE Script = <<"final_report", "seal">>
      <3> DEFINE m == Sealed(d, p, "PASS")
      <3>0. p = "final_report" /\ Script[2] = "seal" /\ Script # <<"optimizer", "build">>
        BY <2>1 DEF p
      <3>1. Affects(Script, d, m) BY <3>0, <1>1, <1>3, SealedAffects DEF p
      <3>2. m.seal[p] = "PASS" /\ p \notin m.torn /\ p \notin m.outdated
        BY <1>2, <1>3, SealedEffect
      <3>3. Typed(m) BY <1>2, <1>3, SealedTyped
      <3>4. e = [m EXCEPT !.marker = FALSE] BY <2>1, <3>0 DEF Completed, Published
      <3> HIDE DEF m, e
      <3>5. /\ e.built = m.built /\ e.seal = m.seal /\ e.outdated = m.outdated
            /\ e.torn = m.torn /\ e.filtered = m.filtered /\ e.marker = FALSE
        BY <3>3, <3>4 DEF Typed
      <3>6. Affects(Script, m, e) BY <3>5 DEF Affects
      <3>7. Accepts(e, p) BY <3>2, <3>5 DEF Accepts
      <3> QED BY <3>0, <3>1, <3>2, <3>5, <3>6, <3>7, AffectsTwice
    <2>2. CASE Script # <<"final_report", "seal">> /\ Script[2] = "seal"
      <3> DEFINE m == Sealed(b, p, "PASS")
      <3>0. e = m /\ p # "final_report" /\ Script # <<"optimizer", "build">>
        BY <2>2, <1>2 DEF Completed, b, p
      <3>1. Affects(Script, b, m) BY <2>2, <1>1, <1>4, SealedAffects DEF p
      <3>2. m.seal[p] = "PASS" /\ p \notin m.torn /\ p \notin m.outdated
        BY <1>2, <1>4, SealedEffect
      <3> HIDE DEF m, e
      <3>3. Accepts(m, p) BY <3>0, <3>2 DEF Accepts
      <3> QED BY <3>0, <3>1, <3>2, <3>3, <1>4, AffectsTwice
    <2>3. CASE Script[2] # "seal" /\ p = "optimizer"
      <3>1. e = [b EXCEPT !.filtered = (Group = "monitor_filter")]
        BY <2>3 DEF Completed, b, p
      <3>2. Script = <<"optimizer", "build">>
        BY <2>3, <1>1, <1>2, ScriptShape DEF Kinds
      <3> HIDE DEF e
      <3>3. /\ e.built = b.built /\ e.seal = b.seal /\ e.outdated = b.outdated
            /\ e.torn = b.torn /\ e.marker = b.marker
            /\ e.filtered = (Group = "monitor_filter")
        BY <3>1, <1>4 DEF Typed
      <3>4. Affects(Script, b, e) BY <3>2, <3>3 DEF Affects
      <3> QED BY <2>3, <3>3, <3>4, <1>4, AffectsTwice
    <2>4. CASE Script[2] # "seal" /\ p # "optimizer"
      <3>1. e = b BY <2>4 DEF Completed, b, p
      <3> HIDE DEF e
      <3>2. Script # <<"optimizer", "build">> BY <2>4 DEF p
      <3> QED BY <2>4, <3>1, <3>2, <1>4
    <2> QED BY <2>1, <2>2, <2>3, <2>4
  <1> HIDE DEF e
  <1>6. ASSUME SelfForced(run.plan, Here), NEW q \in Unlinked(Script, 13) PROVE e.seal[q] = "none"
    <2>1. q \in Stages /\ d.seal[q] = "none" BY <1>3, <1>6
    <2>2. Script # <<q, "seal">> BY <1>2 DEF p
    <2> QED BY <2>1, <2>2, <1>5 DEF Affects
  <1>7. Affects(Script, dir, e) BY <1>3, <1>5, AffectsTwice
  <1> QED BY <1>5, <1>6, <1>7 DEF Worked, d, e, p

LEMMA CutShortAffects ==
    ASSUME IInv, AtScript, ~Skips, NEW e \in CutShort(dir, Script, Forced)
    PROVE  Affects(Script, dir, e)
  <1> DEFINE d == Started
  <1>1. Script \in Scripts /\ DirInv(dir) BY AtWork DEF IInv, RunInv
  <1>2. Affects(Script, dir, d) /\ Typed(d) BY StartedAffects
  <1>3. \/ e \in Preparing(dir, Script) \/ e = dir \/ e = d \/ e = Begun(d, Script)
        \/ Script[1] = "final_report" /\ e = Published(d)
    BY DEF CutShort, Started
  <1> HIDE DEF d
  <1>4. CASE e \in Preparing(dir, Script) BY <1>1, <1>4, PreparingAffects
  <1>5. CASE e = dir \/ e = d BY <1>2, <1>5, AffectsSelf
  <1>6. CASE e = Begun(d, Script)
    <2>1. Affects(Script, d, e) BY <1>1, <1>2, <1>6, BegunAffects
    <2> QED BY <2>1, <1>2, AffectsTwice
  <1>7. CASE Script[1] = "final_report" /\ e = Published(d)
    <2>1. Script[2] = "seal" BY <1>1, <1>7, ScriptShape DEF Kinds, Builders, Sources
    <2>2. e = Sealed(d, Script[1], "PASS") BY <1>7 DEF Published
    <2>3. Affects(Script, d, e) BY <2>1, <2>2, <1>1, <1>2, SealedAffects
    <2> QED BY <2>3, <1>2, AffectsTwice
  <1> QED BY <1>3, <1>4, <1>5, <1>6, <1>7

LEMMA FailedAffects ==
    ASSUME IInv, AtScript, ~Skips, NEW e \in Failed(dir, Script, Forced)
    PROVE  Affects(Script, dir, e)
  <1> DEFINE d == Started
             b == Begun(d, Script)
  <1>1. Script \in Scripts BY AtWork DEF IInv, RunInv
  <1>2. Affects(Script, dir, d) /\ Typed(d) BY StartedAffects
  <1>3. \/ e \in CutShort(dir, Script, Forced)
        \/ Script[2] = "seal" /\ e = Sealed(b, Script[1], "FAIL")
    BY DEF Failed, Started
  <1> HIDE DEF d
  <1>4. Affects(Script, d, b) /\ Typed(b) BY <1>1, <1>2, BegunAffects
  <1> HIDE DEF b
  <1>5. CASE e \in CutShort(dir, Script, Forced) BY <1>5, CutShortAffects
  <1>6. CASE Script[2] = "seal" /\ e = Sealed(b, Script[1], "FAIL")
    <2>1. Affects(Script, b, e) BY <1>1, <1>4, <1>6, SealedAffects
    <2> QED BY <2>1, <1>2, <1>4, AffectsTwice
  <1> QED BY <1>3, <1>5, <1>6

(***************************************************************************)
(* The invariant of the plan                                               *)
(***************************************************************************)
InCadence == run.on /\ run.request \in Cadences
Resuming == InCadence /\ ~run.force /\ run.clean

(* The scripts this run has behind it. *)
DoneHere == Done(run.plan, Here)

Open == run.on => meta = "RUNNING"
Planned == InCadence => Supplied(run.plan) /\ Completing(run.plan)

(* What a plan lets stand, the directory has. *)
Standing ==
    InCadence =>
        /\ \A p \in Stages :
              /\ Stands(run.plan, DoneHere, p) => Accepts(dir, p)
              /\ Renewed(run.plan, DoneHere, p) => p \notin dir.outdated
              /\ Purged(run.plan, DoneHere, p) => dir.seal[p] = "none"
        /\ Filtered(run.plan, DoneHere) => dir.filtered

(* A script that runs has its builder's files, and a ledger its statement. *)
Backing ==
    AtScript /\ Script[1] \in Builders /\ Script[2] # "build" =>
        \/ Skips
        \/ <<Script[1], "build">> \in dir.built /\ (Script[1] = "ledger" => statement)
Filed == dir.seal["ledger"] = "FAIL" => statement

(* In a clean run only the stage about to be sealed is torn. *)
Mended ==
    run.on /\ ~run.force /\ run.clean =>
        \A p \in dir.torn : AtScript /\ Script = <<p, "seal">> /\ ~Skips

(* The ledger that the plan was made for is still the one on disk. *)
LedgerOf(plan, ready) ==
    /\ LedgerPlanned(plan, statement, ready)
    /\ ready => Intact(dir, "ledger")
    /\ ~ready /\ ~statement => dir.seal["ledger"] = "none"
Ledgered == Resuming => \E ready \in BOOLEAN : LedgerOf(run.plan, ready)

PlanInv ==
    /\ Open /\ Planned /\ Standing /\ Backing /\ Filed /\ Mended /\ Ledgered
    /\ PassCoversPlan /\ ResumeCompletes
JInv == IInv /\ PlanInv

(***************************************************************************)
(* The next step of the plan                                               *)
(***************************************************************************)
LEMMA SinceNext ==
    ASSUME NEW plan, NEW h, NEW from, NEW lost, Since(Done(plan, h) \cup {h}, from, lost)
    PROVE  h \in from \/ (Since(Done(plan, h), from, lost) /\ h \notin lost)
  <1> DEFINE done == Done(plan, h)
  <1>1. \A a \in done : Earlier(a, h) BY DEF Done
  <1> HIDE DEF done
  <1>2. PICK a \in (done \cup {h}) \cap from :
            \A b \in done \cup {h} : Earlier(a, b) => b \notin lost
    BY DEF Since, done
  <1>3. CASE a = h BY <1>2, <1>3
  <1>4. CASE a # h
    <2>1. a \in done /\ a \in from /\ Earlier(a, h) BY <1>1, <1>2, <1>4
    <2>2. h \notin lost /\ Since(done, from, lost) BY <2>1, <1>2 DEF Since
    <2> QED BY <2>2 DEF done
  <1> QED BY <1>3, <1>4

LEMMA SinceNothing ==
    ASSUME NEW from, NEW lost PROVE ~Since({}, from, lost)
  BY DEF Since

(* A script of the plan that was done, or skipped over an accepted gate.   *)
NextStanding ==
    /\ Affects(Script, dir, dir')
    /\ \/ Skips /\ UNCHANGED dir
       \/ ~Skips /\ Worked(dir')

LEMMA AdvanceStanding ==
    ASSUME IInv, Standing, Advancing, NextStanding
    PROVE  Standing'
  <1> SUFFICES ASSUME InCadence'
               PROVE  /\ \A p \in Stages :
                            /\ Stands(run.plan, DoneHere, p)' => Accepts(dir', p)
                            /\ Renewed(run.plan, DoneHere, p)' => p \notin dir'.outdated
                            /\ Purged(run.plan, DoneHere, p)' => dir'.seal[p] = "none"
                      /\ Filtered(run.plan, DoneHere)' => dir'.filtered
    BY DEF Standing
  <1> DEFINE plan == run.plan
             h == Here
             done == Done(plan, h)
             next == done \cup {h}
  <1>1. /\ run'.plan = run.plan /\ InCadence /\ (DoneHere)' = next
        /\ run.plan \in Seq(DOMAIN Groups) /\ h \in Steps(plan)
    BY AdvanceDone, AtWork DEF IInv, RunInv, Advancing, InCadence, DoneHere
  <1>2. /\ \A p \in Stages : /\ Stands(plan, done, p) => Accepts(dir, p)
                             /\ Renewed(plan, done, p) => p \notin dir.outdated
                             /\ Purged(plan, done, p) => dir.seal[p] = "none"
        /\ Filtered(plan, done) => dir.filtered
    BY <1>1 DEF Standing, DoneHere
  <1>3. /\ Script \in Scripts /\ Script = StepAt(plan, h) BY <1>1, StepIn DEF Script
  <1> HIDE DEF plan, h, done, next
  <1>4. ASSUME NEW from, NEW lost, Since(next, from, lost)
        PROVE  h \in from \/ (Since(done, from, lost) /\ h \notin lost)
    BY <1>4, SinceNext DEF next, done
  <1>5. \A p \in Stages : h \notin Undoing(plan, p) => p \in Spared(Script) /\ p # Script[1]
    BY <1>1, <1>3 DEF Undoing, Spared, plan
  <1>6. ASSUME NEW p \in Stages PROVE Stands(plan, next, p) => Accepts(dir', p)
    <2>1. CASE h \in Seals(plan, p)
      <3>1. Script = <<p, "seal">> BY <2>1, <1>3 DEF Seals
      <3> QED BY <3>1 DEF NextStanding, Worked, Skips
    <2>2. CASE Stands(plan, done, p) /\ h \notin Undoing(plan, p)
      <3>1. Accepts(dir, p) /\ p \in Spared(Script) BY <2>2, <1>2, <1>5
      <3> QED BY <3>1 DEF NextStanding, Affects, Accepts
    <2> QED BY <2>1, <2>2, <1>4 DEF Stands
  <1>7. ASSUME NEW p \in Stages PROVE Renewed(plan, next, p) => p \notin dir'.outdated
    <2>1. CASE h \in Renewing(plan, p)
      <3>1. Script = <<p, "seal">> BY <2>1, <1>3 DEF Renewing, Seals
      <3>2. SelfForced(plan, h) \/ Purged(plan, done, p) BY <2>1 DEF Renewing, done
      <3>3. Skips => ~SelfForced(plan, h) /\ dir.seal[p] = "PASS"
        BY <3>1 DEF Skips, Accepts, plan, h
      <3>4. ~Skips BY <3>2, <3>3, <1>2
      <3> QED BY <3>1, <3>4 DEF NextStanding, Worked
    <2>2. CASE Renewed(plan, done, p) /\ h \notin Undoing(plan, p)
      <3>1. p \notin dir.outdated /\ p \in Spared(Script) BY <2>2, <1>2, <1>5
      <3> QED BY <3>1 DEF NextStanding, Affects
    <2> QED BY <2>1, <2>2, <1>4 DEF Renewed
  <1>8. ASSUME NEW p \in Stages PROVE Purged(plan, next, p) => dir'.seal[p] = "none"
    <2>1. CASE h \in Purging(plan, p)
      <3>1. SelfForced(plan, h) /\ Script[2] # "spread" /\ p \in Unlinked(Script, 13)
        BY <2>1, <1>3, FileTable DEF Purging
      <3>2. ~Skips BY <3>1 DEF Skips, plan, h
      <3> QED BY <3>1, <3>2 DEF NextStanding, Worked, plan, h
    <2>2. CASE Purged(plan, done, p) /\ h \notin {a \in Steps(plan) : StepAt(plan, a)[1] = p}
      <3>1. dir.seal[p] = "none" /\ Script # <<p, "seal">> BY <2>2, <1>1, <1>2, <1>3 DEF plan
      <3> QED BY <3>1 DEF NextStanding, Affects
    <2> QED BY <2>1, <2>2, <1>4 DEF Purged
  <1>9. Filtered(plan, next) => dir'.filtered
    <2>1. CASE h \in Filtering(plan)
      <3>1. Script = <<"optimizer", "build">> /\ Group = "monitor_filter"
        BY <2>1, <1>3 DEF Filtering, Solving, Group, Here, plan, h
      <3>2. SelfForced(plan, h) BY <3>1, <1>3 DEF SelfForced, IntrinsicRepass, NoForce, Group, Here, plan, h
      <3>3. ~Skips BY <3>2 DEF Skips, plan, h
      <3> QED BY <3>1, <3>3 DEF NextStanding, Worked
    <2>2. CASE Filtered(plan, done) /\ h \notin Overlaying(plan) \cup Solving(plan)
      <3>1. dir.filtered /\ Script[1] # "overlay" /\ Script # <<"optimizer", "build">>
        BY <2>2, <1>1, <1>2, <1>3 DEF Overlaying, Solving, plan
      <3> QED BY <3>1 DEF NextStanding, Affects
    <2> QED BY <2>1, <2>2, <1>4 DEF Filtered
  <1> QED BY <1>1, <1>6, <1>7, <1>8, <1>9 DEF plan

LEMMA NeedsTable ==
    ASSUME NEW p \in Stages
    PROVE  Needs(p) \in SUBSET Stages /\ p \notin Needs(p)
  BY DEF Needs, Stages, Reads, RiskReads, OptimizerReads, CostReads, RotationReads, MacroReads,
         BlReads, SleeveReads, ExitReads, ExitBookReads, PayoutReads, GovernorReads, FinalReads,
         EarningsReads, UniverseReads, MonitorReads, OverlayReads, ReportReads

(* No script of another stage touches the ledger's gate.                   *)
LEMMA LedgerSpared ==
    ASSUME NEW s \in Scripts, s[1] # "ledger"
    PROVE  "ledger" \in Spared(s)
  <1>1. Reads("ledger") = {} BY DEF Reads
  <1>2. "ledger" \in Stages /\ "ledger" \notin ByPath BY DEF Stages, ByPath
  <1>3. "ledger" \notin Unlinked(s, 13)
    <2>1. \A k \in 1..13 : Files[k][2] # "ledger" BY FileTable
    <2> QED BY <2>1 DEF Unlinked
  <1> QED BY <1>1, <1>2, <1>3, FileTable DEF Spared, Undone, Readers

(* In a cadence that is resumed, a script that runs has all it needs.      *)
LEMMA ReadyAlways ==
    ASSUME IInv, PlanInv, Resuming, AtScript, ~Skips
    PROVE  Ready(dir, Script)
  <1> DEFINE p == Script[1]
             plan == run.plan
             done == Done(plan, Here)
  <1>1. Script \in Scripts /\ Here \in Steps(plan) /\ Script = StepAt(plan, Here)
    BY AtWork DEF IInv, RunInv, Script
  <1>2. p \in Stages /\ Script[2] \in Kinds /\ Script = <<p, Script[2]>> BY <1>1, ScriptShape
  <1>3. /\ \A q \in Needs(p) : Stands(plan, done, q)
        /\ p = "final" => Stands(plan, done, "overlay") /\ Filtered(plan, done)
    BY <1>1 DEF PlanInv, Planned, Resuming, Supplied
  <1>4. /\ \A q \in Stages : Stands(plan, done, q) => Accepts(dir, q)
        /\ Filtered(plan, done) => dir.filtered
    BY DEF PlanInv, Standing, Resuming, DoneHere
  <1>5. \A q \in dir.torn : Script = <<q, "seal">>
    BY DEF PlanInv, Mended, Resuming, InCadence
  <1>6. \A q \in Stages : Stands(plan, done, q) /\ q # p => Intact(dir, q)
    <2> SUFFICES ASSUME NEW q \in Stages, Stands(plan, done, q), q # p PROVE Intact(dir, q)
      OBVIOUS
    <2>1. dir.seal[q] = "PASS" BY <1>4 DEF Accepts
    <2> QED BY <2>1, <1>5 DEF Intact
  <1>7. PICK ready \in BOOLEAN : LedgerOf(plan, ready) BY DEF PlanInv, Ledgered
  <1> HIDE DEF p, plan, done
  <1>8. \A q \in Needs(p) : Intact(dir, q) BY <1>2, <1>3, <1>6, NeedsTable
  <1>9. Script[2] = "seal" /\ <<p, "build">> \in Scripts => <<p, "build">> \in dir.built
    <2> SUFFICES ASSUME Script[2] = "seal", <<p, "build">> \in Scripts
                 PROVE  <<p, "build">> \in dir.built
      OBVIOUS
    <2>1. p \in Builders BY ScriptShape
    <2> QED BY <2>1 DEF PlanInv, Backing, p
  <1>10. p = "ledger" => statement
    <2> SUFFICES ASSUME p = "ledger", ~statement PROVE FALSE
      OBVIOUS
    <2>1. ~SelfForced(plan, Here) /\ (statement \/ ready)
      BY <1>1, <1>7 DEF LedgerOf, LedgerPlanned, p
    <2>2. dir.seal["ledger"] = "PASS" BY <2>1, <1>7 DEF LedgerOf, Intact
    <2>3. Accepts(dir, "ledger") BY <2>2 DEF Accepts, ByPath
    <2> QED BY <2>1, <2>3 DEF Skips, Resuming, p, plan
  <1>11. p = "final" => dir.filtered /\ Intact(dir, "overlay")
    BY <1>3, <1>4, <1>6 DEF Stages
  <1>12. p = "universe" /\ dir.seal["ledger"] # "none" => Intact(dir, "ledger")
    <2> SUFFICES ASSUME p = "universe", dir.seal["ledger"] # "none", ~Intact(dir, "ledger")
                 PROVE  FALSE
      OBVIOUS
    <2>1. ~ready /\ statement BY <1>7 DEF LedgerOf
    <2>2. Script[2] = "seal" BY <1>1, <1>2, ScriptShape DEF Kinds, Builders, Sources, p
    <2>3. Here \in Seals(plan, "universe") BY <1>1, <1>2, <2>2 DEF Seals
    <2>4. Stands(plan, done, "ledger") BY <2>1, <2>3, <1>7 DEF LedgerOf, LedgerPlanned, done
    <2> QED BY <2>4, <1>6 DEF Stages
  <1> QED BY <1>8, <1>9, <1>10, <1>11, <1>12 DEF Ready, p

LEMMA AdvanceBacking ==
    ASSUME IInv, Backing, Advancing, statement' = statement, Affects(Script, dir, dir'),
           \/ Skips /\ UNCHANGED dir
           \/ Script[2] = "build" /\ Script \in dir'.built /\ (Script[1] = "ledger" => statement)
           \/ Script[2] # "build" /\ ~Skips
    PROVE  Backing'
  <1> SUFFICES ASSUME AtScript', Script'[1] \in Builders, Script'[2] # "build"
               PROVE  \/ Skips'
                      \/ /\ <<Script'[1], "build">> \in dir'.built
                         /\ Script'[1] = "ledger" => statement'
    BY DEF Backing
  <1>1. /\ Script[1] = Script'[1] /\ (Skips /\ UNCHANGED dir => Skips') BY NextScript
  <1>2. Script \in Scripts /\ Script = <<Script[1], Script[2]>>
    BY AtWork, ScriptShape DEF IInv, RunInv, Advancing
  <1>3. CASE Skips /\ UNCHANGED dir BY <1>1, <1>3
  <1>4. CASE Script[2] = "build" /\ Script \in dir'.built /\ (Script[1] = "ledger" => statement)
    BY <1>1, <1>2, <1>4
  <1>5. CASE Script[2] # "build" /\ ~Skips
    <2>1. <<Script[1], "build">> \in dir.built /\ (Script[1] = "ledger" => statement)
      BY <1>1, <1>5 DEF Backing, Advancing
    <2>2. <<Script[1], "build">> \in dir'.built BY <2>1, <1>5 DEF Affects
    <2> QED BY <1>1, <2>1, <2>2
  <1> QED BY <1>3, <1>4, <1>5

(* What a script does to the ledger's gate when it stops halfway.          *)
LEMMA AdvanceFiled ==
    ASSUME IInv, Filed, Backing, AtScript, ~Skips, Affects(Script, dir, dir'),
           statement' = statement
    PROVE  Filed'
  <1> SUFFICES ASSUME dir'.seal["ledger"] = "FAIL" PROVE statement BY DEF Filed
  <1>1. CASE dir.seal["ledger"] = "FAIL" BY <1>1 DEF Filed
  <1>2. CASE Script = <<"ledger", "seal">>
    <2>1. Script[1] \in Builders /\ Script[2] # "build" /\ Script[1] = "ledger"
      BY <1>2 DEF Builders, Sources
    <2> QED BY <2>1 DEF Backing
  <1> QED BY <1>1, <1>2 DEF Affects, Stages

LEMMA AdvanceMended ==
    ASSUME IInv, Mended, Advancing, DirInv(dir'), NextStanding
    PROVE  Mended'
  <1> SUFFICES ASSUME run'.on, ~run'.force, run'.clean, NEW p \in dir'.torn
               PROVE  AtScript' /\ Script' = <<p, "seal">> /\ ~Skips'
    BY DEF Mended
  <1>1. run.on /\ ~run.force /\ run.clean /\ run'.plan = run.plan /\ run'.force = run.force
        /\ Here' = <<Here[1], Here[2] + 1>> /\ run'.g = run.g /\ run'.k = run.k + 1
        /\ Group' = Group
    BY AdvanceDone
  <1>2. \A q \in dir.torn : Script = <<q, "seal">> /\ ~Skips BY <1>1 DEF Mended
  <1>3. /\ Script \in Scripts /\ run.g \in 1..Len(run.plan) /\ run.plan \in Seq(DOMAIN Groups)
        /\ Group \in DOMAIN Groups /\ Shape(Groups[Group]) /\ run.k \in 1..Len(Groups[Group])
        /\ Script = Groups[Group][run.k]
    BY AtWork DEF IInv, RunInv, Advancing
  <1>4. Script[2] \in Kinds /\ Script = <<Script[1], Script[2]>> BY <1>3, ScriptShape
  <1>5. Affects(Script, dir, dir') BY DEF NextStanding
  <1>6. p \in SingleStages \cup KeepsGate BY DEF DirInv, Typed
  <1>7. CASE UNCHANGED dir /\ Skips BY <1>2, <1>7
  <1>8. CASE Worked(dir') /\ Script[2] = "seal"
    <2>1. p \notin dir.torn \/ p = Script[1] BY <1>2
    <2>2. p = Script[1] BY <2>1, <1>5 DEF Affects
    <2> QED BY <2>2, <1>8 DEF Worked
  <1>9. CASE Script[2] # "seal"
    <2>1. p \notin dir.torn BY <1>2, <1>9
    <2>2. p = Script[1] /\ p \in KeepsGate BY <2>1, <1>5, <1>9 DEF Affects
    <2>3. Script[2] = "build"
      BY <2>2, <1>3, <1>4, <1>9, ScriptShape DEF Kinds, KeepsGate
    <2>4. run.k + 1 \in 2..Len(Groups[Group]) /\ Groups[Group][run.k + 1][1] = p
          /\ Groups[Group][run.k + 1][2] # "build"
      BY <2>2, <1>3, <1>9 DEF Shape
    <2>5. AtScript' BY <2>4, <1>1, <1>3 DEF AtScript
    <2>6. Script' = Groups[Group][run.k + 1] BY <1>1 DEF Script, StepAt, Here, Group
    <2>7. Script' \in Scripts
      <3>1. run.k + 1 \in 1..Len(Groups[Group]) BY <2>4, <1>3
      <3> QED BY <3>1, <2>6, <1>3, ScriptOf
    <2>8. Script' = <<p, "seal">>
      BY <2>2, <2>4, <2>6, <2>7, ScriptShape DEF Kinds, KeepsGate
    <2>9. ~Skips'
      <3>1. SelfForced(run.plan, Here) => SelfForced(run.plan, Here')
        <4>1. Script'[1] \in Builders /\ Script'[2] # "build" /\ Script' \notin NoForce
          BY <2>2, <2>8 DEF KeepsGate, Builders, Sources, NoForce
        <4> QED BY <4>1, <2>5, NextScript
      <3>2. CASE SelfForced(run.plan, Here) BY <3>1, <3>2, <1>1 DEF Skips
      <3>3. CASE ~SelfForced(run.plan, Here) /\ ~Skips
        <4>1. ~Accepts(dir, p) BY <3>3, <2>2, <1>1 DEF Skips
        <4>2. dir.seal[p] # "PASS" BY <4>1, <2>2 DEF Accepts, ByPath, KeepsGate
        <4>3. dir'.seal[p] # "PASS"
          BY <4>2, <2>2, <1>5, <1>9 DEF Affects, KeepsGate, Stages
        <4> QED BY <4>3, <2>8 DEF Skips, Accepts
      <3>4. ~Skips BY <2>1 DEF NextStanding
      <3> QED BY <3>2, <3>3, <3>4
    <2> QED BY <2>5, <2>8, <2>9
  <1> QED BY <1>7, <1>8, <1>9, <1>4 DEF NextStanding, Kinds

LEMMA AdvanceLedgered ==
    ASSUME IInv, Ledgered, Advancing, Affects(Script, dir, dir'), statement' = statement,
           Skips => UNCHANGED dir
    PROVE  Ledgered'
  <1> SUFFICES ASSUME Resuming' PROVE \E ready \in BOOLEAN : LedgerOf(run.plan, ready)'
    BY DEF Ledgered
  <1>1. Resuming /\ run'.plan = run.plan
    BY AdvanceDone DEF Resuming, InCadence
  <1>2. PICK ready \in BOOLEAN : LedgerOf(run.plan, ready) BY <1>1 DEF Ledgered
  <1>3. Script \in Scripts /\ Here \in Steps(run.plan)
    BY AtWork DEF IInv, RunInv, Advancing
  <1>4. "ledger" \in Stages BY DEF Stages
  <1>5. /\ ready => Intact(dir', "ledger")
        /\ ~ready /\ ~statement => dir'.seal["ledger"] = "none"
    <2>1. CASE Skips BY <2>1, <1>2 DEF LedgerOf
    <2>2. CASE Script[1] # "ledger"
      <3>1. "ledger" \in Spared(Script) BY <2>2, <1>3, LedgerSpared
      <3>2. dir'.seal["ledger"] = dir.seal["ledger"] /\ ("ledger" \in dir'.torn => "ledger" \in dir.torn)
        BY <3>1, <2>2 DEF Affects
      <3> QED BY <3>2, <1>2 DEF LedgerOf, Intact
    <2>3. CASE Script[1] = "ledger" /\ ~Skips
      <3>1. ~SelfForced(run.plan, Here) /\ (statement \/ ready)
        BY <2>3, <1>2, <1>3 DEF LedgerOf, LedgerPlanned, Script
      <3>2. ~Accepts(dir, "ledger") BY <2>3, <3>1, <1>1 DEF Skips, Resuming
      <3>3. ~ready BY <3>2, <1>2 DEF LedgerOf, Intact, Accepts, ByPath
      <3> QED BY <3>1, <3>3
    <2> QED BY <2>1, <2>2, <2>3
  <1> QED BY <1>1, <1>2, <1>5 DEF LedgerOf

LEMMA AdvancePlan ==
    ASSUME IInv, PlanInv, IInv', Advancing, meta' = meta, statement' = statement,
           NextStanding, Backing'
    PROVE  PlanInv'
  <1>1. run.on /\ run'.on /\ run'.request = run.request /\ run'.plan = run.plan
    BY AdvanceDone DEF Advancing, AtScript
  <1>2. Open' /\ Planned' BY <1>1 DEF PlanInv, Open, Planned, InCadence
  <1>3. Standing' BY AdvanceStanding DEF PlanInv
  <1>4. Filed'
    <2>1. CASE Skips BY <2>1 DEF PlanInv, Filed, NextStanding
    <2>2. CASE ~Skips BY <2>2, AdvanceFiled DEF PlanInv, NextStanding, Advancing
    <2> QED BY <2>1, <2>2
  <1>5. Mended' BY AdvanceMended DEF PlanInv, IInv
  <1>6. Ledgered' BY AdvanceLedgered DEF PlanInv, NextStanding
  <1>7. PassCoversPlan' /\ ResumeCompletes' BY <1>1 DEF PassCoversPlan, ResumeCompletes
  <1> QED BY <1>2, <1>3, <1>4, <1>5, <1>6, <1>7 DEF PlanInv

LEMMA EndPlan ==
    ASSUME run'.on = FALSE, Filed', PassCoversPlan', ResumeCompletes'
    PROVE  PlanInv'
  BY DEF PlanInv, Open, Planned, Standing, Backing, Mended, Ledgered, Resuming, InCadence, AtScript

(* A plan that came to its end has everything it planned.                  *)
LEMMA PlanCovered ==
    ASSUME IInv, PlanInv, run.on, ~AtScript, run.g = Len(run.plan), run.request \in Cadences
    PROVE  /\ \A j \in DOMAIN run.plan : \A t \in Range(Groups[run.plan[j]]) :
                  t[1] \notin Kept => Accepts(dir, t[1]) /\ t[1] \notin dir.outdated
           /\ dir.filtered
  <1> DEFINE plan == run.plan
             all == Steps(plan)
  <1>1. plan \in Seq(DOMAIN Groups) /\ run.k \in Nat /\ run.g \in 0..Len(plan)
    BY DEF IInv, TypeOK, RunInv, Placed
  <1>2. DoneHere = all
    <2>1. run.g > 0 => run.k > Len(Groups[plan[run.g]])
      <3> SUFFICES ASSUME run.g > 0 PROVE run.k > Len(Groups[Group]) BY DEF Group
      <3>1. Group \in DOMAIN Groups BY <1>1 DEF Group
      <3>2. Shape(Groups[Group]) BY <3>1, Shapes
      <3> QED BY <3>2, <1>1 DEF AtScript, Shape
    <2> QED BY <2>1, <1>1, DoneGroup DEF DoneHere, Here
  <1>3. Completing(plan) BY DEF PlanInv, Planned, InCadence
  <1>4. /\ \A p \in Stages : /\ Stands(plan, all, p) => Accepts(dir, p)
                             /\ Renewed(plan, all, p) => p \notin dir.outdated
        /\ Filtered(plan, all) => dir.filtered
    BY <1>2 DEF PlanInv, Standing, InCadence
  <1> HIDE DEF all
  <1>5. ASSUME NEW j \in DOMAIN plan, NEW t \in Range(Groups[plan[j]]), t[1] \notin Kept
        PROVE  Accepts(dir, t[1]) /\ t[1] \notin dir.outdated
    <2>1. j \in 1..Len(plan) /\ plan[j] \in DOMAIN Groups BY <1>1
    <2>2. PICK k \in DOMAIN Groups[plan[j]] : t = Groups[plan[j]][k] BY DEF Range
    <2>3. k \in 1..Len(Groups[plan[j]]) BY <2>1, <2>2, Shapes DEF Shape
    <2>4. <<j, k>> \in Steps(plan) BY <2>1, <2>3, <1>1, InSteps
    <2>5. StepAt(plan, <<j, k>>) = t BY <2>2 DEF StepAt
    <2>6. t \in Scripts BY <2>1, <2>2, <2>3, ScriptOf
    <2>7. t[1] \in Stages BY <2>6, ScriptShape
    <2>8. /\ Stands(plan, all, t[1])
          /\ t[1] \in NotInvalidated => Renewed(plan, all, t[1])
      BY <2>4, <2>5, <1>3, <1>5 DEF Completing, all
    <2>9. Accepts(dir, t[1]) BY <2>7, <2>8, <1>4
    <2>10. CASE t[1] \in NotInvalidated BY <2>7, <2>8, <2>9, <2>10, <1>4
    <2>11. CASE t[1] \notin NotInvalidated
      BY <2>7, <2>9, <2>11 DEF IInv, DirInv, Current, Accepts, Listed
    <2> QED BY <2>9, <2>10, <2>11
  <1> QED BY <1>3, <1>4, <1>5 DEF Completing, all

(***************************************************************************)
(* Initiation and consecution                                              *)
(***************************************************************************)
LEMMA InitPlan == Init => PlanInv
  <1> SUFFICES ASSUME Init PROVE PlanInv OBVIOUS
  <1>1. run.on = FALSE /\ meta = "none" BY DEF Init, NoRun
  <1>2. dir.seal["ledger"] = "none" BY DEF Init, Empty, Stages
  <1> QED BY <1>1, <1>2 DEF PlanInv, Open, Planned, Standing, Backing, Filed, Mended, Ledgered,
       Resuming, InCadence, AtScript, PassCoversPlan, ResumeCompletes

LEMMA BeginPlan ==
    ASSUME IInv, PlanInv, NEW request \in Requests, NEW force \in BOOLEAN, Begin(request, force)
    PROVE  PlanInv'
  <1> DEFINE plan == Plan(request)
  <1>1. statement \in BOOLEAN /\ LedgerReady \in BOOLEAN
    BY DEF IInv, TypeOK, LedgerReady, Intact
  <1>2. /\ plan \in Seq(DOMAIN Groups)
        /\ request \in Cadences =>
               Supplied(plan) /\ Completing(plan) /\ LedgerPlanned(plan, statement, LedgerReady)
    BY <1>1, PlansAssumption DEF Plan
  <1>3. /\ run'.on /\ run'.request = request /\ run'.plan = plan /\ run'.g = 0 /\ run'.k = 0
        /\ run'.clean = (dir.torn = {})
        /\ meta' = "RUNNING" /\ UNCHANGED <<dir, statement>>
    BY DEF Begin, NoRun
  <1> HIDE DEF plan
  <1>4. Open' /\ Planned' BY <1>2, <1>3 DEF Open, Planned, InCadence
  <1>5. DoneHere' = {} BY <1>2, <1>3, DoneNone DEF DoneHere, Here
  <1>6. Standing'
    BY <1>5, SinceNothing DEF Standing, Stands, Renewed, Purged, Filtered
  <1>7. Backing' BY <1>3 DEF Backing, AtScript
  <1>8. Filed' BY <1>3 DEF PlanInv, Filed
  <1>9. Mended' BY <1>3 DEF Mended
  <1>10. Ledgered'
    <2> SUFFICES ASSUME Resuming' PROVE \E ready \in BOOLEAN : LedgerOf(run.plan, ready)'
      BY DEF Ledgered
    <2>1. request \in Cadences /\ dir.torn = {} BY <1>3 DEF Resuming, InCadence
    <2>3. LedgerReady => Intact(dir', "ledger") BY <1>3 DEF LedgerReady
    <2>4. ~LedgerReady /\ ~statement => dir'.seal["ledger"] = "none"
      <3>1. dir.seal["ledger"] \in {"none", "PASS", "FAIL"} BY DEF IInv, DirInv, Typed, Stages
      <3> QED BY <3>1, <2>1, <1>3 DEF LedgerReady, Intact, PlanInv, Filed
    <2> DEFINE ready == LedgerReady
    <2>6. ready \in BOOLEAN /\ LedgerPlanned(plan, statement, ready) BY <1>1, <1>2, <2>1
    <2> HIDE DEF ready
    <2> QED BY <1>3, <2>3, <2>4, <2>6 DEF LedgerOf, ready
  <1>11. PassCoversPlan' /\ ResumeCompletes' BY <1>3 DEF PassCoversPlan, ResumeCompletes
  <1> QED BY <1>4, <1>6, <1>7, <1>8, <1>9, <1>10, <1>11 DEF PlanInv

LEMMA StepPlan == JInv /\ [Next]_vars => JInv'
  <1> SUFFICES ASSUME JInv, [Next]_vars PROVE PlanInv' BY StepInv DEF JInv
  <1>1. IInv /\ PlanInv /\ IInv' BY StepInv DEF JInv
  <1>2. ASSUME NEW request \in Requests, NEW force \in BOOLEAN, Begin(request, force)
        PROVE  PlanInv'
    BY <1>1, <1>2, BeginPlan
  <1>3. CASE NextGroup
    <2>1. run.on /\ ~AtScript /\ UNCHANGED <<dir, statement>> BY <1>3 DEF NextGroup
    <2>2. CASE run.g = Len(run.plan)
      <3>1. run' = Ended(run) /\ meta' = Terminal BY <2>2, <1>3 DEF NextGroup
      <3>2. /\ run'.on = FALSE /\ run'.plan = run.plan /\ run'.request = run.request
        BY <3>1, <1>1 DEF Ended, IInv, TypeOK
      <3>3. Terminal # "FAIL" BY DEF Terminal
      <3>4. Filed' BY <1>1, <2>1 DEF PlanInv, Filed
      <3>5. ResumeCompletes' BY <3>1, <3>3 DEF ResumeCompletes
      <3>6. PassCoversPlan'
        <4>1. run.request \in Cadences =>
                  /\ \A j \in DOMAIN run.plan : \A t \in Range(Groups[run.plan[j]]) :
                        t[1] \notin Kept => Accepts(dir, t[1]) /\ t[1] \notin dir.outdated
                  /\ dir.filtered
          BY <1>1, <2>1, <2>2, PlanCovered
        <4> QED BY <4>1, <3>2, <2>1 DEF PassCoversPlan
      <3> QED BY <3>2, <3>4, <3>5, <3>6, EndPlan
    <2>3. CASE run.g # Len(run.plan)
      <3>1. run.plan \in Seq(DOMAIN Groups) /\ run.k \in Nat /\ run.g \in 0..Len(run.plan)
        BY <1>1, <2>1 DEF IInv, TypeOK, RunInv, Placed
      <3>2. /\ run'.on = run.on /\ run'.plan = run.plan /\ run'.request = run.request
            /\ run'.force = run.force /\ run'.clean = run.clean
            /\ run'.g = run.g + 1 /\ run'.k = 1 /\ meta' = meta
        BY <1>1, <1>3, <2>3 DEF NextGroup, IInv, TypeOK
      <3>3. DoneHere' = DoneHere
        <4>1. run.g > 0 => run.k > Len(Groups[run.plan[run.g]])
          <5> SUFFICES ASSUME run.g > 0 PROVE run.k > Len(Groups[Group]) BY DEF Group
          <5>1. Group \in DOMAIN Groups BY <3>1 DEF Group
          <5>2. Shape(Groups[Group]) BY <5>1, Shapes
          <5> QED BY <5>2, <3>1, <2>1 DEF AtScript, Shape
        <4>2. Done(run.plan, <<run.g + 1, 1>>) = Done(run.plan, <<run.g, run.k>>)
          BY <4>1, <3>1, DoneGroup
        <4> QED BY <4>2, <3>2 DEF DoneHere, Here
      <3>4. Open' /\ Planned' BY <1>1, <2>1, <3>2 DEF PlanInv, Open, Planned, InCadence
      <3>5. Standing' BY <1>1, <2>1, <3>2, <3>3 DEF PlanInv, Standing, InCadence
      <3>6. Backing'
        <4>1. Group' \in DOMAIN Groups BY <3>1, <3>2, <2>3 DEF Group
        <4>2. Script' = Groups[Group'][1] BY <3>2 DEF Script, StepAt, Here, Group
        <4> QED BY <4>1, <4>2, Shapes DEF Backing, Shape
      <3>7. Filed' BY <1>1, <2>1 DEF PlanInv, Filed
      <3>8. Mended' BY <1>1, <2>1, <3>2 DEF PlanInv, Mended
      <3>9. Ledgered'
        BY <1>1, <2>1, <3>2 DEF PlanInv, Ledgered, LedgerOf, Resuming, InCadence
      <3>10. PassCoversPlan' /\ ResumeCompletes' BY <2>1, <3>2 DEF PassCoversPlan, ResumeCompletes
      <3> QED BY <3>4, <3>5, <3>6, <3>7, <3>8, <3>9, <3>10 DEF PlanInv
    <2> QED BY <2>2, <2>3
  <1>4. CASE Skip
    <2>1. /\ AtScript /\ Skips /\ UNCHANGED <<meta, dir, statement>>
          /\ run' = [run EXCEPT !.k = @ + 1]
      BY <1>4 DEF Skip, Advance
    <2>2. Advancing BY <2>1, <1>1 DEF IInv, TypeOK, Advancing
    <2>3. NextStanding BY <2>1, AffectsSelf DEF NextStanding
    <2>4. Backing' BY <1>1, <2>1, <2>2, <2>3, AdvanceBacking DEF PlanInv, NextStanding
    <2> QED BY <1>1, <2>1, <2>2, <2>3, <2>4, AdvancePlan
  <1>5. CASE Succeed
    <2>1. /\ AtScript /\ ~Skips /\ ~Refused /\ Ready(dir, Script)
          /\ dir' = Completed(Started, Script, Group)
          /\ UNCHANGED <<meta, statement>> /\ run' = [run EXCEPT !.k = @ + 1]
      BY <1>5 DEF Succeed, Advance, Started
    <2>2. Advancing BY <2>1, <1>1 DEF IInv, TypeOK, Advancing
    <2>3. NextStanding BY <1>1, <2>1, CompletedAffects DEF NextStanding
    <2>4. Script[2] # "seal" => Script \in dir'.built BY <1>1, <2>1, CompletedInv
    <2>5. Backing'
      BY <1>1, <2>1, <2>2, <2>3, <2>4, AdvanceBacking DEF PlanInv, NextStanding, Ready
    <2> QED BY <1>1, <2>1, <2>2, <2>3, <2>5, AdvancePlan
  <1>6. CASE Fail
    <2>1. AtScript /\ ~Skips /\ ~Refused /\ UNCHANGED statement BY <1>6, NeverRefused DEF Fail
    <2>2. Affects(Script, dir, dir')
      <3>1. dir' \in Failed(dir, Script, Forced) BY <1>6, <2>1 DEF Fail
      <3> QED BY <3>1, <1>1, <2>1, FailedAffects
    <2>3. CASE Optional(Script)
      <3>1. run' = [run EXCEPT !.k = @ + 1, !.soft = TRUE] /\ meta' = meta BY <2>3, <1>6 DEF Fail
      <3>2. Advancing BY <2>1, <3>1, <1>1 DEF IInv, TypeOK, Advancing
      <3>3. Script[2] = "spread" BY <2>3 DEF Optional
      <3>4. NextStanding BY <2>1, <2>2, <3>3 DEF NextStanding, Worked
      <3>5. Backing' BY <1>1, <2>1, <2>2, <3>2, <3>3, AdvanceBacking DEF PlanInv
      <3> QED BY <1>1, <2>1, <3>1, <3>2, <3>4, <3>5, AdvancePlan
    <2>4. CASE ~Optional(Script)
      <3> DEFINE clean == run.clean /\ (Refused \/ ~Ready(dir, Script))
      <3>1. run' = Ended([run EXCEPT !.clean = clean]) /\ meta' = "FAIL"
        BY <2>4, <1>6, <1>1 DEF Fail, IInv, TypeOK
      <3>2. run.on BY <2>1 DEF AtScript
      <3>3. run.request \in Cadences /\ ~run.force => ~clean
        BY <1>1, <2>1, <3>2, ReadyAlways DEF Resuming, InCadence
      <3> HIDE DEF clean
      <3>4. /\ run'.on = FALSE /\ run'.request = run.request /\ run'.force = run.force
            /\ run'.clean = clean
        BY <3>1, <1>1 DEF Ended, IInv, TypeOK
      <3>5. Filed' BY <1>1, <2>1, <2>2, AdvanceFiled DEF PlanInv
      <3>6. PassCoversPlan' BY <3>1 DEF PassCoversPlan
      <3>7. ResumeCompletes' BY <3>3, <3>4 DEF ResumeCompletes
      <3> QED BY <3>4, <3>5, <3>6, <3>7, EndPlan
    <2> QED BY <2>3, <2>4
  <1>7. CASE Stop
    <2>1. run.on /\ run' = Ended([run EXCEPT !.clean = FALSE]) /\ meta' \in {meta, "FAIL"}
          /\ UNCHANGED statement
      BY <1>7 DEF Stop
    <2>2. run'.on = FALSE /\ run'.clean = FALSE BY <2>1, <1>1 DEF Ended, IInv, TypeOK
    <2>3. Filed'
      <3>1. CASE AtScript /\ ~Skips /\ ~Refused
        <4>1. dir' \in CutShort(dir, Script, Forced) BY <3>1, <1>7 DEF Stop
        <4>2. Affects(Script, dir, dir') BY <4>1, <3>1, <1>1, CutShortAffects
        <4> QED BY <4>2, <3>1, <1>1, <2>1, AdvanceFiled DEF PlanInv
      <3>2. CASE ~(AtScript /\ ~Skips /\ ~Refused)
        BY <3>2, <1>1, <1>7 DEF Stop, PlanInv, Filed
      <3> QED BY <3>1, <3>2
    <2>4. meta' \in {"RUNNING", "FAIL"} BY <1>1, <2>1 DEF PlanInv, Open
    <2>5. PassCoversPlan' BY <2>4 DEF PassCoversPlan
    <2>6. ResumeCompletes' BY <2>2 DEF ResumeCompletes
    <2> QED BY <2>2, <2>3, <2>5, <2>6, EndPlan
  <1>8. CASE StatementArrives
    <2>1. ~run.on /\ UNCHANGED <<run, meta, dir>> /\ statement' = TRUE BY <1>8 DEF StatementArrives
    <2>2. Filed' BY <2>1 DEF Filed
    <2>3. PassCoversPlan' /\ ResumeCompletes'
      BY <1>1, <2>1 DEF PlanInv, PassCoversPlan, ResumeCompletes
    <2>4. run'.on = FALSE BY <1>1, <2>1 DEF IInv, TypeOK
    <2> QED BY <2>2, <2>3, <2>4, EndPlan
  <1>9. CASE UNCHANGED vars
    <2>1. UNCHANGED <<run, meta, dir, statement>> BY <1>9 DEF vars
    <2> QED BY <1>1, <2>1 DEF PlanInv, Open, Planned, Standing, Backing, Filed, Mended, Ledgered,
         LedgerOf, Resuming, InCadence, DoneHere, PassCoversPlan, ResumeCompletes, AtScript, Script,
         Group, Here, Skips
  <1> QED BY <1>2, <1>3, <1>4, <1>5, <1>6, <1>7, <1>8, <1>9 DEF Next

(***************************************************************************)
(* The theorems                                                            *)
(***************************************************************************)
(* The directory agrees with the plan in every state of every run.         *)
THEOREM PlanInvariance == Spec => []JInv
  <1>1. Init => JInv BY InitInv, InitPlan DEF JInv
  <1>2. JInv /\ [Next]_vars => JInv' BY StepPlan
  <1> QED BY <1>1, <1>2, PTL DEF Spec

(* A cadence that 18 seals as passed has every group it planned accepted   *)
(* over current inputs, and a book solved under the monitor's overlay.     *)
THEOREM PassesCoverTheirPlan == Spec => []PassCoversPlan
  <1>1. JInv => PassCoversPlan BY DEF JInv, PlanInv
  <1> QED BY <1>1, PlanInvariance, PTL

(* A cadence started or resumed without force, over a directory with no    *)
(* torn stage, fails only of a script's own failure: no order of earlier   *)
(* runs, forced, cut short or failed, leaves a state it cannot finish from.*)
THEOREM ResumesComplete == Spec => []ResumeCompletes
  <1>1. JInv => ResumeCompletes BY DEF JInv, PlanInv
  <1> QED BY <1>1, PlanInvariance, PTL
================================================================================
