---------------------------- MODULE NightlyProofs -----------------------------
(***************************************************************************)
(* What a nightly's verdict and its sweep of abandoned manifests show, for *)
(* any nightlies, operators and faults.                                    *)
(***************************************************************************)
EXTENDS Nightly, TLAPS

(* The variables the verdict rests on; the order of the master manifests   *)
(* is left out, and with it the choice among them.                         *)
Types ==
    /\ night \in [Nightlies -> NightStates]
    /\ manifest \in [Nightlies -> {"none", "RUNNING"} \cup Verdicts]
    /\ master \in [Masters -> MasterStates]

Ended == {"passed", "failed", "dead"}

(* A nightly's master runs between its passes, and the verdict is its last step. *)
VerdictInv ==
    \A n \in Nightlies :
        /\ night[n].pc = "master" => master[n] # "idle"
        /\ night[n].pc = "pass" /\ night[n].phase = "post" =>
              master[n] \in Ended /\ (night[n].rc = 0 => master[n] = "passed")
        /\ manifest[n] \in {"PASS", "FAIL_MASTER", "FAIL_LATE"} =>
              night[n].pc = "done" /\ master[n] \in Ended
        /\ manifest[n] = "PASS" => master[n] = "passed" /\ night[n].accepted = Passes

(* A nightly looks at the manifests it found before it opens its own.      *)
SweepInv ==
    \A n \in Nightlies :
        /\ night[n].pc \in {"idle", "scan", "probe", "close"} => manifest[n] = "none"
        /\ night[n].pc \in {"check", "validate", "pass", "master", "done"} => manifest[n] # "none"
        /\ night[n].pc \in {"probe", "close"} => night[n].todo # {}
        /\ manifest[n] # "none" => night[n].todo = {}
        /\ \A m \in night[n].todo : manifest[m] # "none"
        /\ \A m \in night[n].gone :
              night[m].pc = "dead" /\ (m \in night[n].todo \/ manifest[m] # "RUNNING")

NInv == Types /\ VerdictInv /\ SweepInv

(* What a nightly n may become, with its manifest and its master.          *)
Sound(n, w, v, ms) ==
    /\ w.pc = "master" => ms # "idle"
    /\ w.pc = "pass" /\ w.phase = "post" => ms \in Ended /\ (w.rc = 0 => ms = "passed")
    /\ v \in {"PASS", "FAIL_MASTER", "FAIL_LATE"} => w.pc = "done" /\ ms \in Ended
    /\ v = "PASS" => ms = "passed" /\ w.accepted = Passes
    /\ w.pc \in {"idle", "scan", "probe", "close"} => v = "none"
    /\ w.pc \in {"check", "validate", "pass", "master", "done"} => v # "none"
    /\ w.pc \in {"probe", "close"} => w.todo # {}
    /\ v # "none" => w.todo = {}
    /\ manifest[n] # "none" => v # "none"
    /\ \A m \in w.todo : manifest[m] # "none"
    /\ \A m \in w.gone : night[m].pc = "dead" /\ (m \in w.todo \/ manifest[m] # "RUNNING")

-----------------------------------------------------------------------------
LEMMA InitInv == Init => NInv
BY DEF Init, NInv, Types, VerdictInv, SweepInv, NewNight, NightStates, MasterStates, Passes, Verdicts

(* What steps make of a nightly is in range. *)
LEMMA NightMoves ==
  ASSUME Types, NEW n \in Nightlies
  PROVE  /\ night[n] \in NightStates
         /\ \A pc \in {"scan", "probe", "close", "check", "done", "dead"} :
              [night[n] EXCEPT !.pc = pc] \in NightStates
         /\ \A S \in SUBSET Nightlies : [night[n] EXCEPT !.pc = "scan", !.todo = S] \in NightStates
         /\ \A S, T \in SUBSET Nightlies :
              [night[n] EXCEPT !.pc = "scan", !.todo = S, !.gone = T] \in NightStates
         /\ \A S \in SUBSET Masters : [night[n] EXCEPT !.pc = "validate", !.before = S] \in NightStates
         /\ \A ph \in Passes, rc \in {0, 1} :
              [night[n] EXCEPT !.pc = "pass", !.phase = ph, !.rc = rc] \in NightStates
         /\ \A pc \in {"master", "done"} :
              [night[n] EXCEPT !.pc = pc, !.accepted = WithVerdict(n)] \in NightStates
         /\ \A b \in BOOLEAN : [night[n] EXCEPT !.due = b] \in NightStates
         /\ \A S, T \in SUBSET Nightlies :
              [NewNight EXCEPT !.pc = "scan", !.todo = S, !.gone = T] \in NightStates
<1>1. night[n] \in NightStates
  BY DEF Types
<1>2. WithVerdict(n) \in SUBSET Passes
  BY <1>1 DEF WithVerdict, NightStates
<1>3. \A pc \in {"scan", "probe", "close", "check", "done", "dead"} :
        [night[n] EXCEPT !.pc = pc] \in NightStates
  BY <1>1 DEF NightStates
<1>4. \A S \in SUBSET Nightlies : [night[n] EXCEPT !.pc = "scan", !.todo = S] \in NightStates
  BY <1>1 DEF NightStates
<1>10. \A S, T \in SUBSET Nightlies : [night[n] EXCEPT !.pc = "scan", !.todo = S, !.gone = T] \in NightStates
  BY <1>1 DEF NightStates
<1>5. \A S \in SUBSET Masters : [night[n] EXCEPT !.pc = "validate", !.before = S] \in NightStates
  BY <1>1 DEF NightStates
<1>6. \A ph \in Passes, rc \in {0, 1} :
        [night[n] EXCEPT !.pc = "pass", !.phase = ph, !.rc = rc] \in NightStates
  BY <1>1 DEF NightStates
<1>7. \A pc \in {"master", "done"} : [night[n] EXCEPT !.pc = pc, !.accepted = WithVerdict(n)] \in NightStates
  BY <1>1, <1>2 DEF NightStates
<1>8. \A b \in BOOLEAN : [night[n] EXCEPT !.due = b] \in NightStates
  BY <1>1 DEF NightStates
<1>9. \A S, T \in SUBSET Nightlies : [NewNight EXCEPT !.pc = "scan", !.todo = S, !.gone = T] \in NightStates
  BY DEF NightStates, NewNight, Passes
<1> QED
  BY <1>1, <1>3, <1>4, <1>5, <1>6, <1>7, <1>8, <1>9, <1>10

(* A step of one nightly that is sound for it disturbs no other. *)
LEMMA OwnStep ==
  ASSUME NInv, NEW n \in Nightlies, night[n].pc # "dead",
         NEW w \in NightStates, NEW v \in {"none", "RUNNING"} \cup Verdicts, NEW ms \in MasterStates,
         night' = [night EXCEPT ![n] = w], manifest' = [manifest EXCEPT ![n] = v],
         master' = [master EXCEPT ![n] = ms], Sound(n, w, v, ms)
  PROVE  NInv'
<1> USE DEF NInv
<1>0. n \in Masters
  BY DEF Masters
<1>1. Types'
  BY DEF Types
<1>2. night'[n] = w /\ manifest'[n] = v /\ master'[n] = ms
  BY <1>0 DEF Types
<1>3. \A k \in Nightlies \ {n} : /\ night'[k] = night[k] /\ manifest'[k] = manifest[k]
                                 /\ k \in Masters /\ master'[k] = master[k]
  BY DEF Types, Masters
<1>4. VerdictInv'
  BY <1>2, <1>3 DEF VerdictInv, Sound
<1>5. ASSUME NEW k \in Nightlies
      PROVE  \A m \in night[k].gone : m \in Nightlies \ {n}
  <2>1. night[k].gone \subseteq Nightlies
    BY DEF Types, NightStates
  <2> QED
    BY <2>1 DEF SweepInv
<1>6. ASSUME NEW k \in Nightlies, k # n
      PROVE  /\ \A m \in night'[k].todo : manifest'[m] # "none"
             /\ \A m \in night'[k].gone :
                   night'[m].pc = "dead" /\ (m \in night'[k].todo \/ manifest'[m] # "RUNNING")
  <2>1. night[k].todo \subseteq Nightlies
    BY DEF Types, NightStates
  <2> QED
    BY <1>2, <1>3, <1>5, <1>6, <2>1 DEF SweepInv, Sound
<1>7. /\ \A m \in w.todo : manifest'[m] # "none"
      /\ \A m \in w.gone : night'[m].pc = "dead" /\ (m \in w.todo \/ manifest'[m] # "RUNNING")
  <2>1. w.todo \subseteq Nightlies /\ w.gone \subseteq Nightlies
    BY DEF NightStates
  <2>2. n \notin w.gone
    BY DEF Sound
  <2> QED
    BY <1>2, <1>3, <2>1, <2>2 DEF Sound
<1>8. SweepInv'
  <2>1. ASSUME NEW k \in Nightlies
        PROVE  /\ night'[k].pc \in {"idle", "scan", "probe", "close"} => manifest'[k] = "none"
               /\ night'[k].pc \in {"check", "validate", "pass", "master", "done"} => manifest'[k] # "none"
               /\ night'[k].pc \in {"probe", "close"} => night'[k].todo # {}
               /\ manifest'[k] # "none" => night'[k].todo = {}
    BY <1>2, <1>3 DEF SweepInv, Sound
  <2> QED
    BY <2>1, <1>2, <1>6, <1>7 DEF SweepInv
<1> QED
  BY <1>1, <1>4, <1>8

(* Masters that have ended stay so, and none becomes idle. *)
LEMMA MastersMove ==
  ASSUME NInv, UNCHANGED nightVars, master' \in [Masters -> MasterStates],
         \A m \in Nightlies : /\ master[m] \in Ended => master'[m] = master[m]
                              /\ master[m] # "idle" => master'[m] # "idle"
  PROVE  NInv'
BY DEF NInv, Types, VerdictInv, SweepInv, nightVars

LEMMA NightStepInv ==
  ASSUME NInv, NEW n \in Nightlies, Start(n) \/ NightStep(n) \/ KillNightly(n)
  PROVE  NInv'
<1>t. /\ night[n] \in NightStates /\ n \in Masters /\ master[n] \in MasterStates
      /\ manifest[n] \in {"none", "RUNNING"} \cup Verdicts
      /\ manifest = [manifest EXCEPT ![n] = manifest[n]] /\ master = [master EXCEPT ![n] = master[n]]
  BY DEF NInv, Types, Masters
<1>v. /\ night[n].pc = "master" => master[n] # "idle"
      /\ night[n].pc = "pass" /\ night[n].phase = "post" =>
            master[n] \in Ended /\ (night[n].rc = 0 => master[n] = "passed")
      /\ manifest[n] \in {"PASS", "FAIL_MASTER", "FAIL_LATE"} => night[n].pc = "done" /\ master[n] \in Ended
      /\ manifest[n] = "PASS" => master[n] = "passed" /\ night[n].accepted = Passes
  BY DEF NInv, VerdictInv
<1>s. /\ night[n].pc \in {"idle", "scan", "probe", "close"} => manifest[n] = "none"
      /\ night[n].pc \in {"check", "validate", "pass", "master", "done"} => manifest[n] # "none"
      /\ night[n].pc \in {"probe", "close"} => night[n].todo # {}
      /\ manifest[n] # "none" => night[n].todo = {}
      /\ \A m \in night[n].todo : manifest[m] # "none"
      /\ \A m \in night[n].gone : night[m].pc = "dead" /\ (m \in night[n].todo \/ manifest[m] # "RUNNING")
  BY DEF NInv, SweepInv
<1>w. ASSUME NEW w \in NightStates, NEW v \in {"none", "RUNNING"} \cup Verdicts,
             night[n].pc # "dead", night' = [night EXCEPT ![n] = w],
             manifest' = manifest \/ manifest' = [manifest EXCEPT ![n] = v],
             manifest' = manifest => v = manifest[n],
             UNCHANGED master, Sound(n, w, v, master[n])
      PROVE  NInv'
  <2>1. manifest' = [manifest EXCEPT ![n] = v] /\ master' = [master EXCEPT ![n] = master[n]]
    BY <1>w, <1>t
  <2> QED
    BY <2>1, <1>w, <1>t, OwnStep
<1>1. CASE Start(n)
  <2> DEFINE S == {m \in Nightlies : manifest[m] # "none"}
             T == {m \in Nightlies : night[m].pc = "dead"}
             w == [NewNight EXCEPT !.pc = "scan", !.todo = S, !.gone = T]
  <2>1. night' = [night EXCEPT ![n] = w] /\ night[n].pc = "idle" /\ UNCHANGED <<manifest, master>>
    BY <1>1 DEF Start, masterVars
  <2>2. w \in NightStates
    BY NightMoves DEF NInv
  <2>3. w.pc = "scan" /\ w.todo = S /\ w.gone = T
    BY DEF NewNight
  <2>4. \A m \in T : m \in S \/ manifest[m] # "RUNNING"
    OBVIOUS
  <2>5. Sound(n, w, manifest[n], master[n])
    <3> HIDE DEF w
    <3> QED
      BY <2>1, <2>3, <2>4, <1>s DEF Sound
  <2> HIDE DEF w
  <2> QED
    BY <2>1, <2>2, <2>5, <1>t, <1>w
<1>g. ASSUME NEW pc \in {"scan", "probe", "close", "check", "done", "dead"}
      PROVE  /\ [night[n] EXCEPT !.pc = pc] \in NightStates
             /\ [night[n] EXCEPT !.pc = pc].pc = pc
             /\ [night[n] EXCEPT !.pc = pc].todo = night[n].todo
             /\ [night[n] EXCEPT !.pc = pc].gone = night[n].gone
  <2>1. [night[n] EXCEPT !.pc = pc] \in NightStates
    BY NightMoves DEF NInv
  <2>2. /\ [night[n] EXCEPT !.pc = pc].pc = pc
        /\ [night[n] EXCEPT !.pc = pc].todo = night[n].todo
        /\ [night[n] EXCEPT !.pc = pc].gone = night[n].gone
    BY <1>t DEF NightStates
  <2> QED
    BY <2>1, <2>2
<1>d. ASSUME night' = [night EXCEPT ![n].pc = "scan", ![n].todo = night[n].todo \ {Target(n)}],
             UNCHANGED <<manifest, master>>, night[n].pc \in {"scan", "probe"},
             Target(n) \in night[n].gone => manifest[Target(n)] # "RUNNING"
      PROVE  NInv'
  <2> DEFINE w == [night[n] EXCEPT !.pc = "scan", !.todo = night[n].todo \ {Target(n)}]
  <2>0. night[n].todo \ {Target(n)} \in SUBSET Nightlies
    BY <1>t DEF NightStates
  <2>1. w \in NightStates
    BY <2>0, NightMoves DEF NInv
  <2>2. w.pc = "scan" /\ w.todo = night[n].todo \ {Target(n)} /\ w.gone = night[n].gone
    BY <1>t DEF NightStates
  <2>3. night' = [night EXCEPT ![n] = w]
    BY <1>d
  <2> HIDE DEF w
  <2>4. Sound(n, w, manifest[n], master[n])
    BY <2>2, <1>d, <1>s DEF Sound
  <2> QED
    BY <2>1, <2>3, <2>4, <1>d, <1>t, <1>w
<1>k. ASSUME Skip(n), UNCHANGED <<manifest, master>>, night[n].pc \in {"scan", "probe"}
      PROVE  NInv'
  <2> DEFINE T == night[n].todo \ {Target(n)}
             G == night[n].gone \ {Target(n)}
             w == [night[n] EXCEPT !.pc = "scan", !.todo = T, !.gone = G]
  <2>0. T \in SUBSET Nightlies /\ G \in SUBSET Nightlies
    BY <1>t DEF NightStates
  <2>1. w \in NightStates
    BY <2>0, NightMoves DEF NInv
  <2>2. w.pc = "scan" /\ w.todo = night[n].todo \ {Target(n)} /\ w.gone = night[n].gone \ {Target(n)}
    BY <1>t DEF NightStates
  <2>3. night' = [night EXCEPT ![n] = w]
    BY <1>k DEF Skip
  <2> HIDE DEF w
  <2>4. Sound(n, w, manifest[n], master[n])
    BY <2>2, <1>k, <1>s DEF Sound
  <2> QED
    BY <2>1, <2>3, <2>4, <1>k, <1>t, <1>w
<1>2. CASE Load(n)
  <2>1. night[n].pc = "scan" /\ night[n].todo # {} /\ UNCHANGED <<manifest, master>>
    BY <1>2 DEF Load, masterVars
  <2>2. CASE Goto(n, "probe")
    <3> DEFINE w == [night[n] EXCEPT !.pc = "probe"]
    <3>1. night' = [night EXCEPT ![n] = w]
      BY <2>2 DEF Goto
    <3>2. w \in NightStates /\ w.pc = "probe" /\ w.todo = night[n].todo /\ w.gone = night[n].gone
      BY <1>g
    <3> HIDE DEF w
    <3>3. Sound(n, w, manifest[n], master[n])
      BY <2>1, <3>2, <1>s DEF Sound
    <3> QED
      BY <2>1, <3>1, <3>2, <3>3, <1>t, <1>w
  <2>3. CASE manifest[Target(n)] # "RUNNING" /\ Drop(n)
    BY <2>1, <2>3, <1>d DEF Drop
  <2>4. CASE Skip(n)
    BY <2>1, <2>4, <1>k
  <2> QED
    BY <2>2, <2>3, <2>4, <1>2 DEF Load
<1>3. CASE Probe(n)
  <2>1. night[n].pc = "probe" /\ UNCHANGED <<manifest, master>>
    BY <1>3 DEF Probe, masterVars
  <2>2. CASE Goto(n, "close")
    <3> DEFINE w == [night[n] EXCEPT !.pc = "close"]
    <3>1. night' = [night EXCEPT ![n] = w]
      BY <2>2 DEF Goto
    <3>2. w \in NightStates /\ w.pc = "close" /\ w.todo = night[n].todo /\ w.gone = night[n].gone
      BY <1>g
    <3> HIDE DEF w
    <3>3. Sound(n, w, manifest[n], master[n])
      BY <2>1, <3>2, <1>s DEF Sound
    <3> QED
      BY <2>1, <3>1, <3>2, <3>3, <1>t, <1>w
  <2>3. CASE ~Abandoned(Target(n)) /\ Drop(n)
    <3>1. Target(n) \notin night[n].gone
      BY <2>3, <1>s DEF Abandoned, Gone
    <3> QED
      BY <2>1, <2>3, <3>1, <1>d DEF Drop
  <2>4. CASE Skip(n)
    BY <2>1, <2>4, <1>k
  <2> QED
    BY <2>2, <2>3, <2>4, <1>3 DEF Probe
<1>4. CASE Close(n)
  <2> DEFINE T == Target(n)
             w == [night[n] EXCEPT !.pc = "scan", !.todo = night[n].todo \ {T}]
  <2>1. night[n].pc = "close" /\ UNCHANGED master /\ manifest' = [manifest EXCEPT ![T] = "ABORTED"]
    BY <1>4 DEF Close, masterVars
  <2>2. T \in night[n].todo /\ night[n].todo \subseteq Nightlies
    BY <2>1, <1>s, <1>t DEF Target, NightStates
  <2>3. night' = [night EXCEPT ![n] = w]
    BY <1>4 DEF Close, Drop
  <2>4. w \in NightStates
    <3>1. night[n].todo \ {T} \in SUBSET Nightlies
      BY <1>t DEF NightStates
    <3> QED
      BY <3>1, NightMoves DEF NInv
  <2>5. w.pc = "scan" /\ w.todo = night[n].todo \ {T} /\ w.gone = night[n].gone
    BY <1>t DEF NightStates
  <2>6. manifest[T] # "none" /\ T # n /\ T \in Nightlies
    BY <2>1, <2>2, <1>s
  <2> HIDE DEF T, w
  <2>7. Types'
    BY <2>1, <2>3, <2>4 DEF NInv, Types, Verdicts
  <2>8. /\ night'[n] = w /\ \A k \in Nightlies \ {n} : night'[k] = night[k]
        /\ manifest'[T] = "ABORTED" /\ \A k \in Nightlies \ {T} : manifest'[k] = manifest[k]
    BY <2>1, <2>3, <2>6 DEF NInv, Types
  <2>9. VerdictInv'
    BY <2>1, <2>5, <2>6, <2>8, <1>s DEF NInv, VerdictInv
  <2>10. ASSUME NEW k \in Nightlies
         PROVE  /\ \A m \in night'[k].todo : manifest'[m] # "none"
                /\ \A m \in night'[k].gone :
                      night'[m].pc = "dead" /\ (m \in night'[k].todo \/ manifest'[m] # "RUNNING")
    <3>1. night[k].todo \subseteq Nightlies /\ night[k].gone \subseteq Nightlies
      BY DEF NInv, Types, NightStates
    <3>2. /\ \A m \in night[k].todo : manifest[m] # "none"
          /\ \A m \in night[k].gone : night[m].pc = "dead" /\ (m \in night[k].todo \/ manifest[m] # "RUNNING")
      BY DEF NInv, SweepInv
    <3>3. n \notin night[k].gone
      BY <2>1, <3>2
    <3>4. CASE k = n
      BY <2>5, <2>8, <3>1, <3>2, <3>3, <3>4
    <3>5. CASE k # n
      BY <2>8, <3>1, <3>2, <3>3, <3>5
    <3> QED
      BY <3>4, <3>5
  <2>11. SweepInv'
    <3>1. ASSUME NEW k \in Nightlies
          PROVE  /\ night'[k].pc \in {"idle", "scan", "probe", "close"} => manifest'[k] = "none"
                 /\ night'[k].pc \in {"check", "validate", "pass", "master", "done"} => manifest'[k] # "none"
                 /\ night'[k].pc \in {"probe", "close"} => night'[k].todo # {}
                 /\ manifest'[k] # "none" => night'[k].todo = {}
      BY <2>1, <2>5, <2>6, <2>8, <1>s DEF NInv, SweepInv
    <3> QED
      BY <2>10, <3>1 DEF SweepInv
  <2> QED
    BY <2>7, <2>9, <2>11 DEF NInv
<1>5. CASE Open(n)
  <2> DEFINE w == [night[n] EXCEPT !.pc = "check"]
  <2>1. /\ night[n].pc = "scan" /\ night[n].todo = {} /\ UNCHANGED master
        /\ manifest' = [manifest EXCEPT ![n] = "RUNNING"] /\ night' = [night EXCEPT ![n] = w]
    BY <1>5 DEF Open, Goto, masterVars
  <2>2. w \in NightStates /\ w.pc = "check" /\ w.todo = night[n].todo /\ w.gone = night[n].gone
    BY <1>g
  <2> HIDE DEF w
  <2>3. Sound(n, w, "RUNNING", master[n])
    BY <2>1, <2>2, <1>s DEF Sound
  <2>4. manifest'[n] = "RUNNING"
    BY <2>1 DEF NInv, Types
  <2> QED
    BY <2>1, <2>2, <2>3, <2>4, <1>w
<1>l. ASSUME NEW v \in {"DEFERRED", "FAIL_PROVIDER"}, Seal(n, v), UNCHANGED master,
             night[n].pc \in {"check", "validate"}
      PROVE  NInv'
  <2> DEFINE w == [night[n] EXCEPT !.pc = "done"]
  <2>1. manifest' = [manifest EXCEPT ![n] = v] /\ night' = [night EXCEPT ![n] = w]
    BY <1>l DEF Seal, Goto
  <2>2. w \in NightStates /\ w.pc = "done" /\ w.todo = night[n].todo /\ w.gone = night[n].gone
    BY <1>g
  <2> HIDE DEF w
  <2>3. Sound(n, w, v, master[n])
    BY <1>l, <2>2, <1>s DEF Sound
  <2>4. manifest'[n] = v
    BY <2>1 DEF NInv, Types
  <2> QED
    BY <1>l, <2>1, <2>2, <2>3, <2>4, <1>w DEF Verdicts
<1>6. CASE Check(n)
  <2>1. night[n].pc = "check" /\ UNCHANGED master
    BY <1>6 DEF Check, masterVars
  <2>2. CASE Seal(n, "DEFERRED")
    BY <2>1, <2>2, <1>l
  <2>3. CASE night' = [night EXCEPT ![n].pc = "validate", ![n].before = Recorded] /\ UNCHANGED manifest
    <3> DEFINE S == {m \in Masters : record[m] # "none"}
               w == [night[n] EXCEPT !.pc = "validate", !.before = S]
    <3>1. night' = [night EXCEPT ![n] = w] /\ UNCHANGED manifest
      BY <2>3 DEF Recorded
    <3>2. w \in NightStates
      BY NightMoves DEF NInv
    <3>3. w.pc = "validate" /\ w.todo = night[n].todo /\ w.gone = night[n].gone
      BY <1>t DEF NightStates
    <3> HIDE DEF w
    <3>4. Sound(n, w, manifest[n], master[n])
      BY <2>1, <3>3, <1>s, <1>v DEF Sound
    <3> QED
      BY <2>1, <3>1, <3>2, <3>4, <1>t, <1>w
  <2> QED
    BY <2>2, <2>3, <1>6 DEF Check
<1>b. ASSUME NEW ph \in Passes, NEW rc \in {0, 1}, BeginPass(n, ph, rc), UNCHANGED <<manifest, master>>,
             night[n].pc \in {"validate", "master"},
             ph = "post" => master[n] \in Ended /\ (rc = 0 => master[n] = "passed")
      PROVE  NInv'
  <2> DEFINE w == [night[n] EXCEPT !.pc = "pass", !.phase = ph, !.rc = rc]
  <2>1. night' = [night EXCEPT ![n] = w]
    BY <1>b DEF BeginPass
  <2>2. w \in NightStates
    BY NightMoves DEF NInv
  <2>3. w.pc = "pass" /\ w.phase = ph /\ w.rc = rc /\ w.todo = night[n].todo /\ w.gone = night[n].gone
    BY <1>t DEF NightStates
  <2> HIDE DEF w
  <2>4. Sound(n, w, manifest[n], master[n])
    BY <1>b, <2>3, <1>s, <1>v DEF Sound
  <2> QED
    BY <1>b, <2>1, <2>2, <2>4, <1>t, <1>w
<1>7. CASE Validate(n)
  <2>1. /\ night[n].pc = "validate" /\ UNCHANGED master
        /\ \/ BeginPass(n, "pre", 0) /\ UNCHANGED manifest
           \/ Seal(n, "FAIL_PROVIDER")
    BY <1>7 DEF Validate, masterVars
  <2> QED
    BY <2>1, <1>b, <1>l DEF Passes
<1>8. CASE PreEnds(n)
  <2> DEFINE w == [night[n] EXCEPT !.pc = "master", !.accepted = WithVerdict(n)]
  <2>1. /\ night[n].pc = "pass" /\ master' = [master EXCEPT ![n] = "starting"]
        /\ night' = [night EXCEPT ![n] = w] /\ manifest' = [manifest EXCEPT ![n] = manifest[n]]
    BY <1>8, <1>t DEF PreEnds
  <2>2. w \in NightStates
    BY NightMoves DEF NInv
  <2>3. w.pc = "master" /\ w.todo = night[n].todo /\ w.gone = night[n].gone
    BY <1>t DEF NightStates
  <2> HIDE DEF w
  <2>4. Sound(n, w, manifest[n], "starting")
    BY <2>1, <2>3, <1>s, <1>v DEF Sound
  <2> QED
    BY <2>1, <2>2, <2>4, <1>t, OwnStep DEF MasterStates
<1>9. CASE MasterEnds(n)
  <2>1. /\ night[n].pc = "master" /\ ~MasterAlive(n) /\ UNCHANGED <<manifest, master>>
        /\ BeginPass(n, "post", IF master[n] = "passed" THEN 0 ELSE 1)
    BY <1>9 DEF MasterEnds, masterVars
  <2>2. master[n] \in Ended
    BY <2>1, <1>t, <1>v DEF MasterAlive, MasterStates, Ended
  <2>3. CASE master[n] = "passed"
    BY <2>1, <2>2, <2>3, <1>b DEF Passes
  <2>4. CASE master[n] # "passed"
    BY <2>1, <2>2, <2>4, <1>b DEF Passes
  <2> QED
    BY <2>3, <2>4
<1>10. CASE Verdict(n)
  <2> DEFINE w == [night[n] EXCEPT !.pc = "done", !.accepted = WithVerdict(n)]
             v == IF WithVerdict(n) # Passes THEN "FAIL_LATE"
                  ELSE IF Passed(n) THEN "PASS" ELSE "FAIL_MASTER"
  <2>1. /\ night[n].pc = "pass" /\ night[n].phase = "post" /\ UNCHANGED master
        /\ night' = [night EXCEPT ![n] = w] /\ manifest' = [manifest EXCEPT ![n] = v]
    BY <1>10 DEF Verdict, masterVars
  <2>2. w \in NightStates
    BY NightMoves DEF NInv
  <2>3. w.pc = "done" /\ w.todo = night[n].todo /\ w.gone = night[n].gone /\ w.accepted = WithVerdict(n)
    BY <1>t DEF NightStates
  <2>4. v \in Verdicts /\ v # "none" /\ (v = "PASS" => WithVerdict(n) = Passes /\ night[n].rc = 0)
    BY DEF Verdicts, Passed
  <2> HIDE DEF w, v
  <2>5. Sound(n, w, v, master[n])
    BY <2>1, <2>3, <2>4, <1>s, <1>v DEF Sound
  <2>6. manifest'[n] = v
    BY <2>1 DEF NInv, Types
  <2> QED
    BY <2>1, <2>2, <2>4, <2>5, <2>6, <1>w
<1>11. CASE KillNightly(n)
  <2> DEFINE w == [night[n] EXCEPT !.pc = "dead"]
  <2>1. /\ night[n].pc \notin {"idle", "done", "dead"} /\ UNCHANGED <<manifest, master>>
        /\ night' = [night EXCEPT ![n] = w]
    BY <1>11 DEF KillNightly, Running, Goto, masterVars
  <2>2. w \in NightStates /\ w.pc = "dead" /\ w.todo = night[n].todo /\ w.gone = night[n].gone
    BY <1>g
  <2> HIDE DEF w
  <2>3. Sound(n, w, manifest[n], master[n])
    BY <2>1, <2>2, <1>s, <1>v DEF Sound
  <2> QED
    BY <2>1, <2>2, <2>3, <1>t, <1>w
<1> QED
  BY <1>1, <1>2, <1>3, <1>4, <1>5, <1>6, <1>7, <1>8, <1>9, <1>10, <1>11 DEF NightStep

(* Every action keeps the invariant. *)
LEMMA StepInv == NInv /\ [Next]_vars => NInv'
<1> SUFFICES ASSUME NInv, [Next]_vars PROVE NInv'
  OBVIOUS
<1>t. /\ night \in [Nightlies -> NightStates] /\ master \in [Masters -> MasterStates]
      /\ Nightlies \subseteq Masters
  BY DEF NInv, Types, Masters
<1>m. ASSUME NEW k \in Masters, NEW st \in MasterStates, master' = [master EXCEPT ![k] = st],
             UNCHANGED nightVars, master[k] \notin Ended \cup {"idle"}, st # "idle"
      PROVE  NInv'
  <2>1. master' \in [Masters -> MasterStates]
    BY <1>m, <1>t
  <2>2. \A m \in Nightlies : /\ master[m] \in Ended => master'[m] = master[m]
                             /\ master[m] # "idle" => master'[m] # "idle"
    BY <1>m, <1>t
  <2> QED
    BY <1>m, <2>1, <2>2, MastersMove
<1>u. ASSUME UNCHANGED <<nightVars, master>> PROVE NInv'
  BY <1>u, <1>t, MastersMove
<1>1. ASSUME NEW n \in Nightlies, Start(n) \/ NightStep(n) \/ KillNightly(n) PROVE NInv'
  BY <1>1, NightStepInv
<1>2. ASSUME NEW n \in Nightlies, Plan(n) PROVE NInv'
  <2>1. \E b \in BOOLEAN : night' = [night EXCEPT ![n] = [night[n] EXCEPT !.due = b]]
    BY <1>2 DEF Plan
  <2>2. PICK b \in BOOLEAN : night' = [night EXCEPT ![n] = [night[n] EXCEPT !.due = b]]
    BY <2>1
  <2>3. [night[n] EXCEPT !.due = b] \in NightStates
    BY NightMoves DEF NInv
  <2>4. night' \in [Nightlies -> NightStates]
    BY <2>2, <2>3, <1>t
  <2>5. ASSUME NEW k \in Nightlies
        PROVE  /\ night'[k].pc = night[k].pc /\ night'[k].phase = night[k].phase
               /\ night'[k].rc = night[k].rc /\ night'[k].accepted = night[k].accepted
               /\ night'[k].todo = night[k].todo /\ night'[k].gone = night[k].gone
    <3>1. night[k] \in NightStates
      BY <1>t
    <3>2. CASE k = n
      <4>1. night'[k] = [night[k] EXCEPT !.due = b]
        BY <2>2, <3>2, <1>t
      <4> QED
        BY <3>1, <4>1 DEF NightStates
    <3>3. CASE k # n
      BY <2>2, <3>3, <1>t
    <3> QED
      BY <3>2, <3>3
  <2>6. UNCHANGED <<manifest, master>>
    BY <1>2 DEF Plan, masterVars
  <2>7. Types' /\ VerdictInv'
    BY <2>4, <2>5, <2>6 DEF NInv, Types, VerdictInv
  <2>8. ASSUME NEW k \in Nightlies
        PROVE  \A m \in night[k].gone : night'[m].pc = night[m].pc
    <3>1. night[k].gone \subseteq Nightlies
      BY <1>t DEF NightStates
    <3> QED
      BY <2>5, <3>1
  <2>9. SweepInv'
    BY <2>5, <2>6, <2>8 DEF NInv, SweepInv
  <2> QED
    BY <2>7, <2>9 DEF NInv
<1>3. ASSUME NEW n \in Nightlies,
             \/ Refused(n) \/ LedgerRun(n) \/ LedgerEnds(n) \/ Audit(n) \/ PostRun(n) \/ PostEnds(n)
             \/ KillReconciler(n)
      PROVE  UNCHANGED <<nightVars, master>>
  BY <1>3 DEF Refused, LedgerRun, LedgerEnds, Audit, PostRun, PostEnds, KillReconciler, masterVars
<1>4. ASSUME NEW m \in Masters, OperatorStarts(m) PROVE NInv'
  <2>1. /\ m \in Operators /\ master' = [master EXCEPT ![m] = "starting"] /\ UNCHANGED nightVars
    BY <1>4 DEF OperatorStarts
  <2>2. m \notin Nightlies
    BY <2>1, ConstantsAssumption
  <2>3. master' \in [Masters -> MasterStates] /\ \A n \in Nightlies : master'[n] = master[n]
    BY <2>1, <2>2, <1>t DEF MasterStates
  <2> QED
    BY <2>1, <2>3, MastersMove
<1>5. ASSUME NEW m \in Masters, MasterStep(m) PROVE NInv'
  <2>1. CASE Acquire(m)
    <3>1. UNCHANGED nightVars /\ master[m] = "starting" /\ \E st \in {"failed", "locked"} : master' = [master EXCEPT ![m] = st]
      BY <2>1 DEF Acquire
    <3> QED
      BY <3>1, <1>m DEF MasterStates, Ended
  <2>4. ASSUME NEW k \in Masters, Reconcile(m, k) PROVE NInv'
    BY <2>4, <1>u DEF Reconcile
  <2>5. CASE OpenManifest(m)
    <3>1. UNCHANGED nightVars /\ master[m] = "locked" /\ master' = [master EXCEPT ![m] = "building"]
      BY <2>5 DEF OpenManifest
    <3> QED
      BY <3>1, <1>m DEF MasterStates, Ended
  <2>2. CASE Build(m)
    <3>1. UNCHANGED nightVars /\ master[m] = "building" /\ master' = [master EXCEPT ![m] = "sealing"]
      BY <2>2 DEF Build
    <3> QED
      BY <3>1, <1>m DEF MasterStates, Ended
  <2>3. CASE SealMaster(m)
    <3>1. UNCHANGED nightVars /\ master[m] = "sealing" /\ \E st \in {"failed", "passed"} : master' = [master EXCEPT ![m] = st]
      BY <2>3 DEF SealMaster
    <3> QED
      BY <3>1, <1>m DEF MasterStates, Ended
  <2> QED
    BY <1>5, <2>1, <2>2, <2>3, <2>4, <2>5 DEF MasterStep
<1>6. ASSUME NEW m \in Masters, KillMaster(m) PROVE NInv'
  <2>1. UNCHANGED nightVars /\ master[m] \in {"starting", "locked", "building", "sealing"} /\ master' = [master EXCEPT ![m] = "dead"]
    BY <1>6 DEF KillMaster, MasterAlive
  <2> QED
    BY <2>1, <1>m DEF MasterStates, Ended
<1>7. CASE Shutdown
  <2>1. /\ manifest' = manifest
        /\ master' = [m \in Masters |-> IF MasterAlive(m) THEN "dead" ELSE master[m]]
        /\ night' = [n \in Nightlies |-> IF Running(n) THEN [night[n] EXCEPT !.pc = "dead"] ELSE night[n]]
    BY <1>7 DEF Shutdown
  <2>2. \A n \in Nightlies : [night[n] EXCEPT !.pc = "dead"] \in NightStates
    BY NightMoves DEF NInv
  <2>3. night' \in [Nightlies -> NightStates]
    BY <2>1, <2>2, <1>t
  <2>4. ASSUME NEW k \in Nightlies
        PROVE  /\ night'[k].pc = night[k].pc \/ (night'[k].pc = "dead" /\ night[k].pc \notin {"idle", "done"})
               /\ night'[k].phase = night[k].phase
               /\ night'[k].rc = night[k].rc /\ night'[k].accepted = night[k].accepted
               /\ night'[k].todo = night[k].todo /\ night'[k].gone = night[k].gone
    <3>1. night[k] \in NightStates
      BY <1>t
    <3>2. night'[k] = night[k] \/ (Running(k) /\ night'[k] = [night[k] EXCEPT !.pc = "dead"])
      BY <2>1
    <3> QED
      BY <3>1, <3>2 DEF NightStates, Running
  <2>5. ASSUME NEW k \in Nightlies
        PROVE  /\ master[k] \in Ended => master'[k] = master[k]
               /\ master[k] # "idle" => master'[k] # "idle"
    BY <2>1, <1>t DEF MasterAlive, Ended
  <2>6. Types'
    BY <2>1, <2>3, <1>t DEF NInv, Types, MasterStates
  <2>7. VerdictInv'
    BY <2>1, <2>4, <2>5 DEF NInv, VerdictInv
  <2>8. ASSUME NEW k \in Nightlies
        PROVE  \A m \in night[k].gone : night[m].pc = "dead" => night'[m].pc = "dead"
    <3>1. night[k].gone \subseteq Nightlies
      BY <1>t DEF NightStates
    <3> QED
      BY <2>4, <3>1
  <2>9. SweepInv'
    BY <2>1, <2>4, <2>8 DEF NInv, SweepInv
  <2> QED
    BY <2>6, <2>7, <2>9 DEF NInv
<1>8. StatementArrives \/ UNCHANGED vars => UNCHANGED <<nightVars, master>>
  BY DEF StatementArrives, vars, masterVars
<1> QED
  BY <1>u, <1>1, <1>2, <1>3, <1>4, <1>5, <1>6, <1>7, <1>8 DEF Next, ReconStep

(* What a verdict and a sweep rest on is kept by every step. *)
THEOREM NightlyInvariance == Spec => []NInv
<1> QED
  BY InitInv, StepInv, PTL DEF Spec

(* A nightly that says PASS has run its own master to success and had both *)
(* reconciliation passes accepted, although _new_master_manifest may have  *)
(* picked the manifest of an operator's master.                            *)
THEOREM PassesAreOwn == Spec => []PassIsOwn
<1>1. NInv => PassIsOwn
  BY DEF NInv, VerdictInv, PassIsOwn
<1> QED
  BY <1>1, NightlyInvariance, PTL

(* A refused or failed reconciliation does not keep the master from        *)
(* running, and the verdict is given after it.                             *)
THEOREM MastersRunAnyway == Spec => []MasterRanAnyway
<1>1. NInv => MasterRanAnyway
  BY DEF NInv, VerdictInv, MasterRanAnyway, Ended
<1> QED
  BY <1>1, NightlyInvariance, PTL

-----------------------------------------------------------------------------
(* Types of the variables the verdict does not rest on. *)

Rest ==
    /\ record \in [Masters -> {"none", "RUNNING", "PASS", "FAIL", "ABORTED"}]
    /\ recon \in [Nightlies ->
         {"idle", "plan", "ledger", "in_ledger", "audit", "post", "in_post", "ok", "failed"}]
    /\ lock \in Pids \cup {NoLock}
    /\ arrived \in BOOLEAN /\ book \in BOOLEAN /\ ledger \in BOOLEAN /\ rebuilt \in BOOLEAN
    /\ recovery \in {"none", "RUNNING", "PASS", "FAIL"}
    /\ faults \in 0..MaxFaults

(* The manifests on disk are in the order of their writing.                *)
OrderInv ==
    /\ newer \subseteq Recorded \X Recorded
    /\ \A a, b \in Recorded : a # b => (<<a, b>> \in newer <=> <<b, a>> \notin newer)

RecordInv == \A m \in Masters : master[m] \in {"building", "sealing"} => record[m] # "none"

LEMMA RestStep == Rest /\ [Next]_vars => Rest'
<1> SUFFICES ASSUME Rest, [Next]_vars PROVE Rest'
  OBVIOUS
<1>f. Fault => faults' \in 0..MaxFaults
  BY ConstantsAssumption DEF Fault, Rest
<1>p. /\ \A m \in Masters : MasterPid(m) \in Pids
      /\ \A n \in Nightlies : PortfolioPid(n) \in Pids
  BY DEF Pids
<1>1. ASSUME NEW n \in Nightlies, Start(n) \/ NightStep(n) \/ KillNightly(n) PROVE Rest'
  <2>1. CASE Start(n) \/ Load(n) \/ Probe(n) \/ Close(n) \/ Open(n) \/ Check(n) \/ PreEnds(n) \/ Verdict(n)
    BY <2>1 DEF Start, Load, Probe, Close, Open, Check, PreEnds, Verdict, Rest, masterVars, bookVars
  <2>2. CASE Validate(n)
    BY <2>2, <1>f DEF Validate, BeginPass, Rest, masterVars, bookVars
  <2>3. CASE MasterEnds(n)
    BY <2>3 DEF MasterEnds, BeginPass, Rest, masterVars, bookVars
  <2>4. CASE KillNightly(n)
    BY <2>4, <1>f DEF KillNightly, Rest, masterVars, bookVars
  <2> QED
    BY <1>1, <2>1, <2>2, <2>3, <2>4 DEF NightStep
<1>2. ASSUME NEW n \in Nightlies, ReconStep(n) \/ KillReconciler(n) PROVE Rest'
  <2>1. CASE Plan(n) \/ Refused(n)
    BY <2>1 DEF Plan, Refused, ReconTo, Rest, nightVars, masterVars, bookVars
  <2>2. CASE LedgerRun(n) \/ PostRun(n)
    <3>1. lock' \in Pids \cup {NoLock}
      <4>1. lock' = PortfolioPid(n)
        BY <2>2 DEF LedgerRun, PostRun
      <4> QED
        BY <4>1, <1>p, Zenon DEF Masters
    <3> QED
      BY <2>2, <3>1 DEF LedgerRun, PostRun, ReconTo, Rest, nightVars, masterVars
  <2>3. CASE LedgerEnds(n)
    BY <2>3, <1>f DEF LedgerEnds, ReconTo, Rest, nightVars, masterVars
  <2>4. CASE PostEnds(n)
    BY <2>4, <1>f DEF PostEnds, ReconTo, Rest, nightVars, masterVars
  <2>5. CASE Audit(n) \/ KillReconciler(n)
    BY <2>5, <1>f DEF Audit, KillReconciler, ReconTo, Rest, nightVars, masterVars, bookVars
  <2> QED
    BY <1>2, <2>1, <2>2, <2>3, <2>4, <2>5 DEF ReconStep
<1>3. ASSUME NEW m \in Masters, OperatorStarts(m) \/ MasterStep(m) \/ KillMaster(m) PROVE Rest'
  <2>1. CASE OperatorStarts(m)
    BY <2>1 DEF OperatorStarts, Rest, bookVars
  <2>2. CASE Acquire(m)
    <3>1. lock' \in Pids \cup {NoLock}
      <4>1. lock' = MasterPid(m) \/ lock' = lock
        BY <2>2 DEF Acquire
      <4> QED
        BY <4>1, <1>p, Zenon DEF Rest
    <3> QED
      BY <2>2, <3>1 DEF Acquire, Rest, bookVars
  <2>3. CASE Build(m)
    BY <2>3 DEF Build, Rest
  <2>6. ASSUME NEW k \in Masters, Reconcile(m, k) PROVE Rest'
    BY <2>6 DEF Reconcile, Rest, bookVars
  <2>7. CASE OpenManifest(m)
    BY <2>7 DEF OpenManifest, Rest, bookVars
  <2>4. CASE SealMaster(m)
    BY <2>4, <1>f DEF SealMaster, Rest, bookVars
  <2>5. CASE KillMaster(m)
    BY <2>5, <1>f DEF KillMaster, Rest, bookVars
  <2> QED
    BY <1>3, <2>1, <2>2, <2>3, <2>4, <2>5, <2>6, <2>7 DEF MasterStep
<1>4. CASE StatementArrives
  BY <1>4 DEF StatementArrives, Rest, masterVars, bookVars
<1>5. CASE Shutdown
  BY <1>5, <1>f DEF Shutdown, Rest, bookVars
<1>6. CASE UNCHANGED vars
  BY <1>6 DEF vars, Rest, masterVars, bookVars
<1> QED
  BY <1>1, <1>2, <1>3, <1>4, <1>5, <1>6 DEF Next

(* Writing the manifests of S puts them after the others. *)
LEMMA WroteOrder ==
  ASSUME NEW S \in SUBSET Recorded, NEW pairs \in SUBSET (Recorded \X Recorded)
  PROVE  /\ Wrote(pairs, S) \subseteq Recorded \X Recorded
         /\ \A a, b \in Recorded \ S : <<a, b>> \in Wrote(pairs, S) <=> <<a, b>> \in pairs
         /\ \A a \in S, b \in Recorded \ S : <<a, b>> \in Wrote(pairs, S) /\ <<b, a>> \notin Wrote(pairs, S)
BY DEF Wrote

LEMMA OrderStep == Rest /\ RecordInv /\ OrderInv /\ [Next]_vars => OrderInv'
<1> SUFFICES ASSUME Rest, RecordInv, OrderInv, [Next]_vars PROVE OrderInv'
  OBVIOUS
<1>u. UNCHANGED <<record, newer>> => OrderInv'
  BY DEF OrderInv, Recorded
<1>1. ASSUME NEW m \in Recorded, newer' = Wrote(newer, {m}),
             NEW r \in {"RUNNING", "PASS", "FAIL", "ABORTED"}, record' = [record EXCEPT ![m] = r]
      PROVE  OrderInv'
  <2>1. Recorded' = Recorded
    BY <1>1 DEF Recorded, Rest
  <2>2. newer \in SUBSET (Recorded \X Recorded)
    BY DEF OrderInv
  <2>3. /\ newer' \subseteq Recorded \X Recorded
        /\ \A a, b \in Recorded \ {m} : <<a, b>> \in newer' <=> <<a, b>> \in newer
        /\ \A b \in Recorded \ {m} : <<m, b>> \in newer' /\ <<b, m>> \notin newer'
    <3>1. {m} \in SUBSET Recorded
      BY <1>1
    <3> QED
      BY <1>1, <2>2, <3>1, WroteOrder
  <2> QED
    BY <2>1, <2>3 DEF OrderInv
<1>2. ASSUME NEW m \in Masters, OpenManifest(m) PROVE OrderInv'
  <2>1. newer' = {p \in newer : p[1] # m /\ p[2] # m} \cup ({m} \X (Recorded \ {m}))
    BY <1>2 DEF OpenManifest, Wrote
  <2>2. Recorded' = Recorded \cup {m}
    BY <1>2 DEF OpenManifest, Recorded, Rest
  <2>3. newer \subseteq Recorded \X Recorded
    BY DEF OrderInv
  <2>4. newer' \subseteq Recorded' \X Recorded'
    BY <2>1, <2>2, <2>3
  <2>5. ASSUME NEW a \in Recorded', NEW b \in Recorded', a # b
        PROVE  <<a, b>> \in newer' <=> <<b, a>> \notin newer'
    <3>1. CASE a = m \/ b = m
      BY <2>1, <2>2, <2>5, <3>1
    <3>2. CASE a # m /\ b # m
      <4>1. a \in Recorded /\ b \in Recorded
        BY <2>2, <3>2
      <4>2. (<<a, b>> \in newer' <=> <<a, b>> \in newer) /\ (<<b, a>> \in newer' <=> <<b, a>> \in newer)
        BY <2>1, <3>2
      <4> QED
        BY <4>1, <4>2, <2>5 DEF OrderInv
    <3> QED
      BY <3>1, <3>2
  <2> QED
    BY <2>4, <2>5 DEF OrderInv
<1>3. ASSUME NEW m \in Masters, MasterStep(m) PROVE OrderInv'
  <2>1. CASE Acquire(m)
    BY <2>1, <1>u DEF Acquire
  <2>2. CASE Build(m)
    BY <2>2, <1>u DEF Build
  <2>3. CASE SealMaster(m)
    <3>1. m \in Recorded
      BY <2>3 DEF SealMaster, RecordInv, Recorded
    <3>2. newer' = Wrote(newer, {m}) /\ \E r \in {"PASS", "FAIL"} : record' = [record EXCEPT ![m] = r]
      BY <2>3 DEF SealMaster
    <3> QED
      BY <3>1, <3>2, <1>1
  <2>4. ASSUME NEW k \in Masters, Reconcile(m, k) PROVE OrderInv'
    <3>1. k \in Recorded /\ newer' = Wrote(newer, {k}) /\ record' = [record EXCEPT ![k] = "ABORTED"]
      BY <2>4 DEF Reconcile, Recorded
    <3> QED
      BY <3>1, <1>1
  <2>5. CASE OpenManifest(m)
    BY <2>5, <1>2
  <2> QED
    BY <1>3, <2>1, <2>2, <2>3, <2>4, <2>5 DEF MasterStep
<1>4. ASSUME NEW m \in Masters, OperatorStarts(m) \/ KillMaster(m) PROVE OrderInv'
  BY <1>4, <1>u DEF OperatorStarts, KillMaster
<1>5. ASSUME NEW n \in Nightlies, Start(n) \/ NightStep(n) \/ KillNightly(n) PROVE OrderInv'
  BY <1>5, <1>u DEF NightStep, Start, Load, Probe, Close, Open, Check, Validate, PreEnds, MasterEnds,
                    Verdict, KillNightly, masterVars
<1>6. ASSUME NEW n \in Nightlies, ReconStep(n) \/ KillReconciler(n) PROVE OrderInv'
  BY <1>6, <1>u DEF ReconStep, Plan, Refused, LedgerRun, LedgerEnds, Audit, PostRun, PostEnds,
                    KillReconciler, masterVars
<1>7. StatementArrives \/ Shutdown \/ UNCHANGED vars => UNCHANGED <<record, newer>>
  BY DEF StatementArrives, Shutdown, vars, masterVars
<1> QED
  BY <1>u, <1>3, <1>4, <1>5, <1>6, <1>7 DEF Next

(* A master that builds or seals has opened its manifest. *)
LEMMA RecordStep == Types /\ Rest /\ RecordInv /\ [Next]_vars => RecordInv'
<1> SUFFICES ASSUME Types, Rest, RecordInv, [Next]_vars PROVE RecordInv'
  OBVIOUS
<1>u. ASSUME UNCHANGED record,
             \A m \in Masters : master'[m] = master[m] \/ master'[m] \notin {"building", "sealing"}
                                \/ master[m] = "building"
      PROVE  RecordInv'
  BY <1>u DEF RecordInv
<1>t. master \in [Masters -> MasterStates] /\ Nightlies \subseteq Masters
  BY DEF Types, Masters
<1>1. ASSUME NEW n \in Nightlies, Start(n) \/ NightStep(n) \/ KillNightly(n) PROVE RecordInv'
  <2>1. UNCHANGED record /\ (UNCHANGED master \/ master' = [master EXCEPT ![n] = "starting"])
    BY <1>1 DEF NightStep, Start, Load, Probe, Close, Open, Check, Validate, PreEnds, MasterEnds,
                Verdict, KillNightly, masterVars
  <2> QED
    BY <2>1, <1>t, <1>u
<1>2. ASSUME NEW n \in Nightlies, ReconStep(n) \/ KillReconciler(n) PROVE RecordInv'
  <2>1. UNCHANGED <<record, master>>
    BY <1>2 DEF ReconStep, Plan, Refused, LedgerRun, LedgerEnds, Audit, PostRun, PostEnds,
                KillReconciler, masterVars
  <2> QED
    BY <2>1, <1>u
<1>3. ASSUME NEW m \in Masters, OperatorStarts(m) \/ MasterStep(m) \/ KillMaster(m) PROVE RecordInv'
  <2>1. CASE OperatorStarts(m) \/ KillMaster(m)
    BY <2>1, <1>t, <1>u DEF OperatorStarts, KillMaster
  <2>2. CASE Acquire(m)
    BY <2>2, <1>t, <1>u DEF Acquire
  <2>5. ASSUME NEW k \in Masters, Reconcile(m, k) PROVE RecordInv'
    BY <2>5 DEF Reconcile, RecordInv, Rest
  <2>6. CASE OpenManifest(m)
    BY <2>6, <1>t DEF OpenManifest, RecordInv, Rest
  <2>3. CASE Build(m)
    BY <2>3, <1>t, <1>u DEF Build
  <2>4. CASE SealMaster(m)
    BY <2>4, <1>t DEF SealMaster, RecordInv, Rest
  <2> QED
    BY <1>3, <2>1, <2>2, <2>3, <2>4, <2>5, <2>6 DEF MasterStep
<1>4. CASE Shutdown
  BY <1>4, <1>t, <1>u DEF Shutdown
<1>5. CASE StatementArrives \/ UNCHANGED vars
  BY <1>5, <1>u DEF StatementArrives, vars, masterVars
<1> QED
  BY <1>1, <1>2, <1>3, <1>4, <1>5 DEF Next

-----------------------------------------------------------------------------
(* The ledger *)

NightPcs ==
    {"idle", "scan", "probe", "close", "check", "validate", "pass", "master", "done", "dead"}
Before == {"scan", "probe", "close", "check", "validate"}
Earlier(w) == w.pc \in Before \/ (w.pc = "pass" /\ w.phase = "pre")
Later(w) == w.pc = "master" \/ (w.pc = "pass" /\ w.phase = "post")

(* A reconciler belongs to a nightly that waits for it or has died, and is *)
(* accepted only where it counts.                                          *)
PassInv(n) ==
    LET w == night[n] IN
    /\ w.pc \in {"check", "validate", "pass", "master"} => manifest[n] = "RUNNING"
    /\ w.pc = "dead" => manifest[n] \in {"none", "RUNNING", "ABORTED"}
    /\ ReconAlive(n) => w.pc \in {"pass", "dead"} /\ manifest[n] # "none"
    /\ w.pc = "idle" \/ w.pc \in Before => recon[n] = "idle"
    /\ w.pc = "pass" => recon[n] # "idle"
    /\ Earlier(w) => w.accepted = {}
    /\ Later(w) => "post" \notin w.accepted
    /\ manifest[n] = "PASS" => recon[n] = "ok"
    /\ w.due => book
    /\ w.pc = "close" => Gone(Target(n))

(* A nightly that will not say PASS, nor pass over its reconciliation.     *)
Spoiled(n) ==
    LET w == night[n] IN
    \/ manifest[n] \in {"FAIL_LATE", "ABORTED"}
    \/ /\ manifest[n] = "RUNNING"
       /\ \/ w.pc = "dead"
          \/ w.pc = "pass" /\ recon[n] = "failed"
          \/ Later(w) /\ "pre" \notin w.accepted

Claims(n) == night[n].due /\ recon[n] = "ok"

(* Who took the ledger away is known by its own manifest. *)
LedgerInv == (\E n \in Nightlies : Claims(n)) /\ ~ledger => \E n \in Nightlies : Spoiled(n)

IInv ==
    /\ NInv /\ Rest /\ RecordInv /\ OrderInv
    /\ \A n \in Nightlies : PassInv(n)
    /\ LedgerInv

(* A step of one nightly and its reconciler. *)
LEMMA LedgerFrame ==
  ASSUME NEW n \in Nightlies, IInv, Rest',
         \A k \in Nightlies \ {n} : night'[k] = night[k] /\ manifest'[k] = manifest[k] /\ recon'[k] = recon[k],
         UNCHANGED book, Gone(n) => Gone(n)', PassInv(n)', Spoiled(n) => Spoiled(n)',
         Claims(n)' => Claims(n) \/ ledger', ledger => ledger' \/ Spoiled(n)'
  PROVE  (\A k \in Nightlies : PassInv(k)') /\ LedgerInv'
<1>1. ASSUME NEW k \in Nightlies, k # n PROVE PassInv(k)'
  <2>1. PassInv(k)
    BY DEF IInv
  <2>2. night[k].pc = "close" => Target(k) \in Nightlies
    <3>1. night[k].pc = "close" => night[k].todo # {}
      BY DEF IInv, NInv, SweepInv
    <3>2. night[k].todo \subseteq Nightlies
      BY DEF IInv, NInv, Types, NightStates
    <3> QED
      BY <3>1, <3>2 DEF Target
  <2>3. Target(k)' = Target(k)
    BY <1>1 DEF Target
  <2>4. night[k].pc = "close" => Gone(Target(k))'
    <3> SUFFICES ASSUME night[k].pc = "close" PROVE Gone(Target(k))'
      OBVIOUS
    <3>1. night[Target(k)].pc \in {"done", "dead"}
      BY <2>1 DEF PassInv, Gone
    <3>2. night'[Target(k)].pc \in {"done", "dead"}
      <4>1. CASE Target(k) = n
        BY <3>1, <4>1 DEF Gone
      <4>2. CASE Target(k) # n
        BY <2>2, <3>1, <4>2
      <4> QED
        BY <4>1, <4>2
    <3> QED
      BY <2>3, <3>2 DEF Gone
  <2> QED
    BY <1>1, <2>1, <2>3, <2>4 DEF PassInv, ReconAlive
<1>2. ASSUME NEW k \in Nightlies, Spoiled(k) PROVE Spoiled(k)'
  BY <1>2 DEF Spoiled
<1>3. ASSUME NEW k \in Nightlies, Claims(k)' PROVE Claims(k) \/ ledger'
  BY <1>3 DEF Claims
<1>4. LedgerInv'
  <2> SUFFICES ASSUME NEW k \in Nightlies, Claims(k)', ~ledger' PROVE \E j \in Nightlies : Spoiled(j)'
    BY DEF LedgerInv
  <2>1. Claims(k)
    BY <1>3
  <2>2. CASE ledger
    BY <2>2
  <2>3. CASE ~ledger
    <3>1. PICK j \in Nightlies : Spoiled(j)
      BY <2>1, <2>3 DEF IInv, LedgerInv
    <3> QED
      BY <3>1, <1>2
  <2> QED
    BY <2>2, <2>3
<1> QED
  BY <1>1, <1>4

LEMMA PassNight ==
  ASSUME NEW n \in Nightlies, IInv, Rest', Start(n) \/ NightStep(n) \/ KillNightly(n)
  PROVE  (\A k \in Nightlies : PassInv(k)') /\ LedgerInv'
<1>t. /\ night \in [Nightlies -> NightStates] /\ night[n] \in NightStates
      /\ manifest \in [Nightlies -> {"none", "RUNNING"} \cup Verdicts]
      /\ recon \in [Nightlies ->
           {"idle", "plan", "ledger", "in_ledger", "audit", "post", "in_post", "ok", "failed"}]
      /\ book \in BOOLEAN /\ ledger \in BOOLEAN
  BY DEF IInv, NInv, Types, Rest
<1>p. PassInv(n)
  BY DEF IInv
<1>w. ASSUME NEW w \in NightStates, night' = [night EXCEPT ![n] = w], UNCHANGED <<ledger, book>>,
             NEW v \in {"none", "RUNNING"} \cup Verdicts, manifest' = [manifest EXCEPT ![n] = v],
             NEW r, recon' = [recon EXCEPT ![n] = r],
             Gone(n) => w.pc \in {"done", "dead"}, PassInv(n)', Spoiled(n) => Spoiled(n)',
             Claims(n)' => Claims(n) \/ ledger
      PROVE  (\A k \in Nightlies : PassInv(k)') /\ LedgerInv'
  <2>1. Gone(n) => Gone(n)'
    BY <1>w, <1>t DEF Gone
  <2>2. \A k \in Nightlies \ {n} : night'[k] = night[k] /\ manifest'[k] = manifest[k] /\ recon'[k] = recon[k]
    BY <1>w, <1>t
  <2>3. (Claims(n)' => Claims(n) \/ ledger') /\ (ledger => ledger' \/ Spoiled(n)')
    BY <1>w
  <2> QED
    BY <1>w, <2>1, <2>2, <2>3, LedgerFrame
<1>s. manifest = [manifest EXCEPT ![n] = manifest[n]] /\ recon = [recon EXCEPT ![n] = recon[n]]
  BY <1>t
<1>q. ASSUME NEW w \in NightStates, night' = [night EXCEPT ![n] = w], UNCHANGED <<ledger, book, manifest, recon>>,
             Gone(n) => w.pc \in {"done", "dead"}, PassInv(n)', Spoiled(n) => Spoiled(n)',
             w.due => night[n].due
      PROVE  (\A k \in Nightlies : PassInv(k)') /\ LedgerInv'
  <2>1. Claims(n)' => Claims(n)
    BY <1>q, <1>t DEF Claims
  <2>2. manifest' = [manifest EXCEPT ![n] = manifest[n]] /\ recon' = [recon EXCEPT ![n] = recon[n]]
    BY <1>s, <1>q
  <2>3. manifest[n] \in {"none", "RUNNING"} \cup Verdicts
    BY <1>t
  <2> QED
    BY <1>q, <1>w, <2>1, <2>2, <2>3
<1>1. CASE Start(n)
  <2> DEFINE S == {m \in Nightlies : manifest[m] # "none"}
             T == {m \in Nightlies : night[m].pc = "dead"}
             w == [NewNight EXCEPT !.pc = "scan", !.todo = S, !.gone = T]
  <2>1. night' = [night EXCEPT ![n] = w] /\ night[n].pc = "idle" /\ UNCHANGED <<manifest, recon, ledger, book>>
    BY <1>1 DEF Start, bookVars
  <2>2. w \in NightStates /\ w.pc = "scan" /\ w.accepted = {} /\ w.due = FALSE
    <3>1. w \in NightStates
      BY NightMoves DEF IInv, NInv
    <3>2. w.pc = "scan" /\ w.accepted = {} /\ w.due = FALSE
      BY DEF NewNight
    <3> QED
      BY <3>1, <3>2
  <2> HIDE DEF w
  <2>3. night'[n] = w /\ manifest[n] = "none" /\ recon[n] = "idle"
    BY <2>1, <1>t, <1>p DEF PassInv, IInv, NInv, SweepInv
  <2>4. PassInv(n)'
    BY <2>1, <2>2, <2>3 DEF PassInv, Before, Earlier, Later, ReconAlive
  <2>5. ~Spoiled(n)
    BY <2>3 DEF Spoiled
  <2> QED
    BY <2>1, <2>2, <2>4, <2>5, <1>q DEF Gone
<1>g. ASSUME NEW pc \in {"scan", "probe", "close", "check", "done", "dead"}
      PROVE  LET w == [night[n] EXCEPT !.pc = pc] IN
             /\ w \in NightStates /\ w.pc = pc /\ w.todo = night[n].todo /\ w.phase = night[n].phase
             /\ w.accepted = night[n].accepted /\ w.due = night[n].due
  <2>1. [night[n] EXCEPT !.pc = pc] \in NightStates
    BY NightMoves DEF IInv, NInv
  <2> QED
    BY <2>1, <1>t DEF NightStates
(* The sweep, up to the step that closes. *)
<1>d. ASSUME night' = [night EXCEPT ![n].pc = "scan", ![n].todo = night[n].todo \ {Target(n)}],
             night[n].pc \in Before, UNCHANGED <<recon, ledger, book, manifest>>
      PROVE  (\A k \in Nightlies : PassInv(k)') /\ LedgerInv'
  <2> DEFINE w == [night[n] EXCEPT !.pc = "scan", !.todo = night[n].todo \ {Target(n)}]
  <2>1. night[n].todo \ {Target(n)} \in SUBSET Nightlies
    BY <1>t DEF NightStates
  <2>2. w \in NightStates
    BY <2>1, NightMoves DEF IInv, NInv
  <2>3. w.pc = "scan" /\ w.accepted = night[n].accepted /\ w.due = night[n].due
    BY <1>t DEF NightStates
  <2>4. night' = [night EXCEPT ![n] = w]
    BY <1>d
  <2> HIDE DEF w
  <2>5. night'[n] = w
    BY <2>4, <1>t
  <2>6. PassInv(n)'
    BY <2>3, <2>5, <1>d, <1>p DEF PassInv, Before, Earlier, Later, ReconAlive
  <2>7. Spoiled(n) => Spoiled(n)'
    BY <2>3, <2>5, <1>d DEF Spoiled, Before, Later
  <2> QED
    BY <2>2, <2>3, <2>4, <2>6, <2>7, <1>d, <1>q DEF Gone, Before
<1>e. ASSUME NEW pc \in {"probe", "close", "dead"}, Goto(n, pc), UNCHANGED <<recon, ledger, book, manifest>>,
             pc = "dead" => night[n].pc \notin {"idle", "done", "dead"}, pc # "dead" => night[n].pc \in Before,
             pc = "close" => Gone(Target(n)) /\ Target(n) # n
      PROVE  (\A k \in Nightlies : PassInv(k)') /\ LedgerInv'
  <2> DEFINE w == [night[n] EXCEPT !.pc = pc]
  <2>1. /\ w \in NightStates /\ w.pc = pc /\ w.todo = night[n].todo /\ w.phase = night[n].phase
        /\ w.accepted = night[n].accepted /\ w.due = night[n].due
    BY <1>g
  <2>2. night' = [night EXCEPT ![n] = w]
    BY <1>e DEF Goto
  <2> HIDE DEF w
  <2>3. night'[n] = w
    BY <2>2, <1>t
  <2>4. pc = "close" => Gone(Target(n))'
    <3>1. Target(n)' = Target(n)
      BY <2>1, <2>3 DEF Target
    <3>2. ASSUME pc = "close" PROVE night'[Target(n)].pc = night[Target(n)].pc
      BY <2>2, <3>2, <1>e, <1>t
    <3> QED
      BY <3>1, <3>2, <1>e DEF Gone
  <2>5. manifest[n] # "none" /\ night[n].pc \notin {"idle", "done", "dead"} => manifest[n] = "RUNNING"
    BY <1>p, <1>t DEF PassInv, IInv, NInv, SweepInv, NightStates
  <2>6. PassInv(n)'
    BY <2>1, <2>3, <2>4, <2>5, <1>e, <1>p DEF PassInv, Before, Earlier, Later, ReconAlive
  <2>7. Spoiled(n) => Spoiled(n)'
    BY <2>1, <2>3, <1>e DEF Spoiled, Before, Later
  <2>8. Gone(n) => pc = "dead"
    BY <1>e DEF Gone, Before
  <2> QED
    BY <2>1, <2>2, <2>6, <2>7, <2>8, <1>e, <1>q
<1>x. night[n].pc \in {"probe", "scan"} /\ night[n].todo # {} => Target(n) \in Nightlies
  <2>1. night[n].todo \subseteq Nightlies
    BY <1>t DEF NightStates
  <2> QED
    BY <2>1 DEF Target
<1>k. ASSUME Skip(n), night[n].pc \in Before, UNCHANGED <<recon, ledger, book, manifest>>
      PROVE  (\A k \in Nightlies : PassInv(k)') /\ LedgerInv'
  <2> DEFINE T == night[n].todo \ {Target(n)}
             G == night[n].gone \ {Target(n)}
             w == [night[n] EXCEPT !.pc = "scan", !.todo = T, !.gone = G]
  <2>1. T \in SUBSET Nightlies /\ G \in SUBSET Nightlies
    BY <1>t DEF NightStates
  <2>2. w \in NightStates
    BY <2>1, NightMoves DEF IInv, NInv
  <2>3. w.pc = "scan" /\ w.accepted = night[n].accepted /\ w.due = night[n].due
    BY <1>t DEF NightStates
  <2>4. night' = [night EXCEPT ![n] = w]
    BY <1>k DEF Skip
  <2> HIDE DEF w
  <2>5. night'[n] = w
    BY <2>4, <1>t
  <2>6. PassInv(n)'
    BY <2>3, <2>5, <1>k, <1>p DEF PassInv, Before, Earlier, Later, ReconAlive
  <2>7. Spoiled(n) => Spoiled(n)'
    BY <2>3, <2>5, <1>k DEF Spoiled, Before, Later
  <2> QED
    BY <2>2, <2>3, <2>4, <2>6, <2>7, <1>k, <1>q DEF Gone, Before
<1>2. CASE Load(n)
  <2>1. night[n].pc = "scan" /\ UNCHANGED <<recon, ledger, book, manifest>>
    BY <1>2 DEF Load, bookVars
  <2>2. CASE Goto(n, "probe")
    BY <2>1, <2>2, <1>e DEF Before
  <2>3. CASE Drop(n)
    BY <2>1, <2>3, <1>d DEF Drop, Before
  <2>4. CASE Skip(n)
    BY <2>1, <2>4, <1>k DEF Before
  <2> QED
    BY <2>2, <2>3, <2>4, <1>2 DEF Load
<1>3. CASE Probe(n)
  <2>1. night[n].pc = "probe" /\ UNCHANGED <<recon, ledger, book, manifest>>
    BY <1>3 DEF Probe, bookVars
  <2>2. CASE Abandoned(Target(n)) /\ Goto(n, "close")
    <3>1. Gone(Target(n)) /\ Goto(n, "close")
      BY <2>2 DEF Abandoned
    <3>2. Target(n) # n
      BY <2>1, <3>1 DEF Gone
    <3> QED
      BY <2>1, <3>1, <3>2, <1>e DEF Before
  <2>3. CASE Drop(n)
    BY <2>1, <2>3, <1>d DEF Drop, Before
  <2>4. CASE Skip(n)
    BY <2>1, <2>4, <1>k DEF Before
  <2> QED
    BY <2>2, <2>3, <2>4, <1>3 DEF Probe
<1>4. CASE Close(n)
  <2> DEFINE T == Target(n)
             w == [night[n] EXCEPT !.pc = "scan", !.todo = night[n].todo \ {T}]
  <2>1. /\ night[n].pc = "close" /\ UNCHANGED <<recon, ledger, book>>
        /\ manifest' = [manifest EXCEPT ![T] = "ABORTED"] /\ night' = [night EXCEPT ![n] = w]
    BY <1>4 DEF Close, Drop, bookVars
  <2>2. T \in Nightlies /\ Gone(T) /\ T # n
    <3>1. T \in night[n].todo /\ night[n].todo \subseteq Nightlies
      BY <2>1, <1>t DEF IInv, NInv, SweepInv, Target, NightStates
    <3>2. Gone(T)
      BY <2>1, <1>p DEF PassInv
    <3> QED
      BY <2>1, <3>1, <3>2 DEF Gone
  <2>3. night[n].todo \ {T} \in SUBSET Nightlies
    BY <1>t DEF NightStates
  <2>4. w \in NightStates
    BY <2>3, NightMoves DEF IInv, NInv
  <2>5. w.pc = "scan" /\ w.accepted = night[n].accepted /\ w.due = night[n].due
    BY <1>t DEF NightStates
  <2> HIDE DEF w, T
  <2>6. /\ night'[n] = w /\ \A k \in Nightlies \ {n} : night'[k] = night[k]
        /\ manifest'[T] = "ABORTED" /\ \A k \in Nightlies \ {T} : manifest'[k] = manifest[k]
    BY <2>1, <2>2, <1>t
  <2>7. PassInv(n)'
    BY <2>1, <2>2, <2>5, <2>6, <1>p DEF PassInv, Before, Earlier, Later, ReconAlive
  <2>8. ASSUME NEW k \in Nightlies, k # n PROVE PassInv(k)'
    <3>1. PassInv(k)
      BY DEF IInv
    <3>2. night[k].pc = "close" => Target(k) \in Nightlies
      <4>1. night[k].pc = "close" => night[k].todo # {}
        BY DEF IInv, NInv, SweepInv
      <4>2. night[k].todo \subseteq Nightlies
        BY <1>t DEF NightStates
      <4> QED
        BY <4>1, <4>2 DEF Target
    <3>3. Target(k)' = Target(k)
      BY <2>6, <2>8 DEF Target
    <3>4. night[k].pc = "close" => Gone(Target(k))'
      <4> SUFFICES ASSUME night[k].pc = "close" PROVE Gone(Target(k))'
        OBVIOUS
      <4>1. night[Target(k)].pc \in {"done", "dead"} /\ Target(k) \in Nightlies
        BY <3>1, <3>2 DEF PassInv, Gone
      <4>2. Target(k) # n
        BY <2>1, <4>1
      <4> QED
        BY <2>6, <3>3, <4>1, <4>2 DEF Gone
    <3>5. night'[k] = night[k] /\ recon'[k] = recon[k] /\ UNCHANGED book
      BY <2>1, <2>6, <2>8
    <3>6. CASE k = T
      BY <3>1, <3>3, <3>4, <3>5, <3>6, <2>2, <2>6 DEF PassInv, ReconAlive, Gone
    <3>7. CASE k # T
      BY <3>1, <3>3, <3>4, <3>5, <3>7, <2>6 DEF PassInv, ReconAlive
    <3> QED
      BY <3>6, <3>7
  <2>9. ASSUME NEW k \in Nightlies PROVE (Spoiled(k) => Spoiled(k)') /\ (Claims(k)' => Claims(k))
    <3>1. night[n].pc = "close" => ~Spoiled(n)
      BY <2>1, <1>p DEF Spoiled, IInv, NInv, SweepInv
    <3> QED
      BY <2>1, <2>5, <2>6, <3>1 DEF Spoiled, Claims
  <2>10. LedgerInv'
    BY <2>1, <2>9 DEF IInv, LedgerInv
  <2> QED
    BY <2>7, <2>8, <2>10
<1>5. CASE Open(n)
  <2> DEFINE w == [night[n] EXCEPT !.pc = "check"]
  <2>1. /\ night[n].pc = "scan" /\ night' = [night EXCEPT ![n] = w] /\ UNCHANGED <<recon, ledger, book>>
        /\ manifest' = [manifest EXCEPT ![n] = "RUNNING"]
    BY <1>5 DEF Open, Goto, bookVars
  <2>2. /\ w \in NightStates /\ w.pc = "check" /\ w.accepted = night[n].accepted /\ w.due = night[n].due
    BY <1>g
  <2> HIDE DEF w
  <2>3. night'[n] = w /\ manifest'[n] = "RUNNING" /\ recon' = [recon EXCEPT ![n] = recon[n]]
    BY <2>1, <1>t
  <2>4. PassInv(n)'
    BY <2>1, <2>2, <2>3, <1>p DEF PassInv, Before, Earlier, Later, ReconAlive
  <2>5. ~Spoiled(n)
    BY <2>1 DEF Spoiled, IInv, NInv, SweepInv
  <2>6. Claims(n)' => Claims(n)
    BY <2>1, <2>2, <2>3 DEF Claims
  <2> QED
    BY <2>1, <2>2, <2>3, <2>4, <2>5, <2>6, <1>w DEF Gone
<1>l. ASSUME NEW v \in {"DEFERRED", "FAIL_PROVIDER"}, Seal(n, v), night[n].pc \in {"check", "validate"},
             UNCHANGED <<recon, ledger, book>>
      PROVE  (\A k \in Nightlies : PassInv(k)') /\ LedgerInv'
  <2> DEFINE w == [night[n] EXCEPT !.pc = "done"]
  <2>1. night' = [night EXCEPT ![n] = w] /\ manifest' = [manifest EXCEPT ![n] = v]
    BY <1>l DEF Seal, Goto
  <2>2. /\ w \in NightStates /\ w.pc = "done" /\ w.accepted = night[n].accepted /\ w.due = night[n].due
    BY <1>g
  <2> HIDE DEF w
  <2>3. night'[n] = w /\ manifest'[n] = v /\ recon' = [recon EXCEPT ![n] = recon[n]]
    BY <2>1, <1>l, <1>t
  <2>4. PassInv(n)'
    BY <1>l, <2>2, <2>3, <1>p DEF PassInv, Before, Earlier, Later, ReconAlive
  <2>5. ~Spoiled(n)
    BY <1>l, <1>p DEF Spoiled, PassInv, Before, Later
  <2>6. Claims(n)' => Claims(n)
    BY <1>l, <2>2, <2>3 DEF Claims
  <2>7. v \in {"none", "RUNNING"} \cup Verdicts
    BY DEF Verdicts
  <2> QED
    BY <1>l, <2>1, <2>2, <2>3, <2>4, <2>5, <2>6, <2>7, <1>w
<1>6. CASE Check(n)
  <2>1. night[n].pc = "check" /\ UNCHANGED <<recon, ledger, book>>
    BY <1>6 DEF Check, bookVars
  <2>2. CASE Seal(n, "DEFERRED")
    BY <2>1, <2>2, <1>l
  <2>3. CASE night' = [night EXCEPT ![n].pc = "validate", ![n].before = Recorded] /\ UNCHANGED manifest
    <3> DEFINE w == [night[n] EXCEPT !.pc = "validate", !.before = Recorded]
    <3>1. night' = [night EXCEPT ![n] = w] /\ UNCHANGED manifest
      BY <2>3
    <3>2. w \in NightStates
      <4>1. Recorded \in SUBSET Masters
        BY DEF Recorded
      <4> QED
        BY <4>1, NightMoves DEF IInv, NInv
    <3>3. w.pc = "validate" /\ w.accepted = night[n].accepted /\ w.due = night[n].due
      BY <1>t DEF NightStates
    <3> HIDE DEF w
    <3>4. night'[n] = w
      BY <3>1, <1>t
    <3>5. PassInv(n)'
      BY <2>1, <3>1, <3>3, <3>4, <1>p DEF PassInv, Before, Earlier, Later, ReconAlive
    <3>6. Spoiled(n) => Spoiled(n)'
      BY <2>1, <3>1, <3>3, <3>4 DEF Spoiled, Later
    <3> QED
      BY <2>1, <3>1, <3>2, <3>3, <3>5, <3>6, <1>q DEF Gone
  <2> QED
    BY <2>2, <2>3, <1>6 DEF Check
(* The reconciler of a pass is started. *)
<1>b. ASSUME NEW ph \in Passes, NEW rc \in {0, 1}, BeginPass(n, ph, rc), UNCHANGED <<manifest, ledger, book>>,
             (night[n].pc = "validate" /\ ph = "pre") \/ (night[n].pc = "master" /\ ph = "post")
      PROVE  (\A k \in Nightlies : PassInv(k)') /\ LedgerInv'
  <2> DEFINE w == [night[n] EXCEPT !.pc = "pass", !.phase = ph, !.rc = rc]
  <2>1. night' = [night EXCEPT ![n] = w] /\ recon' = [recon EXCEPT ![n] = "plan"]
    BY <1>b DEF BeginPass
  <2>2. w \in NightStates
    BY NightMoves DEF IInv, NInv
  <2>3. w.pc = "pass" /\ w.phase = ph /\ w.accepted = night[n].accepted /\ w.due = night[n].due
    BY <1>t DEF NightStates
  <2> HIDE DEF w
  <2>4. night'[n] = w /\ recon'[n] = "plan" /\ manifest' = [manifest EXCEPT ![n] = manifest[n]]
    BY <1>b, <2>1, <1>t
  <2>5. PassInv(n)'
    BY <1>b, <2>3, <2>4, <1>p DEF PassInv, Before, Earlier, Later, ReconAlive, Passes
  <2>6. Spoiled(n) => Spoiled(n)'
    BY <1>b, <2>3, <2>4 DEF Spoiled, Later
  <2>7. ~Claims(n)'
    BY <2>4 DEF Claims
  <2>8. ~Gone(n)
    BY <1>b DEF Gone
  <2> QED
    BY <1>b, <1>t, <2>1, <2>2, <2>4, <2>5, <2>6, <2>7, <2>8, <1>w
<1>7. CASE Validate(n)
  <2>1. /\ night[n].pc = "validate" /\ UNCHANGED <<ledger, book>>
        /\ \/ BeginPass(n, "pre", 0) /\ UNCHANGED manifest
           \/ Seal(n, "FAIL_PROVIDER") /\ UNCHANGED recon
    BY <1>7 DEF Validate, bookVars
  <2>2. CASE BeginPass(n, "pre", 0) /\ UNCHANGED manifest
    <3>1. "pre" \in Passes /\ 0 \in {0, 1}
      BY DEF Passes
    <3> QED
      BY <2>1, <2>2, <3>1, <1>b
  <2>3. CASE Seal(n, "FAIL_PROVIDER") /\ UNCHANGED recon
    BY <2>1, <2>3, <1>l
  <2> QED
    BY <2>1, <2>2, <2>3
<1>a. WithVerdict(n) \subseteq night[n].accepted \cup {night[n].phase}
  BY DEF WithVerdict
<1>8. CASE PreEnds(n)
  <2> DEFINE w == [night[n] EXCEPT !.pc = "master", !.accepted = WithVerdict(n)]
  <2>1. /\ night[n].pc = "pass" /\ night[n].phase = "pre" /\ night' = [night EXCEPT ![n] = w]
        /\ recon[n] \in {"ok", "failed"} /\ UNCHANGED <<manifest, recon, ledger, book>>
    BY <1>8 DEF PreEnds, bookVars
  <2>2. w \in NightStates
    BY NightMoves DEF IInv, NInv
  <2>3. w.pc = "master" /\ w.accepted = WithVerdict(n) /\ w.due = night[n].due
    BY <1>t DEF NightStates
  <2> HIDE DEF w
  <2>4. night'[n] = w
    BY <2>1, <1>t
  <2>5. PassInv(n)'
    BY <2>1, <2>3, <2>4, <1>a, <1>p DEF PassInv, Before, Earlier, Later, ReconAlive
  <2>6. Spoiled(n) => Spoiled(n)'
    BY <2>1, <2>3, <2>4, <1>p DEF Spoiled, Later, WithVerdict, PassInv, Earlier
  <2> QED
    BY <2>1, <2>2, <2>3, <2>5, <2>6, <1>q DEF Gone
<1>9. CASE MasterEnds(n)
  <2>1. /\ night[n].pc = "master" /\ UNCHANGED <<manifest, ledger, book>>
        /\ \E rc \in {0, 1} : BeginPass(n, "post", rc)
    BY <1>9 DEF MasterEnds, bookVars
  <2> QED
    BY <2>1, <1>b DEF Passes
<1>10. CASE Verdict(n)
  <2> DEFINE w == [night[n] EXCEPT !.pc = "done", !.accepted = WithVerdict(n)]
             v == IF WithVerdict(n) # Passes THEN "FAIL_LATE"
                  ELSE IF Passed(n) THEN "PASS" ELSE "FAIL_MASTER"
  <2>1. /\ night[n].pc = "pass" /\ night[n].phase = "post" /\ UNCHANGED <<recon, ledger, book>>
        /\ night' = [night EXCEPT ![n] = w] /\ manifest' = [manifest EXCEPT ![n] = v]
        /\ recon[n] \in {"ok", "failed"}
    BY <1>10 DEF Verdict, bookVars
  <2>2. w \in NightStates
    BY NightMoves DEF IInv, NInv
  <2>3. w.pc = "done" /\ w.accepted = WithVerdict(n) /\ w.due = night[n].due
    BY <1>t DEF NightStates
  <2>4. v \in {"PASS", "FAIL_MASTER", "FAIL_LATE"} /\ (WithVerdict(n) # Passes <=> v = "FAIL_LATE")
    OBVIOUS
  <2> HIDE DEF w, v
  <2>5. night'[n] = w /\ manifest'[n] = v /\ recon' = [recon EXCEPT ![n] = recon[n]]
    BY <2>1, <1>t
  <2>6. recon[n] = "failed" => WithVerdict(n) # Passes
    BY <2>1, <1>p DEF PassInv, Later, WithVerdict, Passes
  <2>7. "pre" \notin night[n].accepted => WithVerdict(n) # Passes
    BY <2>1 DEF WithVerdict, Passes
  <2>8. PassInv(n)'
    BY <2>1, <2>3, <2>4, <2>5, <2>6, <1>p DEF PassInv, Before, Earlier, Later, ReconAlive
  <2>9. Spoiled(n) => Spoiled(n)'
    BY <2>1, <2>4, <2>5, <2>6, <2>7, <1>p DEF Spoiled, PassInv
  <2>10. Claims(n)' => Claims(n)
    BY <2>1, <2>3, <2>5 DEF Claims
  <2>11. ~Gone(n) /\ v \in {"none", "RUNNING"} \cup Verdicts
    BY <2>1, <2>4 DEF Gone, Verdicts
  <2> QED
    BY <2>1, <2>2, <2>5, <2>8, <2>9, <2>10, <2>11, <1>w
<1>11. CASE KillNightly(n)
  <2>1. Goto(n, "dead") /\ night[n].pc \notin {"idle", "done", "dead"} /\ UNCHANGED <<recon, ledger, book, manifest>>
    BY <1>11 DEF KillNightly, Running, bookVars
  <2> QED
    BY <2>1, <1>e
<1> QED
  BY <1>1, <1>2, <1>3, <1>4, <1>5, <1>6, <1>7, <1>8, <1>9, <1>10, <1>11 DEF NightStep

LEMMA PassRecon ==
  ASSUME NEW n \in Nightlies, IInv, Rest', ReconStep(n) \/ KillReconciler(n)
  PROVE  (\A k \in Nightlies : PassInv(k)') /\ LedgerInv'
<1>t. /\ night \in [Nightlies -> NightStates] /\ night[n] \in NightStates
      /\ manifest \in [Nightlies -> {"none", "RUNNING"} \cup Verdicts]
      /\ recon \in [Nightlies ->
           {"idle", "plan", "ledger", "in_ledger", "audit", "post", "in_post", "ok", "failed"}]
      /\ book \in BOOLEAN /\ ledger \in BOOLEAN
  BY DEF IInv, NInv, Types, Rest
<1>p. PassInv(n)
  BY DEF IInv
<1>0. ReconAlive(n) /\ UNCHANGED <<manifest, book>>
  BY DEF ReconStep, ReconAlive, Plan, Refused, LedgerRun, LedgerEnds, Audit, PostRun, PostEnds,
         KillReconciler, nightVars, bookVars
<1>1. ASSUME NEW r \in {"ledger", "in_ledger", "audit", "post", "in_post", "ok", "failed"}, ReconTo(n, r),
             UNCHANGED night, r = "ok" => ledger', ledger => ledger' \/ r = "failed"
      PROVE  (\A k \in Nightlies : PassInv(k)') /\ LedgerInv'
  <2>1. recon'[n] = r /\ \A k \in Nightlies \ {n} : recon'[k] = recon[k]
    BY <1>1, <1>t DEF ReconTo
  <2>2. Target(n)' = Target(n)
    BY <1>1 DEF Target
  <2>3. night[n].pc \in {"pass", "dead"} /\ manifest[n] # "none"
    BY <1>0, <1>p DEF PassInv
  <2>4. PassInv(n)'
    BY <1>0, <1>1, <2>1, <2>2, <2>3, <1>p DEF PassInv, Before, Earlier, Later, ReconAlive, Gone
  <2>5. Spoiled(n) => Spoiled(n)'
    BY <1>0, <1>1, <2>1 DEF Spoiled, Later, ReconAlive
  <2>6. Claims(n)' => ledger'
    BY <1>1, <2>1 DEF Claims
  <2>7. ledger => ledger' \/ Spoiled(n)'
    BY <1>0, <1>1, <2>1, <2>3, <1>p, <1>t DEF Spoiled, PassInv
  <2>8. Gone(n) => Gone(n)'
    BY <1>1 DEF Gone
  <2> QED
    BY <1>0, <1>1, <2>1, <2>4, <2>5, <2>6, <2>7, <2>8, LedgerFrame
<1>2. CASE Plan(n)
  <2> DEFINE w == [night[n] EXCEPT !.due = arrived /\ book]
             r == IF arrived /\ ~Completed /\ book THEN "ledger" ELSE "ok"
  <2>1. night' = [night EXCEPT ![n] = w] /\ recon' = [recon EXCEPT ![n] = r] /\ UNCHANGED ledger
    BY <1>2 DEF Plan, ReconTo, bookVars
  <2>2. /\ w.pc = night[n].pc /\ w.phase = night[n].phase /\ w.accepted = night[n].accepted
        /\ w.todo = night[n].todo /\ w.due = (arrived /\ book)
    BY <1>t DEF NightStates
  <2>3. r \in {"ledger", "ok"} /\ (r = "ok" => ledger \/ ~(arrived /\ book))
    BY DEF Completed
  <2> HIDE DEF w, r
  <2>4. /\ night'[n] = w /\ recon'[n] = r
        /\ \A k \in Nightlies \ {n} : night'[k] = night[k] /\ recon'[k] = recon[k]
    BY <2>1, <1>t
  <2>5. night[n].pc \in {"pass", "dead"} /\ manifest[n] # "none"
    BY <1>0, <1>p DEF PassInv
  <2>6. PassInv(n)'
    BY <1>0, <2>2, <2>3, <2>4, <2>5, <1>p DEF PassInv, Before, Earlier, Later, ReconAlive, Gone
  <2>7. Spoiled(n) => Spoiled(n)'
    BY <1>0, <2>2, <2>4 DEF Spoiled, Later, ReconAlive
  <2>8. Claims(n)' => ledger'
    BY <2>1, <2>2, <2>3, <2>4 DEF Claims
  <2>9. Gone(n) => Gone(n)'
    BY <2>2, <2>4 DEF Gone
  <2> QED
    BY <1>0, <2>1, <2>4, <2>6, <2>7, <2>8, <2>9, LedgerFrame
<1>3. CASE Refused(n) \/ Audit(n) \/ KillReconciler(n)
  <2>1. UNCHANGED <<night, ledger>> /\ \E r \in {"post", "failed"} : ReconTo(n, r)
    BY <1>3 DEF Refused, Audit, KillReconciler, nightVars, bookVars
  <2> QED
    BY <2>1, <1>1
<1>4. CASE LedgerRun(n) \/ PostRun(n)
  <2>1. UNCHANGED <<night, ledger>> /\ \E r \in {"in_ledger", "in_post"} : ReconTo(n, r)
    BY <1>4 DEF LedgerRun, PostRun, nightVars
  <2> QED
    BY <2>1, <1>1
<1>5. CASE LedgerEnds(n)
  <2>1. UNCHANGED night /\ ((ReconTo(n, "audit") /\ ledger' = TRUE) \/ ReconTo(n, "failed"))
    BY <1>5 DEF LedgerEnds, nightVars
  <2> QED
    BY <2>1, <1>1
<1>6. CASE PostEnds(n)
  <2>1. UNCHANGED <<night, ledger>> /\ (ReconTo(n, "failed") \/ (ReconTo(n, "ok") /\ ledger))
    BY <1>6 DEF PostEnds, nightVars
  <2> QED
    BY <2>1, <1>1
<1> QED
  BY <1>2, <1>3, <1>4, <1>5, <1>6 DEF ReconStep

LEMMA PassOthers ==
  ASSUME IInv, Rest',
         \/ \E m \in Masters : OperatorStarts(m) \/ MasterStep(m) \/ KillMaster(m)
         \/ StatementArrives \/ Shutdown \/ UNCHANGED vars
  PROVE  (\A k \in Nightlies : PassInv(k)') /\ LedgerInv'
<1>t. /\ night \in [Nightlies -> NightStates] /\ book \in BOOLEAN /\ ledger \in BOOLEAN
      /\ recon \in [Nightlies ->
           {"idle", "plan", "ledger", "in_ledger", "audit", "post", "in_post", "ok", "failed"}]
  BY DEF IInv, NInv, Types, Rest
<1>1. ASSUME UNCHANGED <<nightVars, recon>>, book => UNCHANGED <<book, ledger>>
      PROVE  (\A k \in Nightlies : PassInv(k)') /\ LedgerInv'
  <2>0. UNCHANGED <<night, manifest, recon>> /\ book' \in BOOLEAN
    BY <1>1 DEF nightVars, Rest
  <2>1. ASSUME NEW k \in Nightlies PROVE PassInv(k)'
    <3>1. Target(k)' = Target(k) /\ (Gone(Target(k)) => Gone(Target(k))')
      BY <2>0 DEF Target, Gone
    <3> QED
      BY <1>1, <2>0, <3>1 DEF IInv, PassInv, ReconAlive, Earlier, Later, Before
  <2>2. ASSUME NEW k \in Nightlies
        PROVE  (Spoiled(k)' <=> Spoiled(k)) /\ (Claims(k)' <=> Claims(k)) /\ (Claims(k) => book)
    BY <2>0 DEF Spoiled, Later, Claims, IInv, PassInv
  <2>3. LedgerInv'
    BY <1>1, <2>2 DEF IInv, LedgerInv
  <2> QED
    BY <2>1, <2>3
<1>2. ASSUME NEW m \in Masters, OperatorStarts(m) \/ MasterStep(m) \/ KillMaster(m)
      PROVE  UNCHANGED <<nightVars, recon>> /\ (book => UNCHANGED <<book, ledger>>)
  BY <1>2, <1>t DEF OperatorStarts, MasterStep, Acquire, Reconcile, OpenManifest, Build, SealMaster,
                  KillMaster, bookVars
<1>3. StatementArrives \/ UNCHANGED vars => UNCHANGED <<nightVars, recon, book, ledger>>
  BY DEF StatementArrives, vars, bookVars
<1>4. CASE Shutdown
  <2>1. /\ UNCHANGED <<manifest, book, ledger>>
        /\ night' = [n \in Nightlies |-> IF Running(n) THEN [night[n] EXCEPT !.pc = "dead"] ELSE night[n]]
        /\ recon' = [n \in Nightlies |-> IF ReconAlive(n) THEN "failed" ELSE recon[n]]
    BY <1>4 DEF Shutdown, bookVars
  <2>2. ASSUME NEW k \in Nightlies
        PROVE  /\ night'[k].pc = IF Running(k) THEN "dead" ELSE night[k].pc
               /\ night'[k].phase = night[k].phase /\ night'[k].due = night[k].due
               /\ night'[k].accepted = night[k].accepted /\ night'[k].todo = night[k].todo
               /\ recon'[k] = IF ReconAlive(k) THEN "failed" ELSE recon[k]
    <3>1. night[k] \in NightStates
      BY <1>t
    <3>2. night'[k] = IF Running(k) THEN [night[k] EXCEPT !.pc = "dead"] ELSE night[k]
      BY <2>1
    <3> QED
      BY <2>1, <3>1, <3>2 DEF NightStates
  <2>3. ASSUME NEW k \in Nightlies PROVE PassInv(k)'
    <3>1. PassInv(k) /\ night[k].pc \in NightPcs
      BY <1>t DEF IInv, NightStates, NightPcs
    <3>2. manifest[k] # "none" /\ Running(k) => manifest[k] = "RUNNING"
      BY <3>1 DEF PassInv, Running, NightPcs, IInv, NInv, SweepInv
    <3>3. night'[k].pc \notin {"probe", "close", "scan", "check", "validate", "pass", "master"}
      BY <2>2, <3>1 DEF Running, NightPcs
    <3> QED
      BY <2>1, <2>2, <3>1, <3>2, <3>3 DEF PassInv, Running, Before, Earlier, Later, ReconAlive
  <2>4. ASSUME NEW k \in Nightlies PROVE (Spoiled(k) => Spoiled(k)') /\ (Claims(k)' => Claims(k))
    BY <2>1, <2>2 DEF Spoiled, Later, Claims, Running
  <2>5. LedgerInv'
    BY <2>1, <2>4 DEF IInv, LedgerInv
  <2> QED
    BY <2>3, <2>5
<1> QED
  BY <1>1, <1>2, <1>3, <1>4

LEMMA IInvInit == Init => IInv
<1> SUFFICES ASSUME Init PROVE IInv
  OBVIOUS
<1>1. NInv
  BY InitInv
<1>2. Rest
  <2>1. record = [m \in Masters |-> "none"] /\ recon = [n \in Nightlies |-> "idle"]
    BY DEF Init
  <2>2. faults \in 0..MaxFaults
    BY ConstantsAssumption DEF Init
  <2>3. /\ lock = NoLock /\ arrived \in BOOLEAN /\ book \in BOOLEAN
        /\ ledger = FALSE /\ rebuilt = FALSE /\ recovery = "none"
    BY DEF Init
  <2> QED
    BY <2>1, <2>2, <2>3 DEF Rest
<1>3. RecordInv /\ OrderInv
  BY DEF Init, RecordInv, OrderInv, Recorded
<1>4. \A n \in Nightlies : PassInv(n)
  BY DEF Init, PassInv, NewNight, ReconAlive, Earlier, Later, Before
<1>5. LedgerInv
  BY DEF Init, LedgerInv, Claims, NewNight
<1> QED
  BY <1>1, <1>2, <1>3, <1>4, <1>5 DEF IInv

LEMMA IInvStep == IInv /\ [Next]_vars => IInv'
<1> SUFFICES ASSUME IInv, [Next]_vars PROVE IInv'
  OBVIOUS
<1>1. NInv'
  BY StepInv DEF IInv
<1>2. Rest'
  BY RestStep DEF IInv
<1>3. RecordInv' /\ OrderInv'
  BY RecordStep, OrderStep DEF IInv, NInv
<1>4. (\A k \in Nightlies : PassInv(k)') /\ LedgerInv'
  BY <1>2, PassNight, PassRecon, PassOthers DEF Next
<1> QED
  BY <1>1, <1>2, <1>3, <1>4 DEF IInv

(* The whole invariant: the verdicts and the sweep, the types, the order   *)
(* of the manifests, the passes, and the ledger.                           *)
THEOREM Invariance == Spec => []IInv
<1> QED
  BY IInvInit, IInvStep, PTL DEF Spec

(* Every variable keeps its type, and the manifests of the masters are in  *)
(* the order of their writing.                                             *)
THEOREM TypeCorrect == Spec => []TypeOK
<1>1. IInv => TypeOK
  BY DEF IInv, NInv, Types, Rest, OrderInv, TypeOK
<1> QED
  BY <1>1, Invariance, PTL

(* However many nightlies die, start and sweep at once, none gets to work  *)
(* while the manifest of one that was dead before it, and that its sweep   *)
(* could read and judge, says RUNNING; and only the manifests of nightlies *)
(* that have ended are ever closed.                                        *)
THEOREM DeadOnesAreClosed == Spec => []DeadNightliesAreClosed
<1>1. IInv => DeadNightliesAreClosed
  <2> SUFFICES ASSUME IInv PROVE DeadNightliesAreClosed
    OBVIOUS
  <2>1. ASSUME NEW n \in Nightlies, manifest[n] # "none"
        PROVE  \A m \in night[n].gone : manifest[m] # "RUNNING"
    BY <2>1 DEF IInv, NInv, SweepInv
  <2>2. ASSUME NEW n \in Nightlies, manifest[n] = "ABORTED" PROVE Gone(n)
    <3>1. PassInv(n) /\ night[n].pc \in NightPcs
      BY DEF IInv, NInv, Types, NightStates, NightPcs
    <3> QED
      BY <2>2, <3>1 DEF PassInv, NightPcs, Gone, IInv, NInv, SweepInv
  <2> QED
    BY <2>1, <2>2 DEF DeadNightliesAreClosed
<1> QED
  BY <1>1, Invariance, PTL

(* A ledger that is missing after a PASS that had the statement and a book *)
(* is accounted for by another nightly's manifest: whatever takes an       *)
(* accepted ledger away spoils the verdict of the nightly that did it.     *)
THEOREM MissingLedgersAreReported == Spec => []MissingLedgerIsReported
<1>1. IInv => MissingLedgerIsReported
  <2> SUFFICES ASSUME IInv, NEW n \in Nightlies, manifest[n] = "PASS", night[n].due, ~ledger
               PROVE  \E k \in Nightlies : manifest[k] \in {"RUNNING", "FAIL_LATE", "ABORTED"}
    BY DEF MissingLedgerIsReported
  <2>1. Claims(n)
    BY DEF IInv, PassInv, Claims
  <2>2. PICK k \in Nightlies : Spoiled(k)
    BY <2>1 DEF IInv, LedgerInv
  <2> QED
    BY <2>2 DEF Spoiled
<1> QED
  BY <1>1, Invariance, PTL
====
