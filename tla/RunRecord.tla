------------------------------ MODULE RunRecord ------------------------------
(***************************************************************************)
(* What the manifests of masters promise to whoever reads them, a later    *)
(* --resume first of all: a run's record is opened once, while no other    *)
(* run that lives has one open, only gains rows while its run lives, is    *)
(* closed once and never touched again.  The record of a run that died is  *)
(* left as it was or marked as aborted with its rows; only a run that was  *)
(* cut short may close without the rows it had.                            *)
(***************************************************************************)
CONSTANT Runs

VARIABLES
    acc,   \* "absent", "RUNNING", or how each record was closed
    rows,  \* what each record holds, unit by unit
    cut,   \* the runs that were cut short
    gone   \* the runs that died without closing their record

vars == <<acc, rows, cut, gone>>

Init ==
    /\ acc = [r \in Runs |-> "absent"]
    /\ \A r \in Runs : DOMAIN rows[r] = {}
    /\ cut = {} /\ gone = {}

(* The rows of the record after a step contain those before it. *)
Keeps(r) ==
    \A u \in DOMAIN rows[r] : u \in DOMAIN rows'[r] /\ rows'[r][u] = rows[r][u]

OnlyOf(r) == \A q \in Runs \ {r} : rows'[q] = rows[q]

Live(r) == r \notin gone

Open(r) ==
    /\ acc[r] = "absent" /\ Live(r)
    /\ \A q \in Runs : acc[q] = "RUNNING" => ~Live(q)
    /\ acc' = [acc EXCEPT ![r] = "RUNNING"]
    /\ DOMAIN rows'[r] = {} /\ OnlyOf(r)
    /\ UNCHANGED <<cut, gone>>

Extend(r) ==
    /\ acc[r] = "RUNNING" /\ Live(r)
    /\ Keeps(r) /\ OnlyOf(r)
    /\ UNCHANGED <<acc, cut, gone>>

CutShort(r) ==
    /\ acc[r] = "RUNNING" /\ Live(r)
    /\ cut' = cut \cup {r}
    /\ UNCHANGED <<acc, rows, gone>>

Close(r) ==
    /\ acc[r] = "RUNNING" /\ Live(r)
    /\ \E verdict \in {"PASS", "FAIL"} : acc' = [acc EXCEPT ![r] = verdict]
    /\ r \in cut \/ Keeps(r)
    /\ OnlyOf(r)
    /\ UNCHANGED <<cut, gone>>

Die(r) ==
    /\ acc[r] \in {"absent", "RUNNING"} /\ Live(r)
    /\ gone' = gone \cup {r}
    /\ UNCHANGED <<acc, rows, cut>>

Abort(r) ==
    /\ acc[r] = "RUNNING" /\ ~Live(r)
    /\ acc' = [acc EXCEPT ![r] = "ABORTED"]
    /\ UNCHANGED <<rows, cut, gone>>

Next == \E r \in Runs : Open(r) \/ Extend(r) \/ CutShort(r) \/ Close(r) \/ Die(r) \/ Abort(r)

Spec == Init /\ [][Next]_vars
=============================================================================
