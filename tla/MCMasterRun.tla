----------------------------- MODULE MCMasterRun -----------------------------
(* Instances of MasterRun for TLC: two sectors that share a database, one   *)
(* of them with a post step, a sector on its own, and a downstream job.     *)
EXTENDS MasterRun, TLC

CONSTANTS a, b, c, p, g1, g2

MCLane == (a :> g1) @@ (b :> g1) @@ (c :> g2) @@ (p :> MainLane)
MCRank == (a :> 1) @@ (b :> 2) @@ (c :> 1) @@ (p :> 1)
MCResume == {[resume |-> TRUE, ignore |-> FALSE, sel |-> Units]}
MCLines == {[resume |-> FALSE, ignore |-> FALSE, sel |-> Units]} \cup
           [resume : {FALSE}, ignore : BOOLEAN, sel : {{a, p}}]
MCLaneOf(S) == [u \in S |-> MCLane[u]]
MCRankOf(S) == [u \in S |-> MCRank[u]]
MCLane2 == MCLaneOf({a, c})
MCRank2 == MCRankOf({a, c})
=============================================================================
