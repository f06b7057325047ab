------------------------------ MODULE MCCatchUp ------------------------------
(* Instances of CatchUp for TLC: a sector that is rebuilt session by        *)
(* session, alone or beside one whose native backfill covers the target.    *)
EXTENDS CatchUp, TLC

CONSTANTS s1, s2

MCGroupSize == (s1 :> 1) @@ (s2 :> LastDay)
MCOne == [s \in Sectors |-> 1]
=============================================================================
