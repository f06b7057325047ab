-------------------------- MODULE MCProviderDispatch --------------------------
(* Phases due one interval apart, or a single one. *)
EXTENDS ProviderDispatch

CONSTANTS early, late

DueAt == [p \in Phases |-> IF p = early THEN 0 ELSE 1]
GraceOf == [p \in Phases |-> IF p = early THEN 1 ELSE 0]
=============================================================================
