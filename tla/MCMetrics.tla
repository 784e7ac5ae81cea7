------------------------------- MODULE MCMetrics -------------------------------
(* A counter, a gauge and a bitmap, declared in another order than that of     *)
(* their names.                                                                *)
EXTENDS Metrics, TLC
CONSTANTS requests, active, flags

MCDeclared == <<requests, active, flags>>
MCSorted   == <<active, flags, requests>>
MCKind     == (requests :> "counter") @@ (active :> "gauge") @@ (flags :> "bitmap")
Symmetry   == Permutations(Segs) \cup Permutations(Bases)
=============================================================================
