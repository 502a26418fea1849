----------------------------- MODULE MCEventLoop -----------------------------
(* TLC instances of EventLoop: a few regions, as model values. *)
EXTENDS EventLoop, TLC

CONSTANTS r1, r2

MCRegions == {r1, r2}

\* Regions are interchangeable in every safety property.
RegionSymmetry == Permutations(MCRegions)
==============================================================================
